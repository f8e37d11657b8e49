--------------------------- MODULE DatastoreWrites ---------------------------
(***************************************************************************)
(* The writes of one datastore namespace: a SQLite database the process    *)
(* opens with a single connection, the documents of one collection, the    *)
(* sequence its serial ids are drawn from, and one unique index on a field.*)
(* Source: cli/internal/datastore/{store,scoped,aggregate,query,routes}.go.*)
(*                                                                         *)
(* A transaction holds the connection from Begin to Commit or Rollback,    *)
(* and every statement outside it waits until the connection is free.  A   *)
(* document is the value of the indexed field and the user it belongs to:  *)
(* the rules that admit a user's write are that of a row's owner.          *)
(***************************************************************************)
EXTENDS Naturals, Sequences, FiniteSets

CONSTANTS
    User, Nobody, \* end users; the owner of what an API key wrote
    Named,        \* keys clients choose
    MaxKey,       \* bound: serial ids
    Value,        \* what the indexed field may hold
    Request,
    Batch,        \* what a put may bring
    Operations,   \* what a transaction may bring
    Retries,      \* serialIDRetries
    PutKeyless    \* whether an API key's put may leave a key out

Key   == 1..MaxKey
NoKey == 0
None  == [val |-> "none"]
Free  == "free"

Doc  == [val: Value, owner: User \cup {Nobody}]
Item == [op: {"put"}, key: Named \cup {NoKey}, val: Value]
Op   == Item \cup [op: {"delete"}, key: Named]
             \cup [op: {"check"}, key: Named, exists: BOOLEAN]
             \cup [op: {"mutate"}, key: Named, val: Value, upsert: BOOLEAN]

ASSUME WritesAssumption ==
    /\ MaxKey \in Nat /\ Retries \in Nat /\ Named \subseteq Key
    /\ Batch \subseteq Seq(Item) /\ Operations \subseteq Seq(Op)
    /\ Nobody \notin User /\ "none" \notin Value /\ Free \notin Request
    /\ PutKeyless \in BOOLEAN

VARIABLES
    rows, seq,   \* docs and _dsseq, as committed
    declared,    \* whether _dsindexes has the index
    built,       \* whether SQLite has it
    conn,        \* the request whose transaction holds the connection, or Free
    tx,          \* the documents and the sequence as that transaction sees them
    req,         \* what each request is at
    drawn        \* history: the highest id a finished write drew

writesVars == <<rows, seq, declared, built, conn, tx, req, drawn>>

Idle   == [at |-> "idle"]
Closed == [rows |-> [k \in Key |-> None], seq |-> 0]

WritesInit ==
    /\ rows = [k \in Key |-> None] /\ seq = 0
    /\ declared = FALSE /\ built = FALSE
    /\ conn = Free /\ tx = Closed
    /\ req = [r \in Request |-> Idle] /\ drawn = 0

Larger(a, b) == IF a < b THEN b ELSE a
Becomes(r, new) == req' = [req EXCEPT ![r] = new]

-----------------------------------------------------------------------------
(* Transactions *)

Asked(kind, u, todo) ==
    [at |-> "asked", kind |-> kind, user |-> u, todo |-> todo, tries |-> 0, last |-> 0,
     named |-> {todo[i].key : i \in DOMAIN todo} \ {NoKey}]

\* A user's put, an API key's put, an API key's transaction.
Ask(r) ==
    /\ req[r] = Idle
    /\ \/ \E u \in User, b \in Batch : Becomes(r, Asked("scoped", u, b))
       \/ \E b \in Batch :
             /\ PutKeyless \/ \A i \in DOMAIN b : b[i].key # NoKey
             /\ Becomes(r, Asked("put", Nobody, b))
       \/ \E b \in Operations : Becomes(r, Asked("txn", Nobody, b))
    /\ UNCHANGED <<rows, seq, declared, built, conn, tx, drawn>>

Begin(r) ==
    /\ req[r].at = "asked" /\ conn = Free
    /\ conn' = r /\ tx' = [rows |-> rows, seq |-> seq]
    /\ Becomes(r, [req[r] EXCEPT !.at = "writes"])
    /\ UNCHANGED <<rows, seq, declared, built, drawn>>

\* The next operation; all but puts are a transaction's.
At(r, op) ==
    /\ req[r].at = "writes" /\ req[r].todo # <<>> /\ Head(req[r].todo).op = op
    /\ op # "put" => req[r].kind = "txn"

Done(r) == [req[r] EXCEPT !.todo = Tail(@), !.tries = 0]

\* The transaction is rolled back and the request refused.
Rollback(r) ==
    /\ conn' = Free /\ tx' = Closed /\ Becomes(r, Idle)
    /\ UNCHANGED <<rows, seq, declared, built, drawn>>

\* Whether the index SQLite has lets k hold v.
Unique(k, v) == built => \A j \in Key \ {k} : tx.rows[j] # None => tx.rows[j].val # v

\* The row is written and the request goes on with the next, or SQLite refuses.
Upsert(r, k, v, next, n) ==
    IF Unique(k, v)
    THEN /\ tx' = [rows |-> [tx.rows EXCEPT ![k] = [val |-> v, owner |-> req[r].user]], seq |-> n]
         /\ Becomes(r, next)
         /\ UNCHANGED <<rows, seq, declared, built, conn, drawn>>
    ELSE Rollback(r)

\* A user's write of a row there is needs the row to be theirs.
MayWrite(r, k) ==
    req[r].kind = "scoped" /\ tx.rows[k] # None => tx.rows[k].owner = req[r].user

PutNamed(r) ==
    /\ At(r, "put") /\ Head(req[r].todo).key # NoKey
    /\ LET k == Head(req[r].todo).key IN
       IF MayWrite(r, k) THEN Upsert(r, k, Head(req[r].todo).val, Done(r), tx.seq) ELSE Rollback(r)

-----------------------------------------------------------------------------
(* Serial ids *)

\* Faulty: rows are not looked at.
IdTakenByName(r, k) == k \in req[r].named

\* A row there is, or one the batch names, wherever it sits.
IdTaken(r, k) == tx.rows[k] # None \/ k \in req[r].named

\* genKey draws through the database and genKeyTx through the transaction.
MayDraw(r) == req[r].kind = "put" => conn = Free

\* freeAutoKeyTx: a user's put draws again when the id is taken, so many times.
\* Ids past the bound count as an error of the database.
Draw(r) ==
    /\ At(r, "put") /\ Head(req[r].todo).key = NoKey /\ MayDraw(r)
    /\ LET k == tx.seq + 1
           next == [req[r] EXCEPT !.last = k] IN
       IF k \notin Key THEN Rollback(r)
       ELSE IF req[r].kind # "scoped" \/ ~IdTaken(r, k)
       THEN Upsert(r, k, Head(req[r].todo).val, [Done(r) EXCEPT !.last = k], k)
       ELSE /\ IF req[r].tries < Retries
               THEN /\ Becomes(r, [next EXCEPT !.tries = @ + 1])
                    /\ tx' = [tx EXCEPT !.seq = k] /\ conn' = conn
               ELSE /\ Becomes(r, [next EXCEPT !.at = "spends"])
                    /\ conn' = Free /\ tx' = Closed
            /\ UNCHANGED <<rows, seq, declared, built, drawn>>

\* Faulty: the sequence is set back to what this write drew.
SpendBack(r) ==
    /\ req[r].at = "spends" /\ conn = Free
    /\ seq' = req[r].last
    /\ drawn' = Larger(drawn, req[r].last)
    /\ Becomes(r, Idle)
    /\ UNCHANGED <<rows, declared, built, conn, tx>>

\* spendSerial: what was drawn stays drawn although the write is rolled back.
Spend(r) ==
    /\ req[r].at = "spends" /\ conn = Free
    /\ seq' = Larger(seq, req[r].last)
    /\ drawn' = Larger(drawn, req[r].last)
    /\ Becomes(r, Idle)
    /\ UNCHANGED <<rows, declared, built, conn, tx>>

-----------------------------------------------------------------------------
(* The other operations of a transaction *)

\* An unmet check undoes what came before it.
Check(r) ==
    /\ At(r, "check")
    /\ LET o == Head(req[r].todo) IN
       IF (tx.rows[o.key] # None) = o.exists
       THEN Becomes(r, Done(r)) /\ UNCHANGED <<rows, seq, declared, built, conn, tx, drawn>>
       ELSE Rollback(r)

RemoveDoc(r) ==
    /\ At(r, "delete")
    /\ tx' = [tx EXCEPT !.rows[Head(req[r].todo).key] = None]
    /\ Becomes(r, Done(r))
    /\ UNCHANGED <<rows, seq, declared, built, conn, drawn>>

\* A mutation keeps the fields it does not name, the owner's among them.
Mutate(r) ==
    /\ At(r, "mutate")
    /\ LET o == Head(req[r].todo) IN
       IF tx.rows[o.key] = None
       THEN IF o.upsert THEN Upsert(r, o.key, o.val, Done(r), tx.seq) ELSE Rollback(r)
       ELSE IF Unique(o.key, o.val)
       THEN /\ tx' = [tx EXCEPT !.rows[o.key].val = o.val]
            /\ Becomes(r, Done(r))
            /\ UNCHANGED <<rows, seq, declared, built, conn, drawn>>
       ELSE Rollback(r)

Commit(r) ==
    /\ req[r].at = "writes" /\ req[r].todo = <<>>
    /\ rows' = tx.rows /\ seq' = tx.seq
    /\ conn' = Free /\ tx' = Closed /\ Becomes(r, Idle)
    /\ drawn' = Larger(drawn, req[r].last)
    /\ UNCHANGED <<declared, built>>

\* A delete's transaction: every row of K or, if one is not the user's, none.
Delete(u, K) ==
    /\ conn = Free
    /\ u # Nobody => \A k \in K : rows[k] # None => rows[k].owner = u
    /\ rows' = [k \in Key |-> IF k \in K THEN None ELSE rows[k]]
    /\ UNCHANGED <<seq, declared, built, conn, tx, req, drawn>>

-----------------------------------------------------------------------------
(* CreateIndex and DropIndex, a statement at a time *)

Repeats == \E j, k \in Key : j # k /\ rows[j] # None /\ rows[k] # None /\ rows[j].val = rows[k].val

\* An index already declared is not built again.
Find(r) ==
    /\ req[r] = Idle /\ conn = Free /\ ~declared
    /\ Becomes(r, [at |-> "declares"])
    /\ UNCHANGED <<rows, seq, declared, built, conn, tx, drawn>>

Declare(r) ==
    /\ req[r].at = "declares" /\ conn = Free
    /\ declared' = TRUE
    /\ Becomes(r, [at |-> "builds"])
    /\ UNCHANGED <<rows, seq, built, conn, tx, drawn>>

\* Faulty: an index that cannot be built stays declared.
BuildAnyway(r) ==
    /\ req[r].at = "builds" /\ conn = Free
    /\ built' = (built \/ ~Repeats)
    /\ Becomes(r, Idle)
    /\ UNCHANGED <<rows, seq, declared, conn, tx, drawn>>

Build(r) ==
    /\ req[r].at = "builds" /\ conn = Free
    /\ built' = (built \/ ~Repeats)
    /\ Becomes(r, IF built' THEN Idle ELSE [at |-> "undeclares"])
    /\ UNCHANGED <<rows, seq, declared, conn, tx, drawn>>

Undeclare(r) ==
    /\ req[r].at = "undeclares" /\ conn = Free
    /\ declared' = FALSE
    /\ Becomes(r, Idle)
    /\ UNCHANGED <<rows, seq, built, conn, tx, drawn>>

\* The declaration goes, SQLite's index stays.
DropIndex ==
    /\ conn = Free /\ declared
    /\ declared' = FALSE
    /\ UNCHANGED <<rows, seq, built, conn, tx, req, drawn>>

-----------------------------------------------------------------------------
Indexing(r) == req[r].at \in {"declares", "builds", "undeclares"}

\* The process stops and starts again; an index is not on its way.
WritesRestart ==
    /\ \A r \in Request : ~Indexing(r)
    /\ conn' = Free /\ tx' = Closed /\ req' = [r \in Request |-> Idle]
    /\ UNCHANGED <<rows, seq, declared, built, drawn>>

Write(r) == PutNamed(r) \/ Draw(r) \/ Check(r) \/ RemoveDoc(r) \/ Mutate(r) \/ Commit(r)

Index(r) == Find(r) \/ Declare(r) \/ Build(r) \/ Undeclare(r)

WritesNext ==
    \/ \E r \in Request : Ask(r) \/ Begin(r) \/ Write(r) \/ Spend(r) \/ Index(r)
    \/ \E u \in User \cup {Nobody}, K \in SUBSET Named : Delete(u, K)
    \/ DropIndex
    \/ WritesRestart

WritesSpec == WritesInit /\ [][WritesNext]_writesVars

\* A request in a transaction goes on, and one that waits for the connection is
\* served when it comes free again and again.
WritesFairSpec == WritesSpec /\ \A r \in Request : WF_writesVars(Write(r)) /\ SF_writesVars(Begin(r)) /\ SF_writesVars(Spend(r))

-----------------------------------------------------------------------------
Putting == [at: {"asked", "writes", "spends"}, kind: {"scoped", "put", "txn"},
            user: User \cup {Nobody}, todo: Seq(Op), tries: 0..Retries, last: 0..MaxKey,
            named: SUBSET Named]
Other   == [at: {"idle", "declares", "builds", "undeclares"}]

\* Every variable has its type, and the connection is held by the transaction
\* that is open.
WritesTypeOK ==
    /\ rows \in [Key -> Doc \cup {None}] /\ seq \in 0..MaxKey
    /\ declared \in BOOLEAN /\ built \in BOOLEAN
    /\ conn \in Request \cup {Free}
    /\ tx \in [rows: [Key -> Doc \cup {None}], seq: 0..MaxKey]
    /\ drawn \in 0..MaxKey
    /\ req \in [Request -> Putting \cup Other]
    /\ \A r \in Request : (req[r].at = "writes") <=> (conn = r)

\* What a user's put commits replaces only rows that were theirs: a document
\* without a key creates a row, whatever its id fell on, and another write's
\* row is not touched, whenever it was made.
ScopedKeepsToItsOwn ==
    [][\A r \in Request :
          (req[r].at = "writes" /\ req[r].kind = "scoped" /\ req'[r] = Idle)
             => \A k \in Key : rows[k] # None /\ rows'[k] # rows[k] => rows[k].owner = req[r].user]_writesVars

\* No write begins on an id that a finished one drew: a put refused because its
\* ids were taken has moved the sequence past them, and nothing moves it back.
DrawnArePast == drawn <= seq

\* While the index is declared, and none is on its way, no two documents share
\* a value.
DeclaredUnique == declared /\ (\A r \in Request : ~Indexing(r)) => ~Repeats

\* A put returns.
PutReturns == \A r \in Request : req[r].at = "asked" ~> req[r].at = "idle"

\* The connection is the open transaction's, and the sequence is past every id drawn.
WritesHold == WritesTypeOK /\ DrawnArePast

=============================================================================
