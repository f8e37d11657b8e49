----------------------------- MODULE BlobUploads -----------------------------
(***************************************************************************)
(* One blob instance: reserving an upload, the bytes arriving in one PUT or*)
(* in parts, the row becoming an object, publishing, deleting, listing and *)
(* reading it, the reaper of abandoned reservations, and a crash between   *)
(* the file of an object and the index.                                    *)
(* Source: cli/internal/blob/{service,routes,sign,triggers}.go.            *)
(*                                                                         *)
(* Objects are numbered as they are reserved.  Bytes are a sequence of     *)
(* pieces: the pieces of an upload's parts in the order the client names   *)
(* them, or one piece.  An ETag is the bytes it is the digest of.  A signed*)
(* URL is its expiry and the process whose key signed it; an upload id is  *)
(* guessed by nobody.                                                      *)
(***************************************************************************)
EXTENDS Naturals, Sequences, FiniteSets, SequencesExt

CONSTANTS
    BlobClients,
    Pieces,        \* what a body or a part may hold
    PartNumbers,
    UploadTTL, PendingGrace,
    BlobPage,      \* the limit of a list request
    MaxReserved, MaxUploads, MaxBlobClock, MaxBlobCrashes   \* bounds

ASSUME BlobAssumption ==
    /\ PartNumbers \subseteq Nat
    /\ UploadTTL \in Nat /\ PendingGrace \in Nat /\ UploadTTL < PendingGrace
    /\ BlobPage \in Nat \ {0}
    /\ MaxReserved \in Nat /\ MaxUploads \in Nat /\ MaxBlobClock \in Nat /\ MaxBlobCrashes \in Nat

VARIABLES
    rows,      \* Store.recs[instance]: id -> row
    indexed,   \* index.json as last renamed into place
    files,     \* id -> the bytes on disk
    mpu,       \* Store.mpu: upload -> [id, parts]
    putURL,    \* id -> when the URL its reservation handed out expires
    blobReq,   \* client -> the request it has in flight
    blobClock,
    reserved,  \* objects reserved so far
    uploads,   \* multipart uploads created so far
    events,    \* id -> the trigger events fired for it
    crashes,
    cut        \* objects whose delete or second commit a crash cut short

BlobVars == <<rows, indexed, files, mpu, putURL, blobReq, blobClock, reserved, uploads, events, crashes, cut>>

Blobs == 1..MaxReserved
Uploads == 1..MaxUploads
Nothing == <<>>
Idle == [op |-> "idle"]

Row == [status : {"pending", "ready"}, created : Nat, public : BOOLEAN, etag : Seq(Pieces)]

BlobInit ==
    /\ rows = Nothing /\ indexed = Nothing /\ files = Nothing /\ mpu = Nothing /\ putURL = Nothing
    /\ blobReq = [c \in BlobClients |-> Idle]
    /\ blobClock = 1 /\ reserved = 0 /\ uploads = 0 /\ crashes = 0
    /\ events = [b \in Blobs |-> {}] /\ cut = {}

-----------------------------------------------------------------------------
Has(b) == b \in DOMAIN rows
Pending(b) == Has(b) /\ rows[b].status = "pending"
Ready(b) == Has(b) /\ rows[b].status = "ready"

Without(f, S) == [x \in DOMAIN f \ S |-> f[x]]
With(f, x, v) == [y \in DOMAIN f \cup {x} |-> IF y = x THEN v ELSE f[y]]

\* A URL works until it expires, and only in the process that signed it.
Verified(b) == b \in DOMAIN putURL /\ blobClock <= putURL[b]

\* save: the index file is replaced by the rows there are.
Saved == indexed' = rows'

\* Commit, under the lock: the file, the row, the index.  Whatever the row's status is.
Commit(b, body) ==
    /\ files' = With(files, b, body)
    /\ rows' = [rows EXCEPT ![b] = [@ EXCEPT !.status = "ready", !.etag = body]]
    /\ Saved

\* Faulty: the row first, so that the crash comes before the file.
CommitCutRowFirst(b, body) ==
    /\ indexed' = With(indexed, b, [rows[b] EXCEPT !.status = "ready", !.etag = body])
    /\ UNCHANGED files

\* A crash after the file is written finds the row as it was indexed.
CommitCut(b, body) == files' = With(files, b, body) /\ UNCHANGED indexed

-----------------------------------------------------------------------------
\* Reserving: a pending row, and a URL that is good for a while.

Minted(b) == With(putURL, b, blobClock + UploadTTL)

Reserve(c, public) ==
    /\ blobReq[c] = Idle /\ reserved < MaxReserved /\ blobClock + PendingGrace < MaxBlobClock
    /\ reserved' = reserved + 1
    /\ rows' = With(rows, reserved', [status |-> "pending", created |-> blobClock,
                                      public |-> public, etag |-> <<>>])
    /\ Saved
    /\ putURL' = Minted(reserved')
    /\ UNCHANGED <<files, mpu, blobReq, blobClock, uploads, events, crashes, cut>>

\* A PUT is checked against its reservation, its body is read, and it is committed.
PutChecked(c, b, piece) ==
    /\ blobReq[c] = Idle /\ Verified(b) /\ Pending(b)
    /\ blobReq' = [blobReq EXCEPT ![c] = [op |-> "commit", b |-> b, body |-> <<piece>>]]
    /\ UNCHANGED <<rows, indexed, files, mpu, putURL, blobClock, reserved, uploads, events, crashes, cut>>

\* The commit of a PUT, or of a completed upload: not found when the row is gone.
CommitBody(c) ==
    /\ blobReq[c].op = "commit"
    /\ LET b == blobReq[c].b
       IN IF Has(b)
          THEN /\ Commit(b, blobReq[c].body)
               /\ blobReq' = [blobReq EXCEPT ![c] = [op |-> "fire", b |-> b]]
          ELSE /\ UNCHANGED <<rows, indexed, files>>
               /\ blobReq' = [blobReq EXCEPT ![c] = Idle]
    /\ UNCHANGED <<mpu, putURL, blobClock, reserved, uploads, events, crashes, cut>>

\* fireCreate, after the commit's lock is released.
FireCreate(c) ==
    /\ blobReq[c].op = "fire"
    /\ events' = [events EXCEPT ![blobReq[c].b] = @ \cup {"create"}]
    /\ blobReq' = [blobReq EXCEPT ![c] = Idle]
    /\ UNCHANGED <<rows, indexed, files, mpu, putURL, blobClock, reserved, uploads, crashes, cut>>

-----------------------------------------------------------------------------
\* Multipart.  The URLs of parts, completion and abort are signed for any row there is.

Creatable(b) == Pending(b) /\ uploads < MaxUploads

CreateUpload(c, b) ==
    /\ blobReq[c] = Idle /\ Creatable(b)
    /\ uploads' = uploads + 1
    /\ mpu' = With(mpu, uploads', [b |-> b, parts |-> Nothing])
    /\ UNCHANGED <<rows, indexed, files, putURL, blobReq, blobClock, reserved, events, crashes, cut>>

\* A part's body is read against a pending row, and kept if the upload is still open.
PartChecked(c, u, n, piece) ==
    /\ blobReq[c] = Idle /\ u \in DOMAIN mpu /\ Pending(mpu[u].b)
    /\ blobReq' = [blobReq EXCEPT ![c] = [op |-> "part", u |-> u, n |-> n, piece |-> piece]]
    /\ UNCHANGED <<rows, indexed, files, mpu, putURL, blobClock, reserved, uploads, events, crashes, cut>>

PutPart(c) ==
    /\ blobReq[c].op = "part"
    /\ LET r == blobReq[c]
       IN mpu' = IF r.u \in DOMAIN mpu
                 THEN [mpu EXCEPT ![r.u].parts = With(@, r.n, r.piece)] ELSE mpu
    /\ blobReq' = [blobReq EXCEPT ![c] = Idle]
    /\ UNCHANGED <<rows, indexed, files, putURL, blobClock, reserved, uploads, events, crashes, cut>>

\* The order is the client's: it may name a part twice, or leave one out.
Assembled(u, want) == [k \in DOMAIN want |-> mpu[u].parts[want[k]]]

\* The named parts are taken under the lock, the upload is forgotten, and they are
\* committed under the lock again.
CompleteUpload(c, u, want) ==
    /\ blobReq[c] = Idle /\ u \in DOMAIN mpu
    /\ want # <<>> /\ \A k \in DOMAIN want : want[k] \in DOMAIN mpu[u].parts
    /\ blobReq' = [blobReq EXCEPT ![c] = [op |-> "commit", b |-> mpu[u].b,
                                          body |-> Assembled(u, want)]]
    /\ mpu' = Without(mpu, {u})
    /\ UNCHANGED <<rows, indexed, files, putURL, blobClock, reserved, uploads, events, crashes, cut>>

AbortUpload(c, u) ==
    /\ blobReq[c] = Idle /\ u \in DOMAIN mpu
    /\ mpu' = Without(mpu, {u})
    /\ UNCHANGED <<rows, indexed, files, putURL, blobReq, blobClock, reserved, uploads, events, crashes, cut>>

-----------------------------------------------------------------------------
\* What removes objects.

\* An object is an event, a reservation is not.
DeleteTold(S) == [b \in Blobs |-> IF b \in S /\ Ready(b) THEN events[b] \cup {"delete"} ELSE events[b]]

\* Faulty: every row is an event.
RemoveTellsAll(c, S) ==
    /\ blobReq[c] = Idle /\ S # {} /\ S \subseteq DOMAIN rows
    /\ rows' = Without(rows, S) /\ Saved
    /\ files' = Without(files, S)
    /\ events' = [b \in Blobs |-> IF b \in S
                                  THEN events[b] \cup {"delete"} ELSE events[b]]
    /\ UNCHANGED <<mpu, putURL, blobReq, blobClock, reserved, uploads, crashes, cut>>

\* Every row asked for goes with its file.
RemoveBlobs(c, S) ==
    /\ blobReq[c] = Idle /\ S # {} /\ S \subseteq DOMAIN rows
    /\ rows' = Without(rows, S) /\ Saved
    /\ files' = Without(files, S)
    /\ events' = DeleteTold(S)
    /\ UNCHANGED <<mpu, putURL, blobReq, blobClock, reserved, uploads, crashes, cut>>

Abandoned == {b \in DOMAIN rows : rows[b].status = "pending" /\ rows[b].created + PendingGrace < blobClock}

\* Faulty: a reservation is kept while an upload of it is open.
ReapClosed ==
    LET closed == {b \in Abandoned : \A u \in DOMAIN mpu : mpu[u].b # b}
    IN /\ closed # {}
       /\ rows' = Without(rows, closed) /\ Saved
       /\ UNCHANGED <<files, mpu, putURL, blobReq, blobClock, reserved, uploads, events, crashes, cut>>

\* The reaper takes abandoned rows and the parts held for them.
Reap ==
    /\ Abandoned # {}
    /\ rows' = Without(rows, Abandoned) /\ Saved
    /\ mpu' = Without(mpu, {u \in DOMAIN mpu : mpu[u].b \in Abandoned})
    /\ UNCHANGED <<files, putURL, blobReq, blobClock, reserved, uploads, events, crashes, cut>>

SetPublic(c, b, public) ==
    /\ blobReq[c] = Idle /\ Has(b) /\ rows[b].public # public
    /\ rows' = [rows EXCEPT ![b].public = public] /\ Saved
    /\ UNCHANGED <<files, mpu, putURL, blobReq, blobClock, reserved, uploads, events, crashes, cut>>

BlobTick ==
    /\ blobClock < MaxBlobClock /\ blobClock' = blobClock + 1
    /\ UNCHANGED <<rows, indexed, files, mpu, putURL, blobReq, reserved, uploads, events, crashes, cut>>

-----------------------------------------------------------------------------
\* Reading an object: its row under the lock, then its bytes.

ServeRow(c, b, private) ==
    /\ blobReq[c] = Idle /\ Ready(b) /\ (private \/ rows[b].public)
    /\ blobReq' = [blobReq EXCEPT ![c] = [op |-> "serve", b |-> b, etag |-> rows[b].etag]]
    /\ UNCHANGED <<rows, indexed, files, mpu, putURL, blobClock, reserved, uploads, events, crashes, cut>>

ServeBytes(c) ==
    /\ blobReq[c].op = "serve"
    /\ blobReq' = [blobReq EXCEPT ![c] = Idle]
    /\ UNCHANGED <<rows, indexed, files, mpu, putURL, blobClock, reserved, uploads, events, crashes, cut>>

-----------------------------------------------------------------------------
\* A list page: ready rows, newest first and by id, after the cursor's.

Before(a, b) == rows[a].created > rows[b].created \/ (rows[a].created = rows[b].created /\ a < b)
\* Faulty: the id is no part of the cursor.
AfterCursorTime(b, cursor) == cursor = Nothing \/ rows[b].created < cursor.created

AfterCursor(b, cursor) ==
    cursor = Nothing \/ rows[b].created < cursor.created
                     \/ (rows[b].created = cursor.created /\ b > cursor.b)

ListBlobs(c) ==
    /\ blobReq[c] = Idle
    /\ blobReq' = [blobReq EXCEPT ![c] = [op |-> "list", cursor |-> Nothing, seen |-> {}, twice |-> {},
                                          base |-> {b \in DOMAIN rows : Ready(b)}]]
    /\ UNCHANGED <<rows, indexed, files, mpu, putURL, blobClock, reserved, uploads, events, crashes, cut>>

ListBlobPage(c) ==
    /\ blobReq[c].op = "list"
    /\ LET r == blobReq[c]
           found == {b \in DOMAIN rows : Ready(b) /\ AfterCursor(b, r.cursor)}
           page == {b \in found : Cardinality({d \in found : Before(d, b)}) < BlobPage}
           last == CHOOSE b \in page : \A d \in page : d = b \/ Before(d, b)
       IN blobReq' = [blobReq EXCEPT ![c] =
             [op |-> IF page = found THEN "listed" ELSE "list", base |-> r.base,
              cursor |-> IF page = found THEN Nothing ELSE [created |-> rows[last].created, b |-> last],
              seen |-> r.seen \cup page, twice |-> r.twice \cup (r.seen \cap page)]]
    /\ UNCHANGED <<rows, indexed, files, mpu, putURL, blobClock, reserved, uploads, events, crashes, cut>>

ListedBlobs(c) ==
    /\ blobReq[c].op = "listed"
    /\ blobReq' = [blobReq EXCEPT ![c] = Idle]
    /\ UNCHANGED <<rows, indexed, files, mpu, putURL, blobClock, reserved, uploads, events, crashes, cut>>

-----------------------------------------------------------------------------
\* A crash: what is in memory goes, and the index is read again.  It may come between
\* the file of a commit and the index, or between the files of a delete and the index.

Restarted ==
    /\ crashes < MaxBlobCrashes /\ crashes' = crashes + 1
    /\ rows' = indexed'
    /\ mpu' = Nothing /\ putURL' = Nothing
    /\ blobReq' = [c \in BlobClients |-> Idle]
    /\ UNCHANGED <<blobClock, reserved, uploads, events>>

Crash == UNCHANGED <<files, indexed, cut>> /\ Restarted

CrashInCommit(c) ==
    /\ blobReq[c].op = "commit" /\ Has(blobReq[c].b)
    /\ CommitCut(blobReq[c].b, blobReq[c].body)
    /\ cut' = IF Ready(blobReq[c].b) THEN cut \cup {blobReq[c].b} ELSE cut
    /\ Restarted

CrashInRemove(b) ==
    /\ b \in DOMAIN files /\ Has(b)
    /\ files' = Without(files, {b}) /\ UNCHANGED indexed
    /\ cut' = cut \cup {b}
    /\ Restarted

-----------------------------------------------------------------------------
BlobNext ==
    \/ \E c \in BlobClients :
          \/ \E p \in BOOLEAN : Reserve(c, p)
          \/ \E b \in Blobs, piece \in Pieces : PutChecked(c, b, piece)
          \/ CommitBody(c)
          \/ FireCreate(c)
          \/ \E b \in Blobs : CreateUpload(c, b)
          \/ \E u \in Uploads, n \in PartNumbers, piece \in Pieces : PartChecked(c, u, n, piece)
          \/ PutPart(c)
          \/ \E u \in Uploads : \E want \in SeqOf(PartNumbers, 2) : CompleteUpload(c, u, want)
          \/ \E u \in Uploads : AbortUpload(c, u)
          \/ \E S \in SUBSET Blobs : RemoveBlobs(c, S)
          \/ \E b \in Blobs, p \in BOOLEAN : SetPublic(c, b, p)
          \/ \E b \in Blobs, p \in BOOLEAN : ServeRow(c, b, p)
          \/ ServeBytes(c)
          \/ ListBlobs(c)
          \/ ListBlobPage(c)
          \/ ListedBlobs(c)
    \/ Reap
    \/ BlobTick
    \/ Crash
    \/ \E c \in BlobClients : CrashInCommit(c)
    \/ \E b \in Blobs : CrashInRemove(b)

BlobSpec == BlobInit /\ [][BlobNext]_BlobVars

-----------------------------------------------------------------------------
BlobTyped ==
    /\ DOMAIN rows \subseteq Blobs /\ \A b \in DOMAIN rows : rows[b] \in Row
    /\ DOMAIN files \subseteq Blobs /\ \A b \in DOMAIN files : files[b] \in Seq(Pieces)
    /\ \A u \in DOMAIN mpu : mpu[u].b \in Blobs /\ DOMAIN mpu[u].parts \subseteq PartNumbers

\* An object that is ready has the bytes its ETag was measured on, across crashes,
\* unless the crash cut short its own delete or a second commit of it (Commit's order
\* of file, row and index; index).
ReadyReadable ==
    \A b \in DOMAIN rows : Ready(b) /\ b \notin cut =>
       b \in DOMAIN files /\ files[b] = rows[b].etag

\* An object whose delete was announced was announced when it was stored, or is about
\* to be; a reservation that never got its bytes is no event (fireCreate, fireDelete).
DeletedWasCreated ==
    \A b \in Blobs : "delete" \in events[b] /\ crashes = 0 =>
       \/ "create" \in events[b]
       \/ \E c \in BlobClients : blobReq[c].op = "fire" /\ blobReq[c].b = b

\* A client that lists to the end has every object that was ready when it began and
\* still is, and none twice (List's cursor of time and id).
BlobsListed ==
    \A c \in BlobClients : blobReq[c].op = "listed" =>
       blobReq[c].twice = {} /\ \A b \in blobReq[c].base : Ready(b) => b \in blobReq[c].seen

\* A reservation does not stay for ever: its bytes arrive, it is deleted, or the reaper
\* takes it, whatever parts are held for it (StartReaper, Reap).
ReservationEnds == \A b \in Blobs : Pending(b) ~> ~Pending(b)

\* What the comment in upload says: "a URL is good for one upload", and a second one
\* does not change the bytes of an object that is being served.
WrittenOnce ==
    [][\A b \in DOMAIN rows : Ready(b) /\ b \in DOMAIN rows' => rows'[b].etag = rows[b].etag]_BlobVars

\* A row that is ready has its bytes, nobody is told of the end of an object whose beginning they
\* were not told of, and whoever lists objects page by page gets what was there all along, once.
BlobsHold == BlobTyped /\ ReadyReadable /\ DeletedWasCreated /\ BlobsListed

=============================================================================
