--------------------------- MODULE InstanceRegistry ---------------------------
(***************************************************************************)
(* The instances of one service and the data they own: the registry in     *)
(* memory, control.json, the databases the services open on first use, and *)
(* the requests and engine passes that hold an instance while it may be    *)
(* deleted.  Source: cli/internal/control/control.go, with the databases   *)
(* of cli/internal/tasks/store.go (open, Drop).                            *)
(*                                                                         *)
(* Each registry method holds the registry's lock and is one action; a     *)
(* DeleteInstance is three: it finds, drops, then deletes.  A save writes  *)
(* the whole registry or leaves the file as it was.                        *)
(***************************************************************************)
EXTENDS Naturals

CONSTANTS
    Name,        \* names instances are asked for under
    Id,          \* the ids common.UUID can mint; also the bound on instances
    None,        \* no instance of that name
    User,        \* requests, and the engine's passes over instances
    Deleter      \* requests to delete an instance

ASSUME RegistryAssumption == None \notin Id

VARIABLES
    insts,    \* Registry.insts: name -> id, or None
    disk,     \* control.json
    data,     \* ids with a database on disk
    minted,   \* ids given out so far
    deleted,  \* history: ids a Delete removed
    holds,    \* what each request is at, and with which instance
    failed    \* history: a save failed

registryVars == <<insts, disk, data, minted, deleted, holds, failed>>

NoCall == [at |-> "idle"]
At(step, id) == [at |-> step, id |-> id]

Listed(r) == {r[n] : n \in Name} \ {None}

RegistryInit ==
    /\ insts = [n \in Name |-> None] /\ disk = insts
    /\ data = {} /\ minted = {} /\ deleted = {}
    /\ holds = [p \in User \cup Deleter |-> NoCall]
    /\ failed = FALSE

-----------------------------------------------------------------------------
\* save: the file is replaced whole, or a failure leaves the one before and the
\* change stays live in memory.
Save == \/ disk' = insts' /\ UNCHANGED failed
        \/ failed' = TRUE /\ UNCHANGED disk

Mint(n, id) ==
    /\ id \notin minted
    /\ insts' = [insts EXCEPT ![n] = id]
    /\ minted' = minted \cup {id}
    /\ Save

\* A data plane's first use of a name makes the instance.
GetOrCreate(u, n) ==
    /\ holds[u] = NoCall
    /\ IF insts[n] # None
       THEN holds' = [holds EXCEPT ![u] = At("using", insts[n])] /\ UNCHANGED <<insts, disk, minted, failed>>
       ELSE \E id \in Id : Mint(n, id) /\ holds' = [holds EXCEPT ![u] = At("using", id)]
    /\ UNCHANGED <<data, deleted>>

Create(n) ==
    /\ insts[n] = None
    /\ \E id \in Id : Mint(n, id)
    /\ UNCHANGED <<data, deleted, holds>>

\* Get, GetByID or List: a request, a delivery about to record its outcome, or a
\* pass of the engine goes on with an instance it found.
Resolve(u, n) ==
    /\ holds[u] = NoCall /\ insts[n] # None
    /\ holds' = [holds EXCEPT ![u] = At("using", insts[n])]
    /\ UNCHANGED <<insts, disk, data, minted, deleted, failed>>

\* Store.open: the database is made when it is not there.
Use(u) ==
    /\ holds[u].at = "using"
    /\ data' = data \cup {holds[u].id}
    /\ holds' = [holds EXCEPT ![u] = NoCall]
    /\ UNCHANGED <<insts, disk, minted, deleted, failed>>

-----------------------------------------------------------------------------
DeleteFind(d, n) ==
    /\ holds[d] = NoCall /\ insts[n] # None
    /\ holds' = [holds EXCEPT ![d] = At("found", insts[n])]
    /\ UNCHANGED <<insts, disk, data, minted, deleted, failed>>

\* The service's drop: its database is closed and removed.
DeleteDrop(d) ==
    /\ holds[d].at = "found"
    /\ data' = data \ {holds[d].id}
    /\ holds' = [holds EXCEPT ![d].at = "dropped"]
    /\ UNCHANGED <<insts, disk, minted, deleted, failed>>

\* Faulty: the file still lists the deleted instance.
DeleteRowUnsaved(d) ==
    /\ holds[d].at = "dropped"
    /\ insts' = [n \in Name |-> IF insts[n] = holds[d].id THEN None ELSE insts[n]]
    /\ deleted' = deleted \cup ({holds[d].id} \cap Listed(insts))
    /\ holds' = [holds EXCEPT ![d] = NoCall]
    /\ UNCHANGED <<disk, data, minted, failed>>

\* Delete: the row goes, unless another delete took it.
DeleteRow(d) ==
    /\ holds[d].at = "dropped"
    /\ IF holds[d].id \in Listed(insts)
       THEN /\ insts' = [n \in Name |-> IF insts[n] = holds[d].id THEN None ELSE insts[n]]
            /\ deleted' = deleted \cup {holds[d].id}
            /\ Save
       ELSE UNCHANGED <<insts, disk, deleted, failed>>
    /\ holds' = [holds EXCEPT ![d] = NoCall]
    /\ UNCHANGED <<data, minted>>

\* The registry is read back from its file; requests are gone.
RegistryRestart ==
    /\ insts' = disk
    /\ holds' = [p \in User \cup Deleter |-> NoCall]
    /\ UNCHANGED <<disk, data, minted, deleted, failed>>

RegistryNext == \/ \E u \in User : Use(u) \/ \E n \in Name : GetOrCreate(u, n) \/ Resolve(u, n)
                \/ \E n \in Name : Create(n)
                \/ \E d \in Deleter : DeleteDrop(d) \/ DeleteRow(d) \/ \E n \in Name : DeleteFind(d, n)
                \/ RegistryRestart

RegistrySpec == RegistryInit /\ [][RegistryNext]_registryVars

-----------------------------------------------------------------------------
Steps == [at: {"using", "found", "dropped"}, id: Id]

\* Every variable has its type.
RegistryTypeOK ==
    /\ insts \in [Name -> Id \cup {None}] /\ disk \in [Name -> Id \cup {None}]
    /\ data \subseteq Id /\ minted \subseteq Id /\ deleted \subseteq Id
    /\ holds \in [User \cup Deleter -> Steps \cup {NoCall}]
    /\ failed \in BOOLEAN

\* While saves succeed, the instances are those created and not deleted, through
\* every restart: none is lost, and none that was deleted comes back.
RegistrySurvives == ~failed => Listed(insts) = minted \ deleted

\* A database is always some instance's that the registry still lists, restarts
\* in the middle of a delete included: nothing is left that nothing names.
DataNamed == ~failed => data \subseteq Listed(insts)

\* What was created and not deleted is listed, under names and ids that are its own, and what
\* requests and deletes are at is about instances there were.
RegistryHolds == RegistryTypeOK /\ RegistrySurvives

=============================================================================
