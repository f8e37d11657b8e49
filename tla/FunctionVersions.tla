--------------------------- MODULE FunctionVersions ---------------------------
(***************************************************************************)
(* The stored versions of one functions instance: deploys, rollbacks,      *)
(* deletes and retention, the default function in the instance's config,   *)
(* and the calls that run a version through the cache of compiled programs.*)
(* Source: cli/internal/functions/{service,routes,runtime}.go and          *)
(* ReplaceConfig in cli/internal/control/control.go.                       *)
(*                                                                         *)
(* A store method holds the store's lock and is one step; so is a cache    *)
(* method and a config write.  A request is several of them, and a call    *)
(* looks its version up, fetches its source and asks the cache in three.   *)
(* Every save reaches the disk.  Source that does not compile is left out: *)
(* the cache never keeps it.                                               *)
(***************************************************************************)
EXTENDS Naturals, FiniteSets

CONSTANTS
    Fn,          \* function names
    Source,      \* sources there are to deploy, each once: the bound on deploys
    NoSource,
    NoDefault,   \* no default function
    MaxVersion,  \* bound: version numbers
    Keeps,       \* values of keepVersions
    DefaultKeep,
    Admin,       \* requests that deploy, activate, delete or save the config
    Caller,      \* requests that run a function
    Torn         \* whether a restart may fall within an admin's request

Version == 1..MaxVersion

ASSUME VersionsAssumption ==
    /\ MaxVersion \in Nat /\ Torn \in BOOLEAN
    /\ NoSource \notin Source /\ NoDefault \notin Fn
    /\ Keeps \subseteq Nat \ {0} /\ DefaultKeep \in Keeps

VARIABLES
    fns,     \* Config.Functions: the names deployed
    active,  \* Function.ActiveVersion, 0 when nothing was activated
    hist,    \* Config.Versions: name -> version numbers
    code,    \* Store.code: name -> number -> source
    settings, \* the instance's keepVersions and defaultFunction
    cache,   \* compileCache: name -> number -> what was compiled
    adm,      \* what each admin's request is at
    call,    \* what each call is at
    born     \* history: source -> the name and number it was deployed under

store == <<fns, active, hist, code, born>>
versionsVars == <<store, settings, cache, adm, call>>

Numbers == 0..MaxVersion
Settings == [keep: Keeps, default: Fn \cup {NoDefault}]
NoRequest == [at |-> "idle"]
NoCode == [n \in Numbers |-> NoSource]
Unborn == [fn |-> NoDefault, n |-> 0]

VersionsInit ==
    /\ fns = {} /\ active = [f \in Fn |-> 0]
    /\ hist = [f \in Fn |-> {}] /\ code = [f \in Fn |-> NoCode]
    /\ settings = [keep |-> DefaultKeep, default |-> NoDefault]
    /\ cache = [f \in Fn |-> NoCode]
    /\ adm = [p \in Admin |-> NoRequest] /\ call = [c \in Caller |-> NoRequest]
    /\ born = [s \in Source |-> Unborn]

-----------------------------------------------------------------------------
(* Retention *)

\* Faulty: the version being served is pruned like any other.
KeptNewest(h, a, keep) == {n \in h : Cardinality({m \in h : m > n}) < keep}

\* Faulty: one version fewer.
KeptOneLess(h, a, keep) ==
    {n \in h : Cardinality({m \in h : m > n}) + 1 < keep \/ n = a}

\* The newest `keep` versions, and the active one when it is older.
Kept(h, a, keep) == {n \in h : Cardinality({m \in h : m > n}) < keep \/ n = a}

\* A function's code, left with what its history still lists.
Rest(k, h) == [n \in Numbers |-> IF n \in h THEN k[n] ELSE NoSource]

-----------------------------------------------------------------------------
(* Deploys and rollbacks *)

\* The setting is read before the store is locked.  The bounds are here.
DeployRead(p, f, act) ==
    /\ adm[p] = NoRequest
    /\ MaxVersion \notin hist[f] /\ \E s \in Source : born[s] = Unborn
    /\ adm' = [adm EXCEPT ![p] = [at |-> "deploy", fn |-> f, act |-> act, keep |-> settings.keep]]
    /\ UNCHANGED <<store, settings, cache, call>>

\* The number after the newest one stored.
IsNext(n, h) == /\ \A m \in h : m < n
                /\ n = 1 \/ n - 1 \in h

Deploy(p, s, n) ==
    /\ adm[p].at = "deploy"
    /\ n \in Version /\ IsNext(n, hist[adm[p].fn])
    /\ born[s] = Unborn
    /\ LET f == adm[p].fn
           a == IF adm[p].act THEN n ELSE active[f]
           h == Kept(hist[f] \cup {n}, a, adm[p].keep)
       IN  /\ fns' = fns \cup {f}
           /\ active' = [active EXCEPT ![f] = a]
           /\ hist' = [hist EXCEPT ![f] = h]
           /\ code' = [code EXCEPT ![f] = Rest([code[f] EXCEPT ![n] = s], h)]
           /\ born' = [born EXCEPT ![s] = [fn |-> f, n |-> n]]
           /\ adm' = [adm EXCEPT ![p] = [at |-> "drop", fn |-> f, gone |-> FALSE]]
    /\ UNCHANGED <<settings, cache, call>>

\* The new active version may be any that is stored.
Activate(p, f, n) ==
    /\ adm[p] = NoRequest
    /\ f \in fns /\ code[f][n] # NoSource
    /\ active' = [active EXCEPT ![f] = n]
    /\ adm' = [adm EXCEPT ![p] = [at |-> "drop", fn |-> f, gone |-> FALSE]]
    /\ UNCHANGED <<fns, hist, code, born, settings, cache, call>>

\* The function's programs leave the cache.
DropCache(p) ==
    /\ adm[p].at = "drop"
    /\ cache' = [cache EXCEPT ![adm[p].fn] = NoCode]
    /\ adm' = [adm EXCEPT ![p] = IF adm[p].gone THEN [at |-> "undefault", fn |-> adm[p].fn] ELSE NoRequest]
    /\ UNCHANGED <<store, settings, call>>

-----------------------------------------------------------------------------
(* Deletes *)

\* A stored version, unless it is the one being served.
Deletable(f, n) == code[f][n] # NoSource /\ ~(f \in fns /\ active[f] = n)

DeleteVersion(p, f, n) ==
    /\ adm[p] = NoRequest
    /\ Deletable(f, n)
    /\ hist' = [hist EXCEPT ![f] = @ \ {n}]
    /\ code' = [code EXCEPT ![f][n] = NoSource]
    /\ UNCHANGED <<fns, active, born, settings, cache, adm, call>>

\* Versions and all; the default function is seen to after the cache.
DeleteFunction(p, f) ==
    /\ adm[p] = NoRequest
    /\ f \in fns \/ hist[f] # {}
    /\ fns' = fns \ {f}
    /\ active' = [active EXCEPT ![f] = 0]
    /\ code' = [code EXCEPT ![f] = [n \in Numbers |-> IF n \in hist[f] THEN NoSource ELSE @[n]]]
    /\ hist' = [hist EXCEPT ![f] = {}]
    /\ adm' = [adm EXCEPT ![p] = [at |-> "drop", fn |-> f, gone |-> TRUE]]
    /\ UNCHANGED <<born, settings, cache, call>>

\* Faulty: the deleted function stays the default.
UndefaultNone(p) ==
    /\ adm[p].at = "undefault"
    /\ adm' = [adm EXCEPT ![p] = NoRequest]
    /\ UNCHANGED <<store, settings, cache, call>>

\* A default naming a deleted function would come back to life with it.
Undefault(p) ==
    /\ adm[p].at = "undefault"
    /\ adm' = [adm EXCEPT ![p] = IF settings.default = adm[p].fn
                             THEN [at |-> "asked", next |-> [settings EXCEPT !.default = NoDefault]]
                             ELSE NoRequest]
    /\ UNCHANGED <<store, settings, cache, call>>

-----------------------------------------------------------------------------
(* The instance's config *)

AskSettings(p, next) ==
    /\ adm[p] = NoRequest
    /\ adm' = [adm EXCEPT ![p] = [at |-> "asked", next |-> next]]
    /\ UNCHANGED <<store, settings, cache, call>>

\* The validator: a default names a function this instance has deployed.
Check(p) ==
    /\ adm[p].at = "asked"
    /\ adm' = [adm EXCEPT ![p] = IF adm[p].next.default \in fns \cup {NoDefault}
                             THEN [at |-> "checked", next |-> adm[p].next, before |-> settings]
                             ELSE NoRequest]
    /\ UNCHANGED <<store, settings, cache, call>>

WriteSettings(p) ==
    /\ adm[p].at = "checked"
    /\ settings' = adm[p].next
    /\ adm' = [adm EXCEPT ![p] = [at |-> "saved", before |-> adm[p].before]]
    /\ UNCHANGED <<store, cache, call>>

\* Faulty: retention is left to each function's next deploy.
HookPruneNever(p) ==
    /\ adm[p].at = "saved"
    /\ adm' = [adm EXCEPT ![p] = NoRequest]
    /\ UNCHANGED <<store, settings, cache, call>>

\* The after-save hook: a retention lowered prunes now.
HookPrune(p) ==
    /\ adm[p].at = "saved"
    /\ adm' = [adm EXCEPT ![p] = IF settings.keep < adm[p].before.keep
                             THEN [at |-> "prune", keep |-> settings.keep] ELSE NoRequest]
    /\ UNCHANGED <<store, settings, cache, call>>

Pruned(keep) == [f \in Fn |-> Kept(hist[f], active[f], keep)]

Prune(p) ==
    /\ adm[p].at = "prune"
    /\ hist' = Pruned(adm[p].keep)
    /\ code' = [f \in Fn |-> Rest(code[f], hist'[f])]
    /\ adm' = [adm EXCEPT ![p] = IF Pruned(adm[p].keep) = hist THEN NoRequest ELSE [at |-> "clear"]]
    /\ UNCHANGED <<fns, active, born, settings, cache, call>>

\* Every program of the instance leaves the cache.
ClearCache(p) ==
    /\ adm[p].at = "clear"
    /\ cache' = [f \in Fn |-> NoCode]
    /\ adm' = [adm EXCEPT ![p] = NoRequest]
    /\ UNCHANGED <<store, settings, call>>

-----------------------------------------------------------------------------
(* Calls *)

\* A path that names a function, or none and is left to the default one; an
\* address that pins version n, or the live one.
ResolveCall(c, f, n) ==
    /\ call[c] = NoRequest
    /\ f \in fns
    /\ call' = [call EXCEPT ![c] = [at |-> "resolved", fn |-> f,
                                    n |-> IF n = 0 THEN active[f] ELSE n]]
    /\ UNCHANGED <<store, settings, cache, adm>>

\* A version with no code is answered with an error.
Fetch(c) ==
    /\ call[c].at = "resolved"
    /\ LET f == call[c].fn
           n == call[c].n
       IN  call' = [call EXCEPT ![c] = IF code[f][n] = NoSource THEN NoRequest
                       ELSE [at |-> "fetched", fn |-> f, n |-> n, src |-> code[f][n]]]
    /\ UNCHANGED <<store, settings, cache, adm>>

\* Faulty: programs are cached by function only.
SlotByName(n) == 0

\* The cache's key for version n of a function.
Slot(n) == n

\* What was compiled under this name and number, or this source compiled now.
Run(c) ==
    /\ call[c].at = "fetched"
    /\ LET f == call[c].fn
           k == Slot(call[c].n)
           prog == IF cache[f][k] = NoSource THEN call[c].src ELSE cache[f][k]
       IN  /\ cache' = [cache EXCEPT ![f][k] = prog]
           /\ call' = [call EXCEPT ![c] = [at |-> "running", fn |-> f, n |-> call[c].n, prog |-> prog]]
    /\ UNCHANGED <<store, settings, adm>>

Return(c) ==
    /\ call[c].at = "running"
    /\ call' = [call EXCEPT ![c] = NoRequest]
    /\ UNCHANGED <<store, settings, cache, adm>>

\* The store and the config are on disk, the cache is not.
VersionsRestart ==
    /\ Torn \/ \A p \in Admin : adm[p] = NoRequest
    /\ cache' = [f \in Fn |-> NoCode]
    /\ adm' = [p \in Admin |-> NoRequest] /\ call' = [c \in Caller |-> NoRequest]
    /\ UNCHANGED <<store, settings>>

-----------------------------------------------------------------------------
Ask(p) == \/ \E f \in Fn, act \in BOOLEAN : DeployRead(p, f, act)
          \/ \E f \in Fn, n \in Version : Activate(p, f, n) \/ DeleteVersion(p, f, n)
          \/ \E f \in Fn : DeleteFunction(p, f)
          \/ \E next \in Settings : AskSettings(p, next)

Proceed(p) == \/ \E s \in Source, n \in Version : Deploy(p, s, n)
              \/ DropCache(p) \/ Undefault(p)
              \/ Check(p) \/ WriteSettings(p) \/ HookPrune(p) \/ Prune(p) \/ ClearCache(p)

Invoke(c) == \/ \E f \in Fn, n \in Numbers : ResolveCall(c, f, n)
             \/ Fetch(c) \/ Run(c) \/ Return(c)

VersionsNext ==
    \/ \E p \in Admin : Ask(p) \/ Proceed(p)
    \/ \E c \in Caller : Invoke(c)
    \/ VersionsRestart

VersionsSpec == VersionsInit /\ [][VersionsNext]_versionsVars

-----------------------------------------------------------------------------
Requests ==
    [at: {"deploy"}, fn: Fn, act: BOOLEAN, keep: Keeps] \cup [at: {"drop"}, fn: Fn, gone: BOOLEAN]
      \cup [at: {"undefault"}, fn: Fn] \cup [at: {"asked"}, next: Settings]
      \cup [at: {"checked"}, next: Settings, before: Settings] \cup [at: {"saved"}, before: Settings]
      \cup [at: {"prune"}, keep: Keeps] \cup {[at |-> "clear"]}

Calls == [at: {"resolved"}, fn: Fn, n: Numbers] \cup [at: {"fetched"}, fn: Fn, n: Version, src: Source]
           \cup [at: {"running"}, fn: Fn, n: Version, prog: Source]

\* Every variable has its type, and every call that runs runs some source.
VersionsTypeOK ==
    /\ fns \subseteq Fn /\ active \in [Fn -> Numbers] /\ hist \in [Fn -> SUBSET Version]
    /\ code \in [Fn -> [Numbers -> Source \cup {NoSource}]]
    /\ cache \in [Fn -> [Numbers -> Source \cup {NoSource}]]
    /\ settings \in Settings
    /\ adm \in [Admin -> Requests \cup {NoRequest}] /\ call \in [Caller -> Calls \cup {NoRequest}]
    /\ born \in [Source -> [fn: Fn \cup {NoDefault}, n: Numbers]]

\* A function always has the code of the version it serves, and its history
\* lists exactly the versions whose code is stored.
ServedIsStored ==
    /\ \A f \in fns : active[f] # 0 => code[f][active[f]] # NoSource
    /\ \A f \in Fn : hist[f] = {n \in Numbers : code[f][n] # NoSource}

\* The program a call runs was deployed as that function's version of that
\* number, whatever was deployed, deleted and cached since it was looked up.
RunsItsVersion ==
    \A c \in Caller : call[c].at = "running" => born[call[c].prog] = [fn |-> call[c].fn, n |-> call[c].n]

\* Retention never makes a number free again: the newest version of a function
\* outlives every deploy and every prune.
NewestOutlivesRetention ==
    [][\A f \in Fn : (\E p \in Admin : adm[p].at \in {"deploy", "prune"} /\ adm'[p] # adm[p])
          => \A n \in hist[f] : \E m \in hist'[f] : n <= m]_versionsVars

AtRest == \A p \in Admin : adm[p] = NoRequest

\* With its requests through, an instance stores no more versions than its
\* setting allows, and the served one.
RetentionAtRest == AtRest => \A f \in Fn : Cardinality(hist[f]) <= settings.keep + 1

\* With its requests through, an instance's default function is one it has: a
\* function deployed again does not become the default by its name.
DefaultDeployed == AtRest => settings.default \in fns \cup {NoDefault}

\* With every request and call through, a cached program is the one stored under
\* its name and number: a number used again does not serve the old program.
CacheFresh ==
    AtRest /\ (\A c \in Caller : call[c] = NoRequest)
      => \A f \in Fn, n \in Version :
            cache[f][n] # NoSource /\ code[f][n] # NoSource => cache[f][n] = code[f][n]

\* An admin's requests come one after the other, and a restart cuts none short.
OneAtOnce == ~Torn /\ \A p, q \in Admin : p = q

\* However deploys, rollbacks, deletes, retention and calls fall between each other's steps: what
\* is served is stored, and what runs is the version asked for.  Requests one after the other leave
\* no more versions than they may, and a default function there is.
VersionsHold == /\ VersionsTypeOK /\ ServedIsStored /\ RunsItsVersion
                /\ OneAtOnce => RetentionAtRest /\ DefaultDeployed

=============================================================================
