---------------------------- MODULE InstanceProofs ----------------------------
(***************************************************************************)
(* Proofs about what belongs to an instance, for any names, ids, users,    *)
(* writers, admins, callers and restarts: the registry keeps what was      *)
(* created and not deleted; a config stays in its region and in its normal *)
(* form; a function has the code of the version it serves and a call runs  *)
(* what was deployed under the name and number it looked up; and a page    *)
(* shows the user whose tokens it holds.                                   *)
(***************************************************************************)
EXTENDS InstanceRegistry, InstanceConfig, FunctionVersions, AuthClient,
        FiniteSetTheorems, WellFoundedInduction, TLAPS

-----------------------------------------------------------------------------
(* The registry: until a save fails the file is the registry, so that reading it back
   changes nothing *)

\* Until a save fails the file is the registry, so that reading it back changes
\* nothing.
RegistryInv ==
    /\ RegistryTypeOK
    /\ Listed(insts) \subseteq minted /\ Listed(disk) \subseteq minted
    /\ deleted \subseteq minted
    /\ ~failed => disk = insts /\ Listed(insts) = minted \ deleted

LEMMA InitRegistryInv == RegistryInit => RegistryInv
  <1>. SUFFICES ASSUME RegistryInit PROVE RegistryInv
    OBVIOUS
  <1>1. Listed(insts) = {} /\ Listed(disk) = {}
    BY DEF RegistryInit, Listed
  <1>2. RegistryTypeOK
    BY DEF RegistryInit, RegistryTypeOK
  <1>. QED  BY <1>1, <1>2 DEF RegistryInit, RegistryInv

\* A new instance's id is new to the file as well, and a failed save leaves the
\* file behind.
LEMMA MintRegistryInv ==
    ASSUME RegistryInv, NEW n \in Name, NEW id \in Id, insts[n] = None, Mint(n, id),
           holds' \in [User \cup Deleter -> Steps \cup {NoCall}], UNCHANGED <<data, deleted>>
    PROVE  RegistryInv'
  <1>1. /\ insts \in [Name -> Id \cup {None}] /\ id \notin minted /\ id # None
        /\ insts' = [insts EXCEPT ![n] = id] /\ minted' = minted \cup {id}
    BY RegistryAssumption DEF RegistryInv, RegistryTypeOK, Mint
  <1>2. Listed(insts') = Listed(insts) \cup {id}
    BY <1>1 DEF Listed
  <1>3. disk' \in {disk, insts'} /\ failed' \in BOOLEAN /\ (~failed' => ~failed /\ disk' = insts')
    <2>1. failed \in BOOLEAN /\ (\/ disk' = insts' /\ failed' = failed
                                 \/ failed' = TRUE /\ disk' = disk)
      BY DEF Mint, Save, RegistryInv, RegistryTypeOK
    <2>. QED  BY <2>1, Zenon
  <1>4. Listed(disk') \subseteq minted'
    BY <1>1, <1>2, <1>3 DEF RegistryInv
  <1>5. RegistryTypeOK'
    BY <1>1, <1>3 DEF RegistryInv, RegistryTypeOK
  <1>6. ~failed' => Listed(insts') = minted' \ deleted'
    BY <1>1, <1>2, <1>3 DEF RegistryInv
  <1>. QED  BY <1>1, <1>2, <1>3, <1>4, <1>5, <1>6 DEF RegistryInv

LEMMA GetOrCreateRegistryInv ==
    ASSUME RegistryInv, NEW u \in User, NEW n \in Name, GetOrCreate(u, n)
    PROVE  RegistryInv'
  <1>1. CASE insts[n] # None
    <2>1. insts[n] \in Id
      BY <1>1 DEF RegistryInv, RegistryTypeOK
    <2>2. At("using", insts[n]) \in Steps
      BY <2>1 DEF At, Steps
    <2>. QED  BY <1>1, <2>2 DEF GetOrCreate, RegistryInv, RegistryTypeOK
  <1>2. CASE insts[n] = None
    <2>1. PICK id \in Id : Mint(n, id) /\ holds' = [holds EXCEPT ![u] = At("using", id)]
      BY <1>2 DEF GetOrCreate
    <2>2. At("using", id) \in Steps
      BY DEF At, Steps
    <2>3. holds' \in [User \cup Deleter -> Steps \cup {NoCall}]
      BY <2>1, <2>2 DEF RegistryInv, RegistryTypeOK
    <2>. QED  BY <1>2, <2>1, <2>3, MintRegistryInv DEF GetOrCreate
  <1>. QED  BY <1>1, <1>2

\* Every row of the instance goes, in memory and, unless the save fails, in the
\* file.
LEMMA DeleteRowRegistryInv ==
    ASSUME RegistryInv, NEW d \in Deleter, DeleteRow(d)
    PROVE  RegistryInv'
  <1>. DEFINE id == holds[d].id
  <1>1. holds' \in [User \cup Deleter -> Steps \cup {NoCall}]
    BY DEF DeleteRow, RegistryInv, RegistryTypeOK
  <1>2. CASE id \notin Listed(insts)
    BY <1>1, <1>2 DEF DeleteRow, RegistryInv, RegistryTypeOK
  <1>3. CASE id \in Listed(insts)
    <2>1. /\ insts' = [n \in Name |-> IF insts[n] = id THEN None ELSE insts[n]]
          /\ deleted' = deleted \cup {id} /\ minted' = minted /\ data' = data
          /\ id \in Id /\ id \in minted
      BY <1>3 DEF DeleteRow, RegistryInv, RegistryTypeOK, Listed
    <2>2. Listed(insts') = Listed(insts) \ {id}
      <3>. HIDE DEF id
      <3>. QED  BY <2>1 DEF Listed
    <2>3. disk' \in {disk, insts'} /\ failed' \in BOOLEAN /\ (~failed' => ~failed /\ disk' = insts')
      BY <1>3 DEF DeleteRow, Save, RegistryInv, RegistryTypeOK
    <2>4. insts' \in [Name -> Id \cup {None}]
      <3>. HIDE DEF id
      <3>. QED  BY <2>1 DEF RegistryInv, RegistryTypeOK
    <2>5. Listed(disk') \subseteq minted'
      BY <2>1, <2>2, <2>3 DEF RegistryInv
    <2>6. RegistryTypeOK'
      BY <1>1, <2>1, <2>3, <2>4 DEF RegistryInv, RegistryTypeOK
    <2>7. ~failed' => Listed(insts') = minted' \ deleted'
      BY <2>1, <2>2, <2>3 DEF RegistryInv
    <2>. QED  BY <2>1, <2>2, <2>3, <2>5, <2>6, <2>7 DEF RegistryInv
  <1>. QED  BY <1>2, <1>3

\* What only looks an instance up, opens its database or drops it.
LEMMA HoldRegistryInv ==
    ASSUME RegistryInv, NEW p \in User \cup Deleter, NEW n \in Name,
           \/ Resolve(p, n) \/ DeleteFind(p, n) \/ Use(p) \/ DeleteDrop(p)
    PROVE  RegistryInv'
  <1>1. UNCHANGED <<insts, disk, minted, deleted, failed>>
    BY DEF Resolve, DeleteFind, Use, DeleteDrop
  <1>2. holds' \in [User \cup Deleter -> Steps \cup {NoCall}] /\ data' \subseteq Id
    <2>1. ASSUME Resolve(p, n) \/ DeleteFind(p, n)
          PROVE  holds' \in [User \cup Deleter -> Steps \cup {NoCall}] /\ data' \subseteq Id
      <3>1. insts[n] \in Id
        BY <2>1 DEF Resolve, DeleteFind, RegistryInv, RegistryTypeOK
      <3>2. At("using", insts[n]) \in Steps /\ At("found", insts[n]) \in Steps
        BY <3>1 DEF At, Steps
      <3>. QED  BY <2>1, <3>2 DEF Resolve, DeleteFind, RegistryInv, RegistryTypeOK
    <2>2. ASSUME Use(p)
          PROVE  holds' \in [User \cup Deleter -> Steps \cup {NoCall}] /\ data' \subseteq Id
      <3>1. holds[p] \in Steps
        BY <2>2 DEF Use, RegistryInv, RegistryTypeOK, NoCall
      <3>2. holds[p].id \in Id
        BY <3>1 DEF Steps
      <3>. QED  BY <2>2, <3>2 DEF Use, RegistryInv, RegistryTypeOK
    <2>3. ASSUME DeleteDrop(p)
          PROVE  holds' \in [User \cup Deleter -> Steps \cup {NoCall}] /\ data' \subseteq Id
      <3>1. holds[p] \in Steps
        BY <2>3 DEF DeleteDrop, RegistryInv, RegistryTypeOK, NoCall
      <3>2. [holds[p] EXCEPT !.at = "dropped"] \in Steps
        BY <3>1 DEF Steps
      <3>. QED  BY <2>3, <3>2 DEF DeleteDrop, RegistryInv, RegistryTypeOK
    <2>. QED  BY <2>1, <2>2, <2>3
  <1>. QED  BY <1>1, <1>2 DEF RegistryInv, RegistryTypeOK

LEMMA NextRegistryInv == RegistryInv /\ [RegistryNext]_registryVars => RegistryInv'
  <1>. SUFFICES ASSUME RegistryInv, [RegistryNext]_registryVars PROVE RegistryInv'
    OBVIOUS
  <1>1. ASSUME NEW u \in User, NEW n \in Name, GetOrCreate(u, n) PROVE RegistryInv'
    BY <1>1, GetOrCreateRegistryInv
  <1>2. ASSUME NEW n \in Name, Create(n) PROVE RegistryInv'
    BY <1>2, MintRegistryInv DEF Create, RegistryInv, RegistryTypeOK
  <1>3. ASSUME NEW d \in Deleter, DeleteRow(d) PROVE RegistryInv'
    BY <1>3, DeleteRowRegistryInv
  <1>4. ASSUME NEW u \in User, NEW n \in Name, Resolve(u, n) PROVE RegistryInv'
    BY <1>4, HoldRegistryInv
  <1>5. ASSUME NEW d \in Deleter, NEW n \in Name, DeleteFind(d, n) PROVE RegistryInv'
    BY <1>5, HoldRegistryInv
  <1>6. ASSUME NEW u \in User, Use(u) PROVE RegistryInv'
    <2>1. CASE Name = {}
      BY <1>6, <2>1 DEF Use, RegistryInv, RegistryTypeOK, NoCall, Steps
    <2>2. CASE Name # {}
      BY <1>6, <2>2, HoldRegistryInv
    <2>. QED  BY <2>1, <2>2
  <1>7. ASSUME NEW d \in Deleter, DeleteDrop(d) PROVE RegistryInv'
    <2>1. CASE Name = {}
      BY <1>7, <2>1 DEF DeleteDrop, RegistryInv, RegistryTypeOK, NoCall, Steps
    <2>2. CASE Name # {}
      BY <1>7, <2>2, HoldRegistryInv
    <2>. QED  BY <2>1, <2>2
  <1>8. CASE RegistryRestart
    BY <1>8 DEF RegistryRestart, RegistryInv, RegistryTypeOK
  <1>9. CASE UNCHANGED registryVars
    BY <1>9 DEF registryVars, RegistryInv, RegistryTypeOK
  <1>. QED  BY <1>1, <1>2, <1>3, <1>4, <1>5, <1>6, <1>7, <1>8, <1>9 DEF RegistryNext

LEMMA RegistryInductive == RegistrySpec => []RegistryInv
  <1>. QED  BY InitRegistryInv, NextRegistryInv, PTL DEF RegistrySpec

-----------------------------------------------------------------------------
\* What was created and not deleted is listed, and nothing else, after any
\* number of restarts and however requests and deletes interleave.
THEOREM RegistryKept == RegistrySpec => []RegistrySurvives
  <1>1. RegistryInv => RegistrySurvives
    BY DEF RegistryInv, RegistrySurvives
  <1>. QED  BY <1>1, RegistryInductive, PTL

\* The registry is whole, for any names, users and deleters, through restarts.
THEOREM RegistryWhole == RegistrySpec => []RegistryHolds
  <1>1. RegistryInv => RegistryHolds
    BY DEF RegistryInv, RegistryHolds, RegistrySurvives
  <1>. QED  BY <1>1, RegistryInductive, PTL

-----------------------------------------------------------------------------
(* The configuration of an instance *)

\* A save that passed its check carries the instance's region: the snapshot it
\* was checked against may be old, its region is not.
ConfigInv ==
    /\ ConfigTypeOK
    /\ made # "done" => config.region = "auto" /\ \A p \in Writer : w[p] = NoWrite
    /\ made = "read" => place.cfg.region = place.region
    /\ made = "done" => config.region = place.region
    /\ \A p \in Writer : w[p].at \in {"checked", "saved"} => w[p].next.region = place.region

LEMMA InitConfigInv == ConfigInit => ConfigInv
  <1>. SUFFICES ASSUME ConfigInit PROVE ConfigInv
    OBVIOUS
  <1>1. Default \in Config /\ Default.region = "auto"
    BY ConfigAssumption DEF Default, Config, Regions
  <1>2. [region |-> "auto", cfg |-> Default] \in [region: Regions, cfg: Config]
    BY <1>1 DEF Regions
  <1>. QED  BY <1>1, <1>2 DEF ConfigInit, ConfigInv, ConfigTypeOK, NoWrite

\* A config stays one when a field of it is written.
LEMMA FieldWritten ==
    ASSUME NEW c \in Config, NEW r \in Regions, NEW u \in Rules
    PROVE  /\ [c EXCEPT !.region = r] \in Config /\ [c EXCEPT !.region = r].region = r
           /\ [c EXCEPT !.rules = u] \in Config /\ [c EXCEPT !.rules = u].region = c.region
  BY DEF Config

LEMMA MergedTyped ==
    ASSUME ConfigTypeOK, NEW ch \in Changes
    PROVE  Merged(ch) \in Config
  <1>1. config \in Config /\ DOMAIN config = {"region", "rules", "plain"}
    BY DEF ConfigTypeOK, Config
  <1>2. CASE ch \in [{"rules"} -> Rules]
    <2>1. Merged(ch) = [f \in {"region", "rules", "plain"} |-> IF f = "rules" THEN ch[f] ELSE config[f]]
      BY <1>1, <1>2 DEF Merged
    <2>. QED  BY <1>1, <1>2, <2>1 DEF Config
  <1>3. CASE ch \in [{"plain"} -> Plain]
    <2>1. Merged(ch) = [f \in {"region", "rules", "plain"} |-> IF f = "plain" THEN ch[f] ELSE config[f]]
      BY <1>1, <1>3 DEF Merged
    <2>. QED  BY <1>1, <1>3, <2>1 DEF Config
  <1>. QED  BY <1>2, <1>3 DEF Changes

-----------------------------------------------------------------------------
\* Creation: no writer is at work until it is done.
LEMMA CreateConfigInv ==
    ASSUME ConfigInv, NEW r \in Regions, ConfigCreate(r) \/ PlaceRead \/ PlaceWrite
    PROVE  ConfigInv'
  <1>1. /\ config \in Config /\ place \in [region: Regions, cfg: Config]
        /\ made # "done" /\ w' = w /\ \A p \in Writer : w[p] = NoWrite
    BY DEF ConfigInv, ConfigTypeOK, ConfigCreate, PlaceRead, PlaceWrite
  <1>2. NoWrite.at = "idle" /\ \A p \in Writer : w'[p].at = "idle"
    BY <1>1 DEF NoWrite
  <1>3. CASE ConfigCreate(r)
    BY <1>1, <1>2, <1>3 DEF ConfigCreate, ConfigInv, ConfigTypeOK
  <1>4. CASE PlaceRead
    <2>1. [config EXCEPT !.region = place.region] \in Config
          /\ [config EXCEPT !.region = place.region].region = place.region
      BY <1>1, FieldWritten, ConfigAssumption
    <2>. QED  BY <1>1, <1>2, <1>4, <2>1 DEF PlaceRead, ConfigInv, ConfigTypeOK
  <1>5. CASE PlaceWrite
    BY <1>1, <1>2, <1>5 DEF PlaceWrite, ConfigInv, ConfigTypeOK
  <1>. QED  BY <1>3, <1>4, <1>5

\* A writer's step: one that only takes a snapshot, or one that writes.
LEMMA StepConfigInv ==
    ASSUME ~Early, ConfigInv, NEW p \in Writer, Step(p)
    PROVE  ConfigInv'
  <1>1. /\ config \in Config /\ place \in [region: Regions, cfg: Config]
        /\ w \in [Writer -> Asked \cup [at: {"normal"}, rules: Rules] \cup {NoWrite}]
    BY DEF ConfigInv, ConfigTypeOK
  <1>2. made = "done" /\ config.region = place.region /\ made' = made /\ place' = place
    BY DEF Step, Open, Patch, Put, Replace, Write, HookRead, HookWrite, ConfigInv, NoWrite
  <1>3. ASSUME NEW v \in Asked \cup [at: {"normal"}, rules: Rules] \cup {NoWrite},
               v.at \in {"checked", "saved"} => v.next.region = place.region,
               w' = [w EXCEPT ![p] = v], config' \in Config, config'.region = place.region
        PROVE  ConfigInv'
    BY <1>1, <1>2, <1>3 DEF ConfigInv, ConfigTypeOK
  <1>4. ASSUME NEW next \in Config,
               w' = [w EXCEPT ![p] = [at |-> "asked", next |-> next]],
               config' = config
        PROVE  ConfigInv'
    <2>1. [at |-> "asked", next |-> next] \in Asked
      BY DEF Asked
    <2>. QED  BY <1>1, <1>2, <1>3, <1>4, <2>1
  <1>5. ASSUME NEW ch \in Changes, Patch(p, ch) PROVE ConfigInv'
    BY <1>4, <1>5, MergedTyped DEF Patch, ConfigInv
  <1>6. ASSUME NEW cfg \in Config, Put(p, cfg) PROVE ConfigInv'
    BY <1>4, <1>6 DEF Put
  <1>7. CASE Replace(p)
    <2>1. w[p] \in Asked
      BY <1>1, <1>7 DEF Replace, NoWrite
    <2>2. CASE Allowed(w[p].next, config)
      <3>1. [w[p] EXCEPT !.at = "checked"] \in Asked
            /\ [w[p] EXCEPT !.at = "checked"].next.region = place.region
        BY <1>2, <2>1, <2>2 DEF Asked, Allowed
      <3>2. w' = [w EXCEPT ![p] = [w[p] EXCEPT !.at = "checked"]] /\ config' = config
        BY <1>7, <2>2 DEF Replace
      <3>. QED  BY <1>1, <1>2, <1>3, <3>1, <3>2
    <2>3. CASE ~Allowed(w[p].next, config)
      <3>1. w' = [w EXCEPT ![p] = NoWrite] /\ config' = config
        BY <1>7, <2>3 DEF Replace
      <3>. QED  BY <1>1, <1>2, <1>3, <3>1 DEF NoWrite
    <2>. QED  BY <2>2, <2>3
  <1>8. CASE Write(p)
    <2>1. w[p] \in Asked /\ w[p].next \in Config /\ w[p].next.region = place.region
      <3>1. w[p] \in Asked
        BY <1>1, <1>8 DEF Write, NoWrite
      <3>. QED  BY <1>8, <3>1 DEF Write, ConfigInv, Asked
    <2>2. [w[p] EXCEPT !.at = "saved"] \in Asked
          /\ [w[p] EXCEPT !.at = "saved"].next.region = place.region
      BY <2>1 DEF Asked
    <2>3. w' = [w EXCEPT ![p] = [w[p] EXCEPT !.at = "saved"]] /\ config' = w[p].next
      BY <1>8 DEF Write
    <2>. QED  BY <1>3, <2>1, <2>2, <2>3
  <1>9. CASE HookRead(p)
    <2>1. Normal[config.rules] \in Rules
      BY <1>1, ConfigAssumption DEF Config
    <2>2. w' = [w EXCEPT ![p] = [at |-> "normal", rules |-> Normal[config.rules]]] /\ config' = config
      BY <1>9 DEF HookRead
    <2>. QED  BY <1>1, <1>2, <1>3, <2>1, <2>2
  <1>10. CASE HookWrite(p)
    <2>1. w[p].rules \in Rules
      BY <1>1, <1>10 DEF HookWrite, Asked, NoWrite
    <2>2. config' \in Config /\ config'.region = place.region
      BY <1>1, <1>2, <1>10, <2>1 DEF HookWrite, Config
    <2>3. w' = [w EXCEPT ![p] = NoWrite]
      BY <1>10 DEF HookWrite
    <2>. QED  BY <1>3, <2>2, <2>3 DEF NoWrite
  <1>. QED  BY <1>5, <1>6, <1>7, <1>8, <1>9, <1>10 DEF Step

LEMMA NextConfigInv == ~Early /\ ConfigInv /\ [ConfigNext]_configVars => ConfigInv'
  <1>. SUFFICES ASSUME ~Early, ConfigInv, [ConfigNext]_configVars PROVE ConfigInv'
    OBVIOUS
  <1>1. ASSUME NEW r \in Regions, ConfigCreate(r) PROVE ConfigInv'
    BY <1>1, CreateConfigInv
  <1>2. CASE PlaceRead \/ PlaceWrite
    <2>1. "auto" \in Regions
      BY DEF Regions
    <2>. QED  BY <1>2, <2>1, CreateConfigInv
  <1>3. ASSUME NEW p \in Writer, Step(p) PROVE ConfigInv'
    BY <1>3, StepConfigInv
  <1>4. CASE UNCHANGED configVars
    BY <1>4 DEF configVars, ConfigInv, ConfigTypeOK
  <1>. QED  BY <1>1, <1>2, <1>3, <1>4 DEF ConfigNext

\* A placed instance's region stays through every save, patch and hook, when none
\* comes before its creation has returned.
THEOREM RegionKept == ~Early => (ConfigSpec => RegionFixed)
  <1>. SUFFICES ASSUME ~Early PROVE ConfigSpec => RegionFixed
    OBVIOUS
  <1>1. ConfigInit => ConfigInv
    BY InitConfigInv
  <1>2. ConfigInv /\ [ConfigNext]_configVars => ConfigInv'
    BY NextConfigInv
  <1>3. ConfigInv /\ ConfigInv' /\ [ConfigNext]_configVars => [made = "done" => config'.region = place.region]_configVars
    <2>. SUFFICES ASSUME ConfigInv, ConfigInv', [ConfigNext]_configVars, made = "done", ~UNCHANGED configVars
                  PROVE  config'.region = place.region
      OBVIOUS
    <2>1. made' = "done" /\ place' = place
      BY DEF ConfigNext, ConfigCreate, PlaceRead, PlaceWrite, Step, Patch, Put, Replace, Write, HookRead,
             HookWrite, configVars
    <2>. QED  BY <2>1 DEF ConfigInv
  <1>. QED  BY <1>1, <1>2, <1>3, PTL DEF ConfigSpec, RegionFixed

-----------------------------------------------------------------------------
\* What a hook is about to write is in normal form, and rules that are not have a
\* writer that saved and whose hook has not written.
Settling ==
    /\ made = "read" => place.cfg.rules = Normal[place.cfg.rules]
    /\ \A p \in Writer : w[p].at = "normal" => w[p].rules = Normal[w[p].rules]
    /\ config.rules = Normal[config.rules] \/ \E p \in Writer : w[p].at \in {"saved", "normal"}

LEMMA InitSettling == ConfigInit => Settling
  BY ConfigAssumption DEF ConfigInit, Settling, Default, NoWrite

\* The normal form of rules is its own.
LEMMA NormalTwice ==
    ASSUME ConfigTypeOK
    PROVE  config.rules \in Rules /\ Normal[Normal[config.rules]] = Normal[config.rules]
  BY ConfigAssumption DEF ConfigTypeOK, Config

LEMMA CreateSettling ==
    ASSUME ConfigInv, Settling, NEW r \in Regions, ConfigCreate(r) \/ PlaceRead \/ PlaceWrite
    PROVE  Settling'
  <1>1. /\ config \in Config /\ w' = w /\ made # "done" /\ \A p \in Writer : w[p].at = "idle"
    BY DEF ConfigInv, ConfigTypeOK, ConfigCreate, PlaceRead, PlaceWrite, NoWrite
  <1>2. config.rules = Normal[config.rules]
    BY <1>1 DEF Settling
  <1>3. CASE ConfigCreate(r)
    BY <1>1, <1>2, <1>3 DEF ConfigCreate, Settling
  <1>4. CASE PlaceRead
    <2>1. [config EXCEPT !.region = place.region].rules = config.rules
      BY <1>1 DEF Config
    <2>2. place' = [place EXCEPT !.cfg = [config EXCEPT !.region = place.region]] /\ config' = config
      BY <1>4 DEF PlaceRead
    <2>3. place'.cfg = [config EXCEPT !.region = place.region]
      BY <2>2 DEF ConfigInv, ConfigTypeOK
    <2>. QED  BY <1>1, <1>2, <2>1, <2>2, <2>3 DEF Settling
  <1>5. CASE PlaceWrite
    BY <1>1, <1>5 DEF PlaceWrite, Settling
  <1>. QED  BY <1>3, <1>4, <1>5

LEMMA StepSettling ==
    ASSUME ~Early, ConfigInv, Settling, NEW p \in Writer, Step(p)
    PROVE  Settling'
  <1>1. /\ config \in Config
        /\ w \in [Writer -> Asked \cup [at: {"normal"}, rules: Rules] \cup {NoWrite}]
        /\ config.rules \in Rules /\ Normal[Normal[config.rules]] = Normal[config.rules]
    BY NormalTwice DEF ConfigInv, ConfigTypeOK
  <1>2. made = "done" /\ made' = made
    BY DEF Step, Open, Patch, Put, Replace, Write, HookRead, HookWrite, ConfigInv, NoWrite
  <1>3. ASSUME w[p].at \notin {"saved", "normal"}, NEW v, v.at # "normal", w' = [w EXCEPT ![p] = v],
               config' = config
        PROVE  Settling'
    BY <1>1, <1>2, <1>3 DEF Settling
  <1>4. CASE (\E ch \in Changes : Patch(p, ch)) \/ (\E cfg \in Config : Put(p, cfg))
    <2>1. PICK next : w' = [w EXCEPT ![p] = [at |-> "asked", next |-> next]] /\ config' = config /\ w[p] = NoWrite
      BY <1>4 DEF Patch, Put, Open
    <2>2. [at |-> "asked", next |-> next].at # "normal" /\ w[p].at \notin {"saved", "normal"}
      BY <2>1 DEF NoWrite
    <2>. QED  BY <1>3, <2>1, <2>2
  <1>5. CASE Replace(p)
    <2>1. w[p].at = "asked" /\ config' = config
      BY <1>5 DEF Replace
    <2>2. w[p] \in Asked
      BY <1>1, <2>1 DEF NoWrite
    <2>3. [w[p] EXCEPT !.at = "checked"].at = "checked" /\ NoWrite.at = "idle"
      BY <2>2 DEF Asked, NoWrite
    <2>4. w' = [w EXCEPT ![p] = [w[p] EXCEPT !.at = "checked"]] \/ w' = [w EXCEPT ![p] = NoWrite]
      BY <1>5 DEF Replace
    <2>. QED  BY <1>3, <2>1, <2>3, <2>4
  <1>6. CASE Write(p)
    <2>1. w[p].at = "checked"
      BY <1>6 DEF Write
    <2>2. w[p] \in Asked
      BY <1>1, <2>1 DEF NoWrite
    <2>3. [w[p] EXCEPT !.at = "saved"].at = "saved" /\ w' = [w EXCEPT ![p] = [w[p] EXCEPT !.at = "saved"]]
      BY <1>6, <2>2 DEF Asked, Write
    <2>. QED  BY <1>1, <1>2, <2>3 DEF Settling
  <1>7. CASE HookRead(p)
    <2>1. w' = [w EXCEPT ![p] = [at |-> "normal", rules |-> Normal[config.rules]]] /\ config' = config
      BY <1>7 DEF HookRead
    <2>. QED  BY <1>1, <1>2, <2>1 DEF Settling
  <1>8. CASE HookWrite(p)
    <2>1. w[p].at = "normal" /\ config' = [config EXCEPT !.rules = w[p].rules] /\ w' = [w EXCEPT ![p] = NoWrite]
      BY <1>8 DEF HookWrite
    <2>2. config'.rules = w[p].rules
      BY <1>1, <2>1 DEF Config
    <2>. QED  BY <1>1, <1>2, <2>1, <2>2 DEF Settling, NoWrite
  <1>. QED  BY <1>4, <1>5, <1>6, <1>7, <1>8 DEF Step

LEMMA NextSettling == ~Early /\ ConfigInv /\ Settling /\ [ConfigNext]_configVars => Settling'
  <1>. SUFFICES ASSUME ~Early, ConfigInv, Settling, [ConfigNext]_configVars PROVE Settling'
    OBVIOUS
  <1>1. CASE (\E r \in Regions : ConfigCreate(r)) \/ PlaceRead \/ PlaceWrite
    <2>1. "auto" \in Regions
      BY DEF Regions
    <2>. QED  BY <1>1, <2>1, CreateSettling
  <1>2. ASSUME NEW p \in Writer, Step(p) PROVE Settling'
    BY <1>2, StepSettling
  <1>3. CASE UNCHANGED configVars
    BY <1>3 DEF configVars, Settling
  <1>. QED  BY <1>1, <1>2, <1>3 DEF ConfigNext

\* Whichever writer saved last and whichever hook ran last, the rules are in the
\* service's normal form once all are through: a hook that read before another's
\* save writes rules that are normal, and the other's hook is still to come.
THEOREM ConfigKept == ~Early => (ConfigSpec => []ConfigHolds)
  <1>. SUFFICES ASSUME ~Early PROVE ConfigSpec => []ConfigHolds
    OBVIOUS
  <1>1. ConfigInit => ConfigInv /\ Settling
    BY InitConfigInv, InitSettling
  <1>2. ConfigInv /\ Settling /\ [ConfigNext]_configVars => (ConfigInv /\ Settling)'
    BY NextConfigInv, NextSettling
  <1>3. ConfigInv /\ Settling => ConfigHolds
    BY DEF ConfigInv, Settling, ConfigHolds, NormalAtRest, NoWrite
  <1>. QED  BY <1>1, <1>2, <1>3, PTL DEF ConfigSpec

-----------------------------------------------------------------------------
(* The versions of functions *)

\* A source was deployed as version n of f.
Known(s, f, n) == s # NoSource => s \in Source /\ born[s] = [fn |-> f, n |-> n]

CodeKnown  == \A f \in Fn, n \in Numbers : Known(code[f][n], f, n)
CacheKnown == \A f \in Fn, n \in Numbers : Known(cache[f][n], f, n)
CallsKnown == \A c \in Caller :
    /\ call[c].at = "fetched" => Known(call[c].src, call[c].fn, call[c].n)
    /\ call[c].at = "running" => Known(call[c].prog, call[c].fn, call[c].n)

\* A function that is not deployed serves nothing.
GoneServesNothing == \A f \in Fn \ fns : active[f] = 0

\* What a call runs is in the code or in the cache when it gets it, and both
\* hold nothing under a name and number but what was deployed there.
VersionsInv ==
    /\ VersionsTypeOK
    /\ ServedIsStored /\ GoneServesNothing
    /\ CodeKnown /\ CacheKnown /\ CallsKnown

LEMMA InitVersionsInv == VersionsInit => VersionsInv
  <1>. SUFFICES ASSUME VersionsInit PROVE VersionsInv
    OBVIOUS
  <1>1. 0 \in Numbers /\ NoRequest.at = "idle"
    BY VersionsAssumption DEF Numbers, NoRequest
  <1>2. NoCode \in [Numbers -> Source \cup {NoSource}] /\ \A n \in Numbers : NoCode[n] = NoSource
    BY DEF NoCode
  <1>3. [keep |-> DefaultKeep, default |-> NoDefault] \in Settings
    BY VersionsAssumption DEF Settings
  <1>4. Unborn \in [fn: Fn \cup {NoDefault}, n: Numbers]
    BY <1>1 DEF Unborn
  <1>5. VersionsTypeOK
    BY <1>1, <1>2, <1>3, <1>4 DEF VersionsInit, VersionsTypeOK
  <1>6. ServedIsStored /\ GoneServesNothing /\ CodeKnown /\ CacheKnown /\ CallsKnown
    BY <1>1, <1>2 DEF VersionsInit, ServedIsStored, GoneServesNothing, CodeKnown, CacheKnown, CallsKnown, Known
  <1>. QED  BY <1>5, <1>6 DEF VersionsInv

-----------------------------------------------------------------------------
(* What retention keeps *)

LEMMA KeptOf ==
    ASSUME NEW h \in SUBSET Version, NEW a, NEW keep
    PROVE  Kept(h, a, keep) \subseteq h /\ (a \in h => a \in Kept(h, a, keep))
  BY DEF Kept

\* Code left with what a part of its history lists is stored exactly there.
LEMMA RestStored ==
    ASSUME NEW k \in [Numbers -> Source \cup {NoSource}], NEW h \in SUBSET Version,
           \A n \in h : k[n] # NoSource
    PROVE  /\ Rest(k, h) \in [Numbers -> Source \cup {NoSource}]
           /\ h = {n \in Numbers : Rest(k, h)[n] # NoSource}
           /\ \A n \in Numbers : Rest(k, h)[n] # NoSource => Rest(k, h)[n] = k[n]
  <1>1. Version \subseteq Numbers
    BY VersionsAssumption DEF Version, Numbers
  <1>. QED  BY <1>1 DEF Rest

-----------------------------------------------------------------------------
(* The store *)

LEMMA DeployVersionsInv ==
    ASSUME VersionsInv, NEW p \in Admin, NEW s \in Source, NEW n \in Version, Deploy(p, s, n)
    PROVE  VersionsInv'
  <1>. DEFINE f == adm[p].fn
              a == IF adm[p].act THEN n ELSE active[f]
              h == Kept(hist[f] \cup {n}, a, adm[p].keep)
              k == [code[f] EXCEPT ![n] = s]
              r == [at |-> "drop", fn |-> f, gone |-> FALSE]
  <1>1. /\ fns' = fns \cup {f} /\ active' = [active EXCEPT ![f] = a]
        /\ hist' = [hist EXCEPT ![f] = h] /\ code' = [code EXCEPT ![f] = Rest(k, h)]
        /\ born' = [born EXCEPT ![s] = [fn |-> f, n |-> n]]
        /\ adm' = [adm EXCEPT ![p] = r] /\ born[s] = Unborn
        /\ settings' = settings /\ cache' = cache /\ call' = call
    BY DEF Deploy
  <1>2. Version \subseteq Numbers /\ n \in Numbers /\ 0 \in Numbers /\ n # 0 /\ s # NoSource
    BY VersionsAssumption DEF Version, Numbers
  <1>3. f \in Fn
    <2>1. adm[p] \in Requests /\ adm[p].at = "deploy"
      BY DEF Deploy, VersionsInv, VersionsTypeOK, NoRequest
    <2>. QED  BY <2>1 DEF Requests
  <1>4. h \subseteq hist[f] \cup {n} /\ (a \in hist[f] \cup {n} => a \in h) /\ h \subseteq Version
    <2>1. hist[f] \cup {n} \in SUBSET Version
      BY <1>3 DEF VersionsInv, VersionsTypeOK
    <2>. HIDE DEF f, a
    <2>. QED  BY <2>1, KeptOf
  <1>5. k \in [Numbers -> Source \cup {NoSource}] /\ k[n] = s /\ \A m \in hist[f] \cup {n} : k[m] # NoSource
    <2>1. code[f] \in [Numbers -> Source \cup {NoSource}] /\ hist[f] \subseteq Numbers
      BY <1>2, <1>3 DEF VersionsInv, VersionsTypeOK
    <2>2. \A m \in hist[f] : code[f][m] # NoSource
      BY <1>3 DEF VersionsInv, ServedIsStored
    <2>. QED  BY <1>2, <2>1, <2>2
  <1>6. /\ Rest(k, h) \in [Numbers -> Source \cup {NoSource}]
        /\ h = {m \in Numbers : Rest(k, h)[m] # NoSource}
        /\ \A m \in Numbers : Rest(k, h)[m] # NoSource => Rest(k, h)[m] = k[m]
    <2>1. h \in SUBSET Version /\ \A m \in h : k[m] # NoSource
      BY <1>4, <1>5
    <2>. HIDE DEF h, k
    <2>. QED  BY <1>5, <2>1, RestStored
  <1>7. a \in Numbers /\ (a # 0 => a \in hist[f] \cup {n})
    <2>1. active[f] \in Numbers
      BY <1>3 DEF VersionsInv, VersionsTypeOK
    <2>2. active[f] # 0 => f \in fns
      BY <1>3 DEF VersionsInv, GoneServesNothing
    <2>3. active[f] # 0 => active[f] \in hist[f]
      BY <1>3, <2>1, <2>2 DEF VersionsInv, ServedIsStored
    <2>. QED  BY <1>2, <2>1, <2>3
  <1>8. r \in Requests
    BY <1>3 DEF Requests
  <1>9. [fn |-> f, n |-> n] \in [fn: Fn \cup {NoDefault}, n: Numbers]
    BY <1>2, <1>3
  <1>10. \A t : \A g \in Fn, m \in Numbers : Known(t, g, m) => (t # NoSource => t # s /\ t \in Source /\ born'[t] = [fn |-> g, n |-> m])
    <2>1. \A g \in Fn, m \in Numbers : Unborn # [fn |-> g, n |-> m]
      BY VersionsAssumption DEF Unborn
    <2>2. born \in [Source -> [fn: Fn \cup {NoDefault}, n: Numbers]]
      BY DEF VersionsInv, VersionsTypeOK
    <2>. QED  BY <1>1, <2>1, <2>2 DEF Known
  <1>11. born'[s] = [fn |-> f, n |-> n]
    BY <1>1 DEF VersionsInv, VersionsTypeOK
  <1>. HIDE DEF f, a, h, k, r
  <1>12. VersionsTypeOK'
    <2>1. hist' \in [Fn -> SUBSET Version] /\ active' \in [Fn -> Numbers] /\ fns' \subseteq Fn
      BY <1>1, <1>3, <1>4, <1>7 DEF VersionsInv, VersionsTypeOK
    <2>2. code' \in [Fn -> [Numbers -> Source \cup {NoSource}]]
      BY <1>1, <1>3, <1>6 DEF VersionsInv, VersionsTypeOK
    <2>3. adm' \in [Admin -> Requests \cup {NoRequest}] /\ born' \in [Source -> [fn: Fn \cup {NoDefault}, n: Numbers]]
      BY <1>1, <1>8, <1>9 DEF VersionsInv, VersionsTypeOK
    <2>. QED  BY <1>1, <2>1, <2>2, <2>3 DEF VersionsInv, VersionsTypeOK
  <1>13. ServedIsStored'
    <2>1. \A g \in Fn : g # f => hist'[g] = hist[g] /\ code'[g] = code[g] /\ active'[g] = active[g]
      BY <1>1 DEF VersionsInv, VersionsTypeOK
    <2>2. hist'[f] = h /\ code'[f] = Rest(k, h) /\ active'[f] = a
      BY <1>1, <1>3 DEF VersionsInv, VersionsTypeOK
    <2>3. a # 0 => Rest(k, h)[a] # NoSource
      BY <1>4, <1>6, <1>7
    <2>. QED  BY <1>1, <1>6, <2>1, <2>2, <2>3 DEF VersionsInv, ServedIsStored, VersionsTypeOK
  <1>14. GoneServesNothing'
    BY <1>1 DEF VersionsInv, VersionsTypeOK, GoneServesNothing
  <1>15. CodeKnown'
    <2>. SUFFICES ASSUME NEW g \in Fn, NEW m \in Numbers, code'[g][m] # NoSource
                  PROVE  code'[g][m] \in Source /\ born'[code'[g][m]] = [fn |-> g, n |-> m]
      BY DEF CodeKnown, Known
    <2>1. Known(code[g][m], g, m)
      BY DEF VersionsInv, CodeKnown
    <2>2. CASE g # f
      <3>1. code'[g][m] = code[g][m]
        BY <1>1, <2>2 DEF VersionsInv, VersionsTypeOK
      <3>. QED  BY <1>10, <2>1, <3>1
    <2>3. CASE g = f /\ m = n
      <3>1. code'[g][m] = s
        BY <1>1, <1>3, <1>5, <1>6, <2>3 DEF VersionsInv, VersionsTypeOK
      <3>. QED  BY <1>11, <2>3, <3>1
    <2>4. CASE g = f /\ m # n
      <3>1. code'[g][m] = k[m]
        BY <1>1, <1>3, <1>6, <2>4 DEF VersionsInv, VersionsTypeOK
      <3>2. k[m] = code[f][m]
        BY <1>3, <2>4 DEF k, VersionsInv, VersionsTypeOK
      <3>3. code'[g][m] = code[g][m]
        BY <2>4, <3>1, <3>2
      <3>. QED  BY <1>10, <2>1, <3>3
    <2>. QED  BY <2>2, <2>3, <2>4
  <1>16. CacheKnown'
    BY <1>1, <1>10 DEF VersionsInv, CacheKnown, Known
  <1>17. CallsKnown'
    <2>. SUFFICES ASSUME NEW c \in Caller PROVE
            /\ call[c].at = "fetched" => Known(call[c].src, call[c].fn, call[c].n)'
            /\ call[c].at = "running" => Known(call[c].prog, call[c].fn, call[c].n)'
      BY <1>1 DEF CallsKnown, Known
    <2>1. /\ call[c].at = "fetched" => call[c].fn \in Fn /\ call[c].n \in Numbers
          /\ call[c].at = "running" => call[c].fn \in Fn /\ call[c].n \in Numbers
      BY <1>2 DEF VersionsInv, VersionsTypeOK, Calls, NoRequest
    <2>2. /\ call[c].at = "fetched" => Known(call[c].src, call[c].fn, call[c].n)
          /\ call[c].at = "running" => Known(call[c].prog, call[c].fn, call[c].n)
      BY DEF VersionsInv, CallsKnown
    <2>. QED  BY <1>1, <1>10, <2>1, <2>2 DEF Known
  <1>. QED  BY <1>12, <1>13, <1>14, <1>15, <1>16, <1>17 DEF VersionsInv

LEMMA ActivateVersionsInv ==
    ASSUME VersionsInv, NEW p \in Admin, NEW f \in Fn, NEW n \in Version, Activate(p, f, n)
    PROVE  VersionsInv'
  <1>1. n \in Numbers
    BY VersionsAssumption DEF Version, Numbers
  <1>2. [at |-> "drop", fn |-> f, gone |-> FALSE] \in Requests
    BY DEF Requests
  <1>3. VersionsTypeOK'
    BY <1>1, <1>2 DEF VersionsInv, VersionsTypeOK, Activate
  <1>4. ServedIsStored' /\ GoneServesNothing'
    BY <1>1 DEF VersionsInv, VersionsTypeOK, Activate, ServedIsStored, GoneServesNothing
  <1>5. CodeKnown' /\ CacheKnown' /\ CallsKnown'
    BY DEF VersionsInv, Activate, CodeKnown, CacheKnown, CallsKnown, Known
  <1>. QED  BY <1>3, <1>4, <1>5 DEF VersionsInv

\* Code only leaves the store: what is left of it is known.
LEMMA DeletesVersionsInv ==
    ASSUME VersionsInv, NEW p \in Admin, NEW f \in Fn, NEW n \in Numbers,
           (n \in Version /\ DeleteVersion(p, f, n)) \/ DeleteFunction(p, f)
    PROVE  VersionsInv'
  <1>1. 0 \in Numbers /\ Version \subseteq Numbers
    BY VersionsAssumption DEF Version, Numbers
  <1>2. [at |-> "drop", fn |-> f, gone |-> TRUE] \in Requests
    BY DEF Requests
  <1>3. VersionsTypeOK'
    <2>1. CASE DeleteVersion(p, f, n)
      BY <1>1, <2>1 DEF VersionsInv, VersionsTypeOK, DeleteVersion
    <2>2. CASE DeleteFunction(p, f)
      BY <1>1, <1>2, <2>2 DEF VersionsInv, VersionsTypeOK, DeleteFunction
    <2>. QED  BY <2>1, <2>2
  <1>4. ServedIsStored' /\ GoneServesNothing'
    <2>1. CASE DeleteVersion(p, f, n)
      BY <1>1, <2>1 DEF VersionsInv, VersionsTypeOK, DeleteVersion, Deletable, ServedIsStored, GoneServesNothing
    <2>2. CASE DeleteFunction(p, f)
      BY <1>1, <2>2 DEF VersionsInv, VersionsTypeOK, DeleteFunction, ServedIsStored, GoneServesNothing
    <2>. QED  BY <2>1, <2>2
  <1>5. CodeKnown'
    <2>1. \A g \in Fn, m \in Numbers : code'[g][m] \in {code[g][m], NoSource}
      <3>1. CASE n \in Version /\ DeleteVersion(p, f, n)
        BY <3>1 DEF VersionsInv, VersionsTypeOK, DeleteVersion
      <3>2. CASE DeleteFunction(p, f)
        BY <3>2 DEF VersionsInv, VersionsTypeOK, DeleteFunction
      <3>. QED  BY <3>1, <3>2
    <2>2. born' = born
      BY DEF DeleteVersion, DeleteFunction
    <2>. QED  BY <2>1, <2>2 DEF VersionsInv, CodeKnown, Known
  <1>6. CacheKnown' /\ CallsKnown'
    BY DEF VersionsInv, DeleteVersion, DeleteFunction, CacheKnown, CallsKnown, Known
  <1>. QED  BY <1>3, <1>4, <1>5, <1>6 DEF VersionsInv

LEMMA PruneVersionsInv ==
    ASSUME VersionsInv, NEW p \in Admin, Prune(p)
    PROVE  VersionsInv'
  <1>. DEFINE keep == adm[p].keep
              h(f) == Kept(hist[f], active[f], keep)
  <1>1. /\ hist' = [f \in Fn |-> h(f)] /\ code' = [f \in Fn |-> Rest(code[f], h(f))]
        /\ adm' \in [Admin -> Requests \cup {NoRequest}]
        /\ UNCHANGED <<fns, active, born, settings, cache, call>>
    BY DEF Prune, Pruned, Requests, VersionsInv, VersionsTypeOK
  <1>2. \A f \in Fn : h(f) \subseteq hist[f] /\ (active[f] \in hist[f] => active[f] \in h(f))
    <2>1. \A f \in Fn : hist[f] \in SUBSET Version
      BY DEF VersionsInv, VersionsTypeOK
    <2>. QED  BY <2>1, KeptOf
  <1>3. \A f \in Fn : /\ Rest(code[f], h(f)) \in [Numbers -> Source \cup {NoSource}]
                      /\ h(f) = {n \in Numbers : Rest(code[f], h(f))[n] # NoSource}
                      /\ \A n \in Numbers : Rest(code[f], h(f))[n] # NoSource
                            => Rest(code[f], h(f))[n] = code[f][n]
    <2>. TAKE f \in Fn
    <2>1. code[f] \in [Numbers -> Source \cup {NoSource}] /\ h(f) \in SUBSET Version
      BY <1>2 DEF VersionsInv, VersionsTypeOK
    <2>2. \A n \in h(f) : code[f][n] # NoSource
      BY <1>2 DEF VersionsInv, ServedIsStored
    <2>. HIDE DEF h
    <2>. QED  BY <2>1, <2>2, RestStored
  <1>. HIDE DEF h
  <1>4. VersionsTypeOK'
    BY <1>1, <1>2, <1>3 DEF VersionsInv, VersionsTypeOK
  <1>5. ServedIsStored' /\ GoneServesNothing'
    BY <1>1, <1>2, <1>3 DEF VersionsInv, VersionsTypeOK, ServedIsStored, GoneServesNothing
  <1>6. CodeKnown' /\ CacheKnown' /\ CallsKnown'
    BY <1>1, <1>3 DEF VersionsInv, CodeKnown, CacheKnown, CallsKnown, Known
  <1>. QED  BY <1>4, <1>5, <1>6 DEF VersionsInv

-----------------------------------------------------------------------------
(* The cache and the calls *)

\* What leaves the store and the calls alone, and what it puts in the cache is
\* no more than what was there.
LEMMA RestOfRequestVersionsInv ==
    ASSUME VersionsInv, UNCHANGED <<store, call>>, settings' \in Settings,
           adm' \in [Admin -> Requests \cup {NoRequest}],
           \/ UNCHANGED cache
           \/ \E S \in SUBSET Fn : cache' = [f \in Fn |-> IF f \in S THEN NoCode ELSE cache[f]]
    PROVE  VersionsInv'
  <1>1. NoCode \in [Numbers -> Source \cup {NoSource}] /\ \A n \in Numbers : NoCode[n] = NoSource
    BY DEF NoCode
  <1>2. /\ cache' \in [Fn -> [Numbers -> Source \cup {NoSource}]]
        /\ \A f \in Fn, n \in Numbers : cache'[f][n] \in {cache[f][n], NoSource}
    BY <1>1 DEF VersionsInv, VersionsTypeOK
  <1>3. VersionsTypeOK'
    BY <1>2 DEF VersionsInv, VersionsTypeOK, store
  <1>4. ServedIsStored' /\ GoneServesNothing'
    BY DEF VersionsInv, store, ServedIsStored, GoneServesNothing
  <1>5. CodeKnown' /\ CacheKnown' /\ CallsKnown'
    BY <1>2 DEF VersionsInv, store, CodeKnown, CacheKnown, CallsKnown, Known
  <1>. QED  BY <1>3, <1>4, <1>5 DEF VersionsInv

LEMMA RequestVersionsInv ==
    ASSUME VersionsInv, NEW p \in Admin,
           \/ \E f \in Fn, act \in BOOLEAN : DeployRead(p, f, act)
           \/ \E next \in Settings : AskSettings(p, next)
           \/ DropCache(p) \/ Undefault(p) \/ Check(p) \/ WriteSettings(p) \/ HookPrune(p) \/ ClearCache(p)
    PROVE  VersionsInv'
  <1>1. adm[p] \in Requests \cup {NoRequest} /\ settings \in Settings /\ adm \in [Admin -> Requests \cup {NoRequest}]
    BY DEF VersionsInv, VersionsTypeOK
  <1>2. /\ adm[p].at = "drop" => adm[p].fn \in Fn
        /\ adm[p].at \in {"asked", "checked"} => adm[p].next \in Settings
        /\ adm[p].at \in {"checked", "saved"} => adm[p].before \in Settings
    BY <1>1 DEF Requests, NoRequest
  <1>3. CASE \E f \in Fn, act \in BOOLEAN : DeployRead(p, f, act)
    <2>. PICK f \in Fn, act \in BOOLEAN : DeployRead(p, f, act)
      BY <1>3
    <2>1. [at |-> "deploy", fn |-> f, act |-> act, keep |-> settings.keep] \in Requests
      BY <1>1 DEF Requests, Settings
    <2>. QED  BY <1>1, <2>1, RestOfRequestVersionsInv DEF DeployRead
  <1>4. CASE DropCache(p)
    <2>1. adm[p].fn \in Fn /\ [at |-> "undefault", fn |-> adm[p].fn] \in Requests
      BY <1>2, <1>4 DEF DropCache, Requests
    <2>2. adm' \in [Admin -> Requests \cup {NoRequest}]
      BY <1>1, <1>4, <2>1 DEF DropCache
    <2>3. cache' = [g \in Fn |-> IF g \in {adm[p].fn} THEN NoCode ELSE cache[g]]
      BY <1>4, <2>1 DEF DropCache, VersionsInv, VersionsTypeOK
    <2>4. {adm[p].fn} \in SUBSET Fn
      BY <2>1
    <2>5. \E S \in SUBSET Fn : cache' = [g \in Fn |-> IF g \in S THEN NoCode ELSE cache[g]]
      BY <2>3, <2>4
    <2>. QED  BY <1>1, <1>4, <2>2, <2>5, RestOfRequestVersionsInv DEF DropCache
  <1>5. CASE Undefault(p)
    <2>1. [at |-> "asked", next |-> [settings EXCEPT !.default = NoDefault]] \in Requests
      BY <1>1 DEF Requests, Settings
    <2>. QED  BY <1>1, <1>5, <2>1, RestOfRequestVersionsInv DEF Undefault
  <1>6. CASE \E next \in Settings : AskSettings(p, next)
    <2>. PICK next \in Settings : AskSettings(p, next)
      BY <1>6
    <2>1. [at |-> "asked", next |-> next] \in Requests
      BY DEF Requests
    <2>. QED  BY <1>1, <2>1, RestOfRequestVersionsInv DEF AskSettings
  <1>7. CASE Check(p)
    <2>1. [at |-> "checked", next |-> adm[p].next, before |-> settings] \in Requests
      BY <1>1, <1>2, <1>7 DEF Requests, Check
    <2>. QED  BY <1>1, <1>7, <2>1, RestOfRequestVersionsInv DEF Check
  <1>8. CASE WriteSettings(p)
    <2>1. adm[p].next \in Settings /\ [at |-> "saved", before |-> adm[p].before] \in Requests
      BY <1>1, <1>2, <1>8 DEF Requests, WriteSettings
    <2>. QED  BY <1>1, <1>8, <2>1, RestOfRequestVersionsInv DEF WriteSettings
  <1>9. CASE HookPrune(p)
    <2>1. [at |-> "prune", keep |-> settings.keep] \in Requests
      BY <1>1 DEF Requests, Settings
    <2>. QED  BY <1>1, <1>9, <2>1, RestOfRequestVersionsInv DEF HookPrune
  <1>10. CASE ClearCache(p)
    <2>1. cache' = [g \in Fn |-> IF g \in Fn THEN NoCode ELSE cache[g]]
      BY <1>10 DEF ClearCache
    <2>. QED  BY <1>1, <1>10, <2>1, RestOfRequestVersionsInv DEF ClearCache
  <1>. QED  BY <1>3, <1>4, <1>5, <1>6, <1>7, <1>8, <1>9, <1>10

LEMMA InvokeVersionsInv ==
    ASSUME VersionsInv, NEW c \in Caller, Invoke(c)
    PROVE  VersionsInv'
  <1>. DEFINE f == call[c].fn
              n == call[c].n
              src == call[c].src
  <1>1. call \in [Caller -> Calls \cup {NoRequest}] /\ Version \subseteq Numbers /\ 0 \in Numbers
    BY VersionsAssumption DEF VersionsInv, VersionsTypeOK, Version, Numbers
  <1>2. \A v \in Numbers, g \in Fn : code[g][v] # NoSource => v \in Version /\ code[g][v] \in Source
    BY DEF VersionsInv, VersionsTypeOK, ServedIsStored
  <1>3. CASE \E g \in Fn, m \in Numbers : ResolveCall(c, g, m)
    <2>. PICK g \in Fn, m \in Numbers : ResolveCall(c, g, m)
      BY <1>3
    <2>. DEFINE r == [at |-> "resolved", fn |-> g, n |-> IF m = 0 THEN active[g] ELSE m]
    <2>1. r \in Calls /\ r.at = "resolved"
      BY DEF VersionsInv, VersionsTypeOK, Calls
    <2>2. call' = [call EXCEPT ![c] = r] /\ UNCHANGED <<store, settings, cache, adm>>
      BY DEF ResolveCall
    <2>. HIDE DEF r
    <2>3. VersionsTypeOK' /\ ServedIsStored' /\ GoneServesNothing'
      BY <1>1, <2>1, <2>2 DEF VersionsInv, VersionsTypeOK, ServedIsStored, GoneServesNothing, store
    <2>4. CodeKnown' /\ CacheKnown' /\ CallsKnown'
      BY <1>1, <2>1, <2>2 DEF VersionsInv, CodeKnown, CacheKnown, CallsKnown, Known, store
    <2>. QED  BY <2>3, <2>4 DEF VersionsInv
  <1>4. CASE Fetch(c)
    <2>. DEFINE r == IF code[f][n] = NoSource THEN NoRequest
                     ELSE [at |-> "fetched", fn |-> f, n |-> n, src |-> code[f][n]]
    <2>1. f \in Fn /\ n \in Numbers
      BY <1>1, <1>4 DEF Fetch, Calls, NoRequest
    <2>2. /\ r \in Calls \cup {NoRequest} /\ r.at # "running"
          /\ r.at = "fetched" => r.fn = f /\ r.n = n /\ r.src = code[f][n]
      BY <1>2, <2>1 DEF Calls, NoRequest
    <2>3. call' = [call EXCEPT ![c] = r] /\ UNCHANGED <<store, settings, cache, adm>>
      BY <1>4 DEF Fetch
    <2>4. r.at = "fetched" => Known(r.src, r.fn, r.n)
      BY <2>1, <2>2 DEF VersionsInv, CodeKnown
    <2>. HIDE DEF r
    <2>5. VersionsTypeOK' /\ ServedIsStored' /\ GoneServesNothing'
      BY <1>1, <2>2, <2>3 DEF VersionsInv, VersionsTypeOK, ServedIsStored, GoneServesNothing, store
    <2>6. CodeKnown' /\ CacheKnown' /\ CallsKnown'
      BY <1>1, <2>2, <2>3, <2>4 DEF VersionsInv, CodeKnown, CacheKnown, CallsKnown, Known, store
    <2>. QED  BY <2>5, <2>6 DEF VersionsInv
  <1>5. CASE Run(c)
    <2>. DEFINE prog == IF cache[f][n] = NoSource THEN src ELSE cache[f][n]
                r == [at |-> "running", fn |-> f, n |-> n, prog |-> prog]
    <2>1. f \in Fn /\ n \in Version /\ n \in Numbers /\ src \in Source
      BY <1>1, <1>5 DEF Run, Calls, NoRequest
    <2>2. Known(src, f, n) /\ Known(cache[f][n], f, n)
      BY <1>5, <2>1 DEF Run, VersionsInv, CallsKnown, CacheKnown
    <2>3. prog \in Source /\ Known(prog, f, n)
      BY <2>1, <2>2 DEF VersionsInv, VersionsTypeOK
    <2>4. r \in Calls /\ r.at = "running" /\ r.fn = f /\ r.n = n /\ r.prog = prog
      BY <2>1, <2>3 DEF Calls
    <2>5. /\ call' = [call EXCEPT ![c] = r] /\ cache' = [cache EXCEPT ![f][n] = prog]
          /\ UNCHANGED <<store, settings, adm>>
      BY <1>5 DEF Run, Slot
    <2>. HIDE DEF r, prog, f, n
    <2>6. VersionsTypeOK' /\ ServedIsStored' /\ GoneServesNothing'
      BY <1>1, <2>1, <2>3, <2>4, <2>5 DEF VersionsInv, VersionsTypeOK, ServedIsStored, GoneServesNothing, store
    <2>7. \A g \in Fn, m \in Numbers : cache'[g][m] = IF g = f /\ m = n THEN prog ELSE cache[g][m]
      BY <2>1, <2>5 DEF VersionsInv, VersionsTypeOK
    <2>8. CodeKnown' /\ CacheKnown' /\ CallsKnown'
      BY <1>1, <2>3, <2>4, <2>5, <2>7 DEF VersionsInv, CodeKnown, CacheKnown, CallsKnown, Known, store
    <2>. QED  BY <2>6, <2>8 DEF VersionsInv
  <1>6. CASE Return(c)
    <2>1. NoRequest.at = "idle"
      BY DEF NoRequest
    <2>2. VersionsTypeOK' /\ ServedIsStored' /\ GoneServesNothing'
      BY <1>1, <1>6 DEF VersionsInv, VersionsTypeOK, ServedIsStored, GoneServesNothing, store, Return
    <2>3. CodeKnown' /\ CacheKnown' /\ CallsKnown'
      BY <1>1, <1>6, <2>1 DEF VersionsInv, CodeKnown, CacheKnown, CallsKnown, Known, store, Return
    <2>. QED  BY <2>2, <2>3 DEF VersionsInv
  <1>. QED  BY <1>3, <1>4, <1>5, <1>6 DEF Invoke

LEMMA RestartVersionsInv ==
    ASSUME VersionsInv, VersionsRestart PROVE VersionsInv'
  <1>1. NoCode \in [Numbers -> Source \cup {NoSource}] /\ \A n \in Numbers : NoCode[n] = NoSource
    BY DEF NoCode
  <1>2. VersionsTypeOK' /\ ServedIsStored' /\ GoneServesNothing'
    BY <1>1 DEF VersionsInv, VersionsTypeOK, ServedIsStored, GoneServesNothing, store, VersionsRestart
  <1>3. CodeKnown' /\ CacheKnown' /\ CallsKnown'
    BY <1>1 DEF VersionsInv, CodeKnown, CacheKnown, CallsKnown, Known, store, VersionsRestart, NoRequest
  <1>. QED  BY <1>2, <1>3 DEF VersionsInv

-----------------------------------------------------------------------------
LEMMA NextVersionsInv == VersionsInv /\ [VersionsNext]_versionsVars => VersionsInv'
  <1>. SUFFICES ASSUME VersionsInv, [VersionsNext]_versionsVars PROVE VersionsInv'
    OBVIOUS
  <1>0. 0 \in Numbers /\ Version \subseteq Numbers
    BY VersionsAssumption DEF Numbers, Version
  <1>1. CASE \E p \in Admin : Ask(p)
    <2>. PICK p \in Admin : Ask(p)
      BY <1>1
    <2>1. CASE \E f \in Fn, act \in BOOLEAN : DeployRead(p, f, act)
      BY <2>1, RequestVersionsInv
    <2>2. CASE \E f \in Fn, n \in Version : Activate(p, f, n) \/ DeleteVersion(p, f, n)
      BY <1>0, <2>2, ActivateVersionsInv, DeletesVersionsInv
    <2>3. CASE \E f \in Fn : DeleteFunction(p, f)
      BY <1>0, <2>3, DeletesVersionsInv
    <2>4. CASE \E next \in Settings : AskSettings(p, next)
      BY <2>4, RequestVersionsInv
    <2>. QED  BY <2>1, <2>2, <2>3, <2>4 DEF Ask
  <1>2. CASE \E p \in Admin : Proceed(p)
    BY <1>2, DeployVersionsInv, PruneVersionsInv, RequestVersionsInv DEF Proceed
  <1>3. CASE \E c \in Caller : Invoke(c)
    BY <1>3, InvokeVersionsInv
  <1>4. CASE VersionsRestart
    BY <1>4, RestartVersionsInv
  <1>5. CASE UNCHANGED versionsVars
    <2>1. VersionsTypeOK' /\ ServedIsStored' /\ GoneServesNothing'
      BY <1>5 DEF versionsVars, store, VersionsInv, VersionsTypeOK, ServedIsStored, GoneServesNothing
    <2>2. CodeKnown' /\ CacheKnown' /\ CallsKnown'
      BY <1>5 DEF versionsVars, store, VersionsInv, CodeKnown, CacheKnown, CallsKnown, Known
    <2>. QED  BY <2>1, <2>2 DEF VersionsInv
  <1>. QED  BY <1>1, <1>2, <1>3, <1>4, <1>5 DEF VersionsNext

LEMMA VersionsInductive == VersionsSpec => []VersionsInv
  BY InitVersionsInv, NextVersionsInv, PTL DEF VersionsSpec

\* Every variable keeps its type: every call that runs runs some source.
THEOREM VersionsTyped == VersionsSpec => []VersionsTypeOK
  <1>1. VersionsInv => VersionsTypeOK
    BY DEF VersionsInv
  <1>. QED  BY <1>1, VersionsInductive, PTL

\* The version a function serves is never pruned or deleted from under it, and
\* its history lists what is stored, for any number of admins.
THEOREM ServedStaysStored == VersionsSpec => []ServedIsStored
  <1>1. VersionsInv => ServedIsStored
    BY DEF VersionsInv
  <1>. QED  BY <1>1, VersionsInductive, PTL

\* A call runs a program deployed under the name and number it looked up.
THEOREM CallsRunTheirVersion == VersionsSpec => []RunsItsVersion
  <1>1. VersionsInv => RunsItsVersion
    <2>. SUFFICES ASSUME VersionsInv, NEW c \in Caller, call[c].at = "running"
                  PROVE  born[call[c].prog] = [fn |-> call[c].fn, n |-> call[c].n]
      BY DEF RunsItsVersion
    <2>1. call[c].prog \in Source
      BY DEF VersionsInv, VersionsTypeOK, Calls, NoRequest
    <2>. QED  BY <2>1, VersionsAssumption DEF VersionsInv, CallsKnown, Known
  <1>. QED  BY <1>1, VersionsInductive, PTL

-----------------------------------------------------------------------------
(* The newest version *)

LEMMA NewestExists ==
    ASSUME NEW h \in SUBSET Version, NEW n \in h
    PROVE  \E m \in h : n <= m /\ \A j \in h : j <= m
  <1>. DEFINE S == {MaxVersion - j : j \in h}
  <1>1. \A j \in h : j \in Nat /\ MaxVersion - j \in Nat
    BY VersionsAssumption DEF Version
  <1>2. S \in SUBSET Nat /\ MaxVersion - n \in S
    BY <1>1
  <1>3. \E k \in S : \A i \in S : k <= i
    <2>. DEFINE R == OpToRel(<, Nat)
    <2>1. IsWellFoundedOn(R, Nat)
      BY NatLessThanWellFounded
    <2>2. \A x, y \in Nat : x < y => <<x, y>> \in R
      BY DEF OpToRel
    <2>. HIDE DEF R, S
    <2>3. PICK k \in S : \A i \in S : ~ (<<i, k>> \in R)
      BY <1>2, <2>1, WFMin
    <2>4. k \in Nat /\ \A i \in S : i \in Nat
      BY <1>2
    <2>5. \A i \in S : ~ (i < k)
      BY <2>2, <2>3, <2>4
    <2>6. \A i \in S : k <= i
      BY <2>4, <2>5
    <2>. QED  BY <2>6
  <1>4. PICK m \in h : \A j \in h : MaxVersion - m <= MaxVersion - j
    BY <1>3
  <1>5. \A j \in h : j <= m
    BY <1>1, <1>4, VersionsAssumption
  <1>6. n <= m
    BY <1>5
  <1>. QED  BY <1>5, <1>6

LEMMA KeptKeepsNewest ==
    ASSUME NEW h \in SUBSET Version, NEW a, NEW keep \in Keeps, NEW n \in h
    PROVE  \E m \in Kept(h, a, keep) : n <= m
  <1>1. PICK m \in h : n <= m /\ \A j \in h : j <= m
    BY NewestExists
  <1>2. {j \in h : j > m} = {}
    <2>1. \A j \in h : j \in Nat /\ ~ (j > m)
      BY <1>1 DEF Version
    <2>. QED  BY <2>1
  <1>3. Cardinality({j \in h : j > m}) < keep
    BY <1>2, FS_EmptySet, VersionsAssumption
  <1>4. m \in Kept(h, a, keep)
    BY <1>1, <1>3 DEF Kept
  <1>. QED  BY <1>1, <1>4

LEMMA NewestStep ==
    ASSUME VersionsTypeOK, [VersionsNext]_versionsVars
    PROVE  \A f \in Fn : (\E p \in Admin : adm[p].at \in {"deploy", "prune"} /\ adm'[p] # adm[p])
                 => \A n \in hist[f] : \E m \in hist'[f] : n <= m
  <1>. SUFFICES ASSUME NEW f \in Fn, NEW p \in Admin, adm[p].at \in {"deploy", "prune"}, adm'[p] # adm[p],
                       NEW n \in hist[f]
                PROVE  \E m \in hist'[f] : n <= m
    OBVIOUS
  <1>1. hist[f] \in SUBSET Version /\ n \in Nat /\ n <= n
    BY DEF VersionsTypeOK, Version
  <1>2. adm[p] \in Requests /\ adm \in [Admin -> Requests \cup {NoRequest}]
    BY DEF VersionsTypeOK, NoRequest
  <1>3. CASE hist' = hist
    BY <1>1, <1>3
  <1>4. CASE \E s \in Source, v \in Version : Deploy(p, s, v)
    <2>. PICK s \in Source, v \in Version : Deploy(p, s, v)
      BY <1>4
    <2>. DEFINE g == adm[p].fn
                h == hist[g] \cup {v}
                a == IF adm[p].act THEN v ELSE active[g]
    <2>1. g \in Fn /\ adm[p].keep \in Keeps /\ h \in SUBSET Version
      BY <1>2 DEF Deploy, Requests, VersionsTypeOK
    <2>2. hist' = [hist EXCEPT ![g] = Kept(h, a, adm[p].keep)]
      BY DEF Deploy
    <2>. HIDE DEF h, a
    <2>3. CASE f = g
      <3>1. n \in h /\ hist'[f] = Kept(h, a, adm[p].keep)
        BY <2>1, <2>2, <2>3 DEF h, VersionsTypeOK
      <3>. QED  BY <2>1, <3>1, KeptKeepsNewest
    <2>4. CASE f # g
      BY <1>1, <2>1, <2>2, <2>4 DEF VersionsTypeOK
    <2>. QED  BY <2>3, <2>4
  <1>5. CASE Prune(p)
    <2>1. adm[p].keep \in Keeps /\ hist'[f] = Kept(hist[f], active[f], adm[p].keep)
      BY <1>2, <1>5 DEF Prune, Pruned, Requests, VersionsTypeOK
    <2>. QED  BY <1>1, <2>1, KeptKeepsNewest
  <1>6. ASSUME NEW q \in Admin, q # p, Ask(q) \/ Proceed(q) PROVE FALSE
    BY <1>2, <1>6 DEF Ask, DeployRead, Activate, DeleteVersion, DeleteFunction, AskSettings,
         Proceed, Deploy, DropCache, Undefault, Check, WriteSettings, HookPrune, Prune, ClearCache
  <1>7. ASSUME Ask(p) PROVE FALSE
    BY <1>7 DEF Ask, DeployRead, Activate, DeleteVersion, DeleteFunction, AskSettings, NoRequest
  <1>8. ASSUME Proceed(p) PROVE Prune(p) \/ \E s \in Source, v \in Version : Deploy(p, s, v)
    BY <1>8 DEF Proceed, DropCache, Undefault, Check, WriteSettings, HookPrune, ClearCache
  <1>9. ASSUME NEW c \in Caller, Invoke(c) PROVE hist' = hist
    BY <1>9 DEF Invoke, ResolveCall, Fetch, Run, Return, store
  <1>10. VersionsRestart \/ UNCHANGED versionsVars => hist' = hist
    BY DEF VersionsRestart, versionsVars, store
  <1>. QED  BY <1>3, <1>4, <1>5, <1>6, <1>7, <1>8, <1>9, <1>10 DEF VersionsNext

\* Whatever a deploy or a prune drops, the newest number of every function stays
\* or a newer one takes its place: retention alone makes no number free again.
THEOREM RetentionKeepsNewest == VersionsSpec => NewestOutlivesRetention
  <1>1. VersionsTypeOK /\ [VersionsNext]_versionsVars => [\A f \in Fn :
            (\E p \in Admin : adm[p].at \in {"deploy", "prune"} /\ adm'[p] # adm[p])
                => \A n \in hist[f] : \E m \in hist'[f] : n <= m]_versionsVars
    BY NewestStep
  <1>. QED  BY <1>1, VersionsTyped, PTL DEF VersionsSpec, NewestOutlivesRetention

-----------------------------------------------------------------------------
(* Requests one after the other *)

LEMMA VersionsFinite ==
    ASSUME NEW h \in SUBSET Version
    PROVE  IsFiniteSet(h)
  <1>1. 1 \in Int /\ MaxVersion \in Int
    BY VersionsAssumption
  <1>2. IsFiniteSet(Version)
    BY <1>1, FS_Interval DEF Version
  <1>. QED  BY <1>2, FS_Subset

LEMMA KeepsAreNumbers ==
    ASSUME VersionsTypeOK
    PROVE  settings.keep \in Nat \ {0} /\ settings.keep <= settings.keep
  <1>1. settings.keep \in Keeps
    BY DEF VersionsTypeOK, Settings
  <1>2. settings.keep \in Nat \ {0}
    BY <1>1, VersionsAssumption
  <1>. QED  BY <1>2

\* Fewer than `keep` numbers of h are newer than the oldest that has fewer than `keep`
\* newer ones: with it there are `keep`, and one more is being served.
LEMMA KeptBounded ==
    ASSUME NEW h \in SUBSET Version, NEW a, NEW keep \in Nat \ {0}
    PROVE  Cardinality(Kept(h, a, keep)) <= keep + 1
  <1>. DEFINE Newer(n) == {m \in h : m > n}
              S == {n \in h : Cardinality(Newer(n)) < keep}
  <1>1. IsFiniteSet(h)
    BY VersionsFinite
  <1>2. \A n \in h : n \in Nat
    BY DEF Version
  <1>3. \A n \in h : IsFiniteSet(Newer(n)) /\ Newer(n) \subseteq h
    BY <1>1, FS_Subset
  <1>4. IsFiniteSet(S) /\ Cardinality(S) <= keep /\ Cardinality(S) \in Nat
    <2>1. CASE S = {}
      <3>1. IsFiniteSet(S) /\ Cardinality(S) = 0
        BY <2>1, FS_EmptySet
      <3>. HIDE DEF S
      <3>. QED  BY <3>1
    <2>2. CASE S # {}
      <3>1. PICK x \in S : \A n \in S : x <= n
        <4>. DEFINE R == OpToRel(<, Nat)
        <4>1. IsWellFoundedOn(R, Nat)
          BY NatLessThanWellFounded
        <4>2. \A i, j \in Nat : i < j => <<i, j>> \in R
          BY DEF OpToRel
        <4>3. S \in SUBSET Nat
          BY <1>2
        <4>. HIDE DEF R, S
        <4>4. PICK x \in S : \A i \in S : ~ (<<i, x>> \in R)
          BY <2>2, <4>1, <4>3, WFMin
        <4>5. x \in Nat /\ \A i \in S : i \in Nat /\ ~ (i < x)
          BY <4>2, <4>3, <4>4
        <4>6. \A i \in S : x <= i
          BY <4>5
        <4>. QED  BY <4>4, <4>6
      <3>2. x \in h /\ Cardinality(Newer(x)) < keep
        BY <3>1
      <3>3. IsFiniteSet(Newer(x)) /\ Cardinality(Newer(x)) \in Nat
        BY <1>3, <3>2, FS_CardinalityType
      <3>4. x \notin Newer(x)
        BY <1>2, <3>2
      <3>5. S \subseteq Newer(x) \cup {x}
        BY <1>2, <3>1
      <3>. HIDE DEF Newer, S
      <3>6. IsFiniteSet(Newer(x) \cup {x}) /\ Cardinality(Newer(x) \cup {x}) = Cardinality(Newer(x)) + 1
        BY <3>3, <3>4, FS_AddElement
      <3>7. IsFiniteSet(S) /\ Cardinality(S) <= Cardinality(Newer(x) \cup {x})
        BY <3>5, <3>6, FS_Subset
      <3>8. Cardinality(S) \in Nat
        BY <3>7, FS_CardinalityType
      <3>. QED  BY <3>2, <3>3, <3>6, <3>7, <3>8
    <2>. QED  BY <2>1, <2>2
  <1>5. Kept(h, a, keep) \subseteq S \cup {a}
    BY DEF Kept
  <1>. HIDE DEF S
  <1>6. IsFiniteSet(S \cup {a}) /\ Cardinality(S \cup {a}) <= Cardinality(S) + 1
    BY <1>4, FS_AddElement
  <1>7. /\ Cardinality(Kept(h, a, keep)) <= Cardinality(S \cup {a}) /\ Cardinality(S \cup {a}) \in Nat
        /\ Cardinality(Kept(h, a, keep)) \in Nat
    BY <1>5, <1>6, FS_Subset, FS_CardinalityType
  <1>. QED  BY <1>4, <1>6, <1>7

Within(h, keep) == \A f \in Fn : Cardinality(h[f]) <= keep + 1
Has(names, d) == d \in names \cup {NoDefault}

\* What a request has still to see to, when it is at q: retention under a setting just
\* lowered, a default that names what it deleted.
Order(q, s, h, names) ==
    /\ q.at \in {"idle", "deploy", "drop", "undefault", "asked", "checked", "clear"} => Within(h, s.keep)
    /\ q.at \in {"idle", "deploy", "saved", "prune", "clear"} => Has(names, s.default)
    /\ q.at \in {"deploy", "prune"} => q.keep = s.keep
    /\ q.at \in {"drop", "undefault"} => Has(names \cup {q.fn}, s.default)
    /\ q.at = "drop" => q.gone \/ Has(names, s.default)
    /\ q.at = "asked" => Has(names, s.default) \/ q.next.default = NoDefault
    /\ q.at = "checked" => Has(names, q.next.default) /\ q.before = s
    /\ q.at = "saved" => Within(h, q.before.keep)

InOrder ==
    /\ Admin = {} => Order(NoRequest, settings, hist, fns)
    /\ \A p \in Admin : Order(adm[p], settings, hist, fns)

\* Fewer versions are still few enough, and so are as many under a larger setting.
LEMMA WithinLess ==
    ASSUME NEW h \in [Fn -> SUBSET Version], NEW g \in [Fn -> SUBSET Version],
           \A f \in Fn : g[f] \subseteq h[f],
           NEW i \in Nat, NEW j \in Nat, i <= j, Within(h, i)
    PROVE  Within(g, j)
  <1>. SUFFICES ASSUME NEW f \in Fn PROVE Cardinality(g[f]) <= j + 1
    BY DEF Within
  <1>1. h[f] \in SUBSET Version /\ g[f] \subseteq h[f] /\ Cardinality(h[f]) <= i + 1
    BY DEF Within
  <1>2. IsFiniteSet(h[f])
    BY <1>1, VersionsFinite
  <1>3. IsFiniteSet(g[f]) /\ Cardinality(g[f]) <= Cardinality(h[f])
    BY <1>1, <1>2, FS_Subset
  <1>4. Cardinality(g[f]) \in Nat /\ Cardinality(h[f]) \in Nat
    BY <1>2, <1>3, FS_CardinalityType
  <1>. QED  BY <1>1, <1>3, <1>4

LEMMA InitInOrder == VersionsInit => InOrder
  <1>. SUFFICES ASSUME VersionsInit PROVE InOrder
    OBVIOUS
  <1>1. DefaultKeep \in Nat
    BY VersionsAssumption
  <1>2. \A f \in Fn : Cardinality(hist[f]) = 0
    BY FS_EmptySet DEF VersionsInit
  <1>3. Within(hist, DefaultKeep)
    BY <1>1, <1>2 DEF Within
  <1>4. settings.keep = DefaultKeep /\ settings.default = NoDefault
    BY DEF VersionsInit
  <1>5. Order(NoRequest, settings, hist, fns)
    BY <1>3, <1>4 DEF Order, NoRequest, Has
  <1>. QED  BY <1>5 DEF VersionsInit, InOrder

\* Whose request it is, and that there is no other.
LEMMA OneGoesOn ==
    ASSUME OneAtOnce, VersionsTypeOK, NEW p \in Admin, NEW q, adm' = [adm EXCEPT ![p] = q],
           Order(q, settings', hist', fns')
    PROVE  InOrder'
  BY DEF OneAtOnce, VersionsTypeOK, InOrder

LEMMA AskInOrder ==
    ASSUME OneAtOnce, VersionsTypeOK, InOrder, NEW p \in Admin, Ask(p)
    PROVE  InOrder'
  <1>1. adm[p] = NoRequest /\ Order(NoRequest, settings, hist, fns) /\ adm \in [Admin -> Requests \cup {NoRequest}]
    BY DEF Ask, DeployRead, Activate, DeleteVersion, DeleteFunction, AskSettings, InOrder, VersionsTypeOK
  <1>2. Within(hist, settings.keep) /\ Has(fns, settings.default)
    BY <1>1 DEF Order, NoRequest
  <1>3. settings.keep \in Nat /\ hist \in [Fn -> SUBSET Version] /\ settings.keep <= settings.keep
    BY KeepsAreNumbers DEF VersionsTypeOK
  <1>4. CASE \E f \in Fn, act \in BOOLEAN : DeployRead(p, f, act)
    <2>1. PICK f \in Fn, act \in BOOLEAN : DeployRead(p, f, act)
      BY <1>4
    <2>. DEFINE q == [at |-> "deploy", fn |-> f, act |-> act, keep |-> settings.keep]
    <2>2. q.at = "deploy" /\ q.keep = settings.keep
      OBVIOUS
    <2>3. adm' = [adm EXCEPT ![p] = q] /\ UNCHANGED <<fns, hist, settings>>
      BY <2>1 DEF DeployRead, store
    <2>. HIDE DEF q
    <2>4. Order(q, settings', hist', fns')
      BY <1>2, <2>2, <2>3 DEF Order
    <2>. QED  BY <2>3, <2>4, OneGoesOn
  <1>5. CASE \E f \in Fn, n \in Version : Activate(p, f, n)
    <2>1. PICK f \in Fn, n \in Version : Activate(p, f, n)
      BY <1>5
    <2>. DEFINE q == [at |-> "drop", fn |-> f, gone |-> FALSE]
    <2>2. q.at = "drop" /\ q.fn = f
      OBVIOUS
    <2>3. adm' = [adm EXCEPT ![p] = q] /\ UNCHANGED <<fns, hist, settings>>
      BY <2>1 DEF Activate
    <2>. HIDE DEF q
    <2>4. Order(q, settings', hist', fns')
      BY <1>2, <2>2, <2>3 DEF Order, Has
    <2>. QED  BY <2>3, <2>4, OneGoesOn
  <1>6. CASE \E f \in Fn, n \in Version : DeleteVersion(p, f, n)
    <2>1. PICK f \in Fn, n \in Version : DeleteVersion(p, f, n)
      BY <1>6
    <2>2. hist' \in [Fn -> SUBSET Version] /\ \A g \in Fn : hist'[g] \subseteq hist[g]
      BY <1>3, <2>1 DEF DeleteVersion
    <2>3. UNCHANGED <<fns, settings, adm>>
      BY <2>1 DEF DeleteVersion
    <2>4. Within(hist', settings.keep)
      BY <1>2, <1>3, <2>2, WithinLess
    <2>5. Order(NoRequest, settings', hist', fns')
      BY <1>2, <2>3, <2>4 DEF Order, NoRequest
    <2>6. adm' = [adm EXCEPT ![p] = NoRequest]
      BY <1>1, <2>3
    <2>. QED  BY <2>5, <2>6, OneGoesOn
  <1>7. CASE \E f \in Fn : DeleteFunction(p, f)
    <2>1. PICK f \in Fn : DeleteFunction(p, f)
      BY <1>7
    <2>. DEFINE q == [at |-> "drop", fn |-> f, gone |-> TRUE]
    <2>2. q.at = "drop" /\ q.fn = f /\ q.gone
      OBVIOUS
    <2>3. adm' = [adm EXCEPT ![p] = q] /\ settings' = settings /\ fns' = fns \ {f}
      BY <2>1 DEF DeleteFunction
    <2>4. hist' \in [Fn -> SUBSET Version] /\ \A g \in Fn : hist'[g] \subseteq hist[g]
      BY <1>3, <2>1 DEF DeleteFunction
    <2>5. Within(hist', settings.keep)
      BY <1>2, <1>3, <2>4, WithinLess
    <2>. HIDE DEF q
    <2>6. Order(q, settings', hist', fns')
      BY <1>2, <2>2, <2>3, <2>5 DEF Order, Has
    <2>. QED  BY <2>3, <2>6, OneGoesOn
  <1>8. CASE \E next \in Settings : AskSettings(p, next)
    <2>1. PICK next \in Settings : AskSettings(p, next)
      BY <1>8
    <2>. DEFINE q == [at |-> "asked", next |-> next]
    <2>2. q.at = "asked"
      OBVIOUS
    <2>3. adm' = [adm EXCEPT ![p] = q] /\ UNCHANGED <<fns, hist, settings>>
      BY <2>1 DEF AskSettings, store
    <2>. HIDE DEF q
    <2>4. Order(q, settings', hist', fns')
      BY <1>2, <2>2, <2>3 DEF Order
    <2>. QED  BY <2>3, <2>4, OneGoesOn
  <1>. QED  BY <1>4, <1>5, <1>6, <1>7, <1>8 DEF Ask

LEMMA StoreInOrder ==
    ASSUME OneAtOnce, VersionsTypeOK, InOrder, NEW p \in Admin,
           Prune(p) \/ \E s \in Source, n \in Version : Deploy(p, s, n)
    PROVE  InOrder'
  <1>0. adm[p].at \in {"deploy", "prune"}
    BY DEF Prune, Deploy
  <1>1. /\ adm[p] \in Requests /\ Order(adm[p], settings, hist, fns) /\ adm[p].at \in {"deploy", "prune"}
        /\ hist \in [Fn -> SUBSET Version] /\ fns \subseteq Fn /\ settings.keep \in Nat \ {0}
    <2>1. adm[p] \in Requests
      BY <1>0 DEF VersionsTypeOK, NoRequest
    <2>. QED  BY <1>0, <2>1, KeepsAreNumbers DEF VersionsTypeOK, InOrder
  <1>2. adm[p].keep = settings.keep /\ Has(fns, settings.default)
    BY <1>1 DEF Order
  <1>3. CASE Prune(p)
    <2>1. hist' = [f \in Fn |-> Kept(hist[f], active[f], settings.keep)] /\ UNCHANGED <<fns, settings>>
      BY <1>2, <1>3 DEF Prune, Pruned
    <2>2. Within(hist', settings.keep)
      <3>1. ASSUME NEW f \in Fn PROVE Cardinality(hist'[f]) <= settings.keep + 1
        <4>1. hist[f] \in SUBSET Version /\ settings.keep \in Nat \ {0}
          BY <1>1
        <4>2. Cardinality(Kept(hist[f], active[f], settings.keep)) <= settings.keep + 1
          BY <4>1, KeptBounded
        <4>. QED  BY <2>1, <4>2
      <3>. QED  BY <3>1 DEF Within
    <2>3. PICK q \in {NoRequest, [at |-> "clear"]} : adm' = [adm EXCEPT ![p] = q]
      BY <1>3 DEF Prune
    <2>4. Order(q, settings', hist', fns')
      BY <1>2, <2>1, <2>2, <2>3 DEF Order, NoRequest
    <2>. QED  BY <2>3, <2>4, OneGoesOn
  <1>4. CASE \E s \in Source, n \in Version : Deploy(p, s, n)
    <2>1. PICK s \in Source, n \in Version : Deploy(p, s, n)
      BY <1>4
    <2>. DEFINE f == adm[p].fn
                a == IF adm[p].act THEN n ELSE active[f]
                h == hist[f] \cup {n}
                q == [at |-> "drop", fn |-> f, gone |-> FALSE]
    <2>2. /\ hist' = [hist EXCEPT ![f] = Kept(h, a, settings.keep)]
          /\ settings' = settings /\ fns' = fns \cup {f} /\ adm' = [adm EXCEPT ![p] = q]
      BY <1>2, <2>1 DEF Deploy
    <2>3. q.at = "drop" /\ q.fn = f
      OBVIOUS
    <2>4. f \in Fn /\ h \in SUBSET Version
      <3>1. adm[p].at = "deploy"
        BY <2>1 DEF Deploy
      <3>2. adm[p].fn \in Fn
        BY <1>1, <3>1 DEF Requests
      <3>3. hist[adm[p].fn] \in SUBSET Version
        BY <1>1, <3>2
      <3>. QED  BY <3>2, <3>3
    <2>. HIDE DEF a, h, q, f
    <2>5. Cardinality(Kept(h, a, settings.keep)) <= settings.keep + 1
      BY <1>1, <2>4, KeptBounded
    <2>6. Within(hist', settings.keep)
      <3>1. Within(hist, settings.keep)
        BY <1>1, <2>1 DEF Order, Deploy
      <3>2. hist'[f] = Kept(h, a, settings.keep) /\ \A g \in Fn : g # f => hist'[g] = hist[g]
        BY <1>1, <2>2, <2>4
      <3>. QED  BY <2>5, <3>1, <3>2 DEF Within
    <2>7. Order(q, settings', hist', fns')
      BY <1>2, <2>2, <2>3, <2>6 DEF Order, Has
    <2>. QED  BY <2>2, <2>7, OneGoesOn
  <1>. QED  BY <1>3, <1>4

\* What leaves the store alone: the cache, the config and what is left to do.
LEMMA ProceedInOrder ==
    ASSUME OneAtOnce, VersionsTypeOK, InOrder, NEW p \in Admin,
           DropCache(p) \/ Undefault(p) \/ Check(p) \/ WriteSettings(p) \/ HookPrune(p) \/ ClearCache(p)
    PROVE  InOrder'
  <1>. DEFINE a == adm[p]
  <1>1. /\ a \in Requests /\ Order(a, settings, hist, fns)
        /\ hist \in [Fn -> SUBSET Version] /\ settings \in Settings
        /\ hist' = hist /\ fns' = fns
    BY DEF VersionsTypeOK, InOrder, NoRequest, store, DropCache, Undefault, Check, WriteSettings, HookPrune, ClearCache
  <1>2. \A s \in Settings : s.keep \in Nat
    BY VersionsAssumption DEF Settings
  <1>3. CASE DropCache(p)
    <2>. DEFINE u == [at |-> "undefault", fn |-> a.fn]
    <2>1. a.at = "drop" /\ settings' = settings /\ adm' = [adm EXCEPT ![p] = IF a.gone THEN u ELSE NoRequest]
      BY <1>3 DEF DropCache
    <2>2. u.at = "undefault" /\ u.fn = a.fn
      OBVIOUS
    <2>. HIDE DEF u, a
    <2>3. Order(IF a.gone THEN u ELSE NoRequest, settings', hist', fns')
      BY <1>1, <2>1, <2>2 DEF Order, NoRequest
    <2>. QED  BY <2>1, <2>3, OneGoesOn
  <1>4. CASE Undefault(p)
    <2>. DEFINE next == [settings EXCEPT !.default = NoDefault]
                u == [at |-> "asked", next |-> next]
                q == IF settings.default = a.fn THEN u ELSE NoRequest
    <2>1. a.at = "undefault" /\ settings' = settings /\ adm' = [adm EXCEPT ![p] = q]
      BY <1>4 DEF Undefault
    <2>2. u.at = "asked" /\ u.next.default = NoDefault
      BY <1>1 DEF Settings
    <2>. HIDE DEF u, a
    <2>3. Order(q, settings', hist', fns')
      BY <1>1, <2>1, <2>2 DEF Order, NoRequest, Has
    <2>. HIDE DEF q
    <2>. QED  BY <2>1, <2>3, OneGoesOn
  <1>5. CASE Check(p)
    <2>. DEFINE u == [at |-> "checked", next |-> a.next, before |-> settings]
                q == IF a.next.default \in fns \cup {NoDefault} THEN u ELSE NoRequest
    <2>1. a.at = "asked" /\ settings' = settings /\ adm' = [adm EXCEPT ![p] = q]
      BY <1>5 DEF Check, store
    <2>2. u.at = "checked" /\ u.next = a.next /\ u.before = settings
      OBVIOUS
    <2>. HIDE DEF u, a
    <2>3. Order(q, settings', hist', fns')
      BY <1>1, <2>1, <2>2 DEF Order, NoRequest, Has
    <2>. HIDE DEF q
    <2>. QED  BY <2>1, <2>3, OneGoesOn
  <1>6. CASE WriteSettings(p)
    <2>. DEFINE u == [at |-> "saved", before |-> a.before]
    <2>1. a.at = "checked" /\ settings' = a.next /\ adm' = [adm EXCEPT ![p] = u]
      BY <1>6 DEF WriteSettings
    <2>2. u.at = "saved" /\ u.before = a.before
      OBVIOUS
    <2>. HIDE DEF u, a
    <2>3. Order(u, settings', hist', fns')
      BY <1>1, <2>1, <2>2 DEF Order
    <2>. QED  BY <2>1, <2>3, OneGoesOn
  <1>7. CASE HookPrune(p)
    <2>. DEFINE u == [at |-> "prune", keep |-> settings.keep]
                q == IF settings.keep < a.before.keep THEN u ELSE NoRequest
    <2>1. a.at = "saved" /\ settings' = settings /\ adm' = [adm EXCEPT ![p] = q]
      BY <1>7 DEF HookPrune
    <2>2. u.at = "prune" /\ u.keep = settings.keep
      OBVIOUS
    <2>3. Has(fns, settings.default) /\ Within(hist, a.before.keep) /\ a.before \in Settings
      BY <1>1, <2>1 DEF Order, Requests
    <2>4. a.before.keep \in Nat /\ settings.keep \in Nat
      BY <1>1, <1>2, <2>3
    <2>5. ~(settings.keep < a.before.keep) => Within(hist, settings.keep)
      BY <1>1, <2>3, <2>4, WithinLess
    <2>. HIDE DEF u, a
    <2>6. Order(q, settings', hist', fns')
      BY <1>1, <2>1, <2>2, <2>3, <2>5 DEF Order, NoRequest
    <2>. HIDE DEF q
    <2>. QED  BY <2>1, <2>6, OneGoesOn
  <1>8. CASE ClearCache(p)
    <2>1. a.at = "clear" /\ settings' = settings /\ adm' = [adm EXCEPT ![p] = NoRequest]
      BY <1>8 DEF ClearCache
    <2>2. Order(NoRequest, settings', hist', fns')
      BY <1>1, <2>1 DEF Order, NoRequest
    <2>. QED  BY <2>1, <2>2, OneGoesOn
  <1>. QED  BY <1>3, <1>4, <1>5, <1>6, <1>7, <1>8

LEMMA NextInOrder == OneAtOnce /\ VersionsTypeOK /\ InOrder /\ [VersionsNext]_versionsVars => InOrder'
  <1>. SUFFICES ASSUME OneAtOnce, VersionsTypeOK, InOrder, [VersionsNext]_versionsVars PROVE InOrder'
    OBVIOUS
  <1>1. ASSUME NEW p \in Admin, Ask(p) PROVE InOrder'
    BY <1>1, AskInOrder
  <1>2. ASSUME NEW p \in Admin, Proceed(p) PROVE InOrder'
    BY <1>2, StoreInOrder, ProceedInOrder DEF Proceed
  <1>3. CASE UNCHANGED <<fns, hist, settings, adm>>
    BY <1>3 DEF InOrder
  <1>4. ASSUME NEW c \in Caller, Invoke(c) PROVE UNCHANGED <<fns, hist, settings, adm>>
    BY <1>4 DEF Invoke, ResolveCall, Fetch, Run, Return, store
  <1>5. CASE VersionsRestart
    <2>1. \A p \in Admin : adm[p] = NoRequest /\ adm'[p] = NoRequest
      BY <1>5 DEF VersionsRestart, OneAtOnce
    <2>2. UNCHANGED <<fns, hist, settings>>
      BY <1>5 DEF VersionsRestart, store
    <2>. QED  BY <2>1, <2>2 DEF InOrder
  <1>6. CASE UNCHANGED versionsVars
    BY <1>3, <1>6 DEF versionsVars, store
  <1>. QED  BY <1>1, <1>2, <1>3, <1>4, <1>5, <1>6 DEF VersionsNext

\* With its requests through, one after the other, an instance has few enough versions
\* and a default function that is there, whatever was deployed, deleted and saved.
THEOREM VersionsSettle == OneAtOnce => (VersionsSpec => [](RetentionAtRest /\ DefaultDeployed))
  <1>. SUFFICES ASSUME OneAtOnce PROVE VersionsSpec => [](RetentionAtRest /\ DefaultDeployed)
    OBVIOUS
  <1>1. InOrder => RetentionAtRest /\ DefaultDeployed
    <2>. SUFFICES ASSUME InOrder, AtRest PROVE Within(hist, settings.keep) /\ Has(fns, settings.default)
      BY DEF RetentionAtRest, DefaultDeployed, Within, Has
    <2>1. Order(NoRequest, settings, hist, fns)
      BY DEF InOrder, AtRest
    <2>. QED  BY <2>1 DEF Order, NoRequest
  <1>2. VersionsTypeOK /\ InOrder /\ [VersionsNext]_versionsVars => InOrder'
    BY NextInOrder
  <1>. QED  BY <1>1, <1>2, InitInOrder, VersionsTyped, PTL DEF VersionsSpec

\* What is served is stored and what runs was asked for, in every interleaving.
\* Requests that come one after the other leave the rest in order as well.
THEOREM VersionsKept == VersionsSpec => []VersionsHold
  <1>1. CASE OneAtOnce
    <2>1. VersionsTypeOK /\ ServedIsStored /\ RunsItsVersion /\ RetentionAtRest /\ DefaultDeployed => VersionsHold
      BY DEF VersionsHold
    <2>2. VersionsSpec => [](RetentionAtRest /\ DefaultDeployed)
      BY <1>1, VersionsSettle
    <2>. QED  BY <2>1, <2>2, VersionsTyped, ServedStaysStored, CallsRunTheirVersion, PTL
  <1>2. CASE ~OneAtOnce
    <2>1. VersionsTypeOK /\ ServedIsStored /\ RunsItsVersion => VersionsHold
      BY <1>2 DEF VersionsHold
    <2>. QED  BY <2>1, VersionsTyped, ServedStaysStored, CallsRunTheirVersion, PTL
  <1>. QED  BY <1>1, <1>2

-----------------------------------------------------------------------------
(* The page *)

Pair == [user: PageUsers, live: BOOLEAN, fresh: BOOLEAN]
Session == [user: PageUsers, pair: 1..MaxPairs]
Askers == PageCalls \cup {Shared}
Answers == {"none", "ok", "refused", "lost"}
Exclusive == {"signIn", "signOut", "refresh"}
Tokens == [op: {"signOut", "refresh", "getToken", "me"}, pair: 0..MaxPairs, answer: Answers, got: 0..MaxPairs]
SignIns == [op: {"signIn"}, user: PageUsers, pair: 0..MaxPairs, answer: Answers, got: 0..MaxPairs]
Waits == [op: {"wait"}, then: {"use", "me"}]
Asks == Tokens \cup SignIns \cup Waits \cup {Quiet}

Rotating(r) == r.op \in {"refresh", "getToken"}

\* A sign-in, a sign-out and a refresh of the app's are alone; getToken's refresh is shared.
Apart(o) ==
    /\ \A c \in PageCalls : o[c].op # "getToken" /\ (o[c].op \in Exclusive => \A d \in Askers \ {c} : o[d] = Quiet)
    /\ o[Shared].op \in {"none", "getToken"}

\* A pair that is refused has its cause on record.
Usable(n, P, X) == n \in DOMAIN P /\ (P[n].live \/ n \in X)

\* What a request may answer is still about the session the page has.
Belongs(r, s, P, X) ==
    /\ r.op = "signIn" /\ r.answer = "ok" => Usable(r.got, P, X) /\ P[r.got].user = r.user
    /\ r.op \in {"signOut", "me"} => r.pair \in DOMAIN P
    /\ r.op = "me" /\ s # SignedOut => P[r.pair].user = s.user
    /\ Rotating(r) =>
         /\ s # SignedOut /\ r.pair = s.pair
         /\ r.answer = "ok" => Usable(r.got, P, X) /\ P[r.got].user = s.user
         /\ r.answer = "refused" => r.pair \in X

\* The pair held can be used, or its successor is on its way.
Held(s, o, P, X) ==
    s # SignedOut =>
      /\ s \in Session /\ s.pair \in DOMAIN P /\ s.user = P[s.pair].user
      /\ Usable(s.pair, P, X) \/ \E c \in Askers : Rotating(o[c]) /\ o[c].answer = "ok"

Issued(P, X) == P \in Seq(Pair) /\ Len(P) <= MaxPairs /\ X \subseteq DOMAIN P

Fits(s, o, P, X) ==
    /\ Issued(P, X) /\ o \in [Askers -> Asks] /\ Apart(o)
    /\ Held(s, o, P, X)
    /\ \A c \in Askers : Belongs(o[c], s, P, X)

PageInv == stored = session /\ Fits(session, out, pairs, spoilt)

LEMMA NobodyIsHeld == ASSUME NEW u, NEW n PROVE [user |-> u, pair |-> n] # SignedOut
  <1>. DEFINE s == [user |-> u, pair |-> n]
  <1>1. "user" \in DOMAIN s
    OBVIOUS
  <1>2. DOMAIN SignedOut = {}
    BY DEF SignedOut
  <1>. HIDE DEF s
  <1>3. s # SignedOut
    BY <1>1, <1>2
  <1>. QED  BY <1>3 DEF s

LEMMA InitPageInv == PageInit => PageInv
  <1>. SUFFICES ASSUME PageInit PROVE PageInv
    OBVIOUS
  <1>. USE DEF PageInit, Askers
  <1>1. Issued(pairs, spoilt)
    BY PageAssumption DEF Issued
  <1>2. \A c \in Askers : out[c] = Quiet
    OBVIOUS
  <1>3. Quiet.op = "none"
    BY DEF Quiet
  <1>4. out \in [Askers -> Asks]
    BY DEF Asks
  <1>5. Apart(out)
    BY <1>2, <1>3, PageAssumption DEF Apart, Exclusive
  <1>6. \A c \in Askers : Belongs(out[c], session, pairs, spoilt)
    BY <1>2, <1>3 DEF Belongs, Rotating
  <1>. QED  BY <1>1, <1>4, <1>5, <1>6 DEF PageInv, Fits, Held

\* What is known of a request, whatever its form.
LEMMA AskFields ==
    ASSUME NEW r \in Asks, r.op \notin {"none", "wait"}
    PROVE  /\ r.pair \in 0..MaxPairs /\ r.got \in 0..MaxPairs /\ r.answer \in Answers
           /\ r.op = "signIn" => r \in SignIns
           /\ r.op # "signIn" => r \in Tokens
  <1>1. r \in Tokens \/ r \in SignIns
    BY DEF Asks, Waits, Quiet
  <1>. QED  BY <1>1 DEF Tokens, SignIns

LEMMA RequestAsks ==
    ASSUME NEW n \in 0..MaxPairs, NEW op \in {"signOut", "refresh", "getToken", "me"}
    PROVE  /\ Request(op, n) \in Asks /\ Request(op, n).op = op /\ Request(op, n).pair = n
           /\ Request(op, n).answer = "none" /\ Request(op, n).got = 0
  BY PageAssumption DEF Request, Asks, Tokens, Answers

LEMMA SignInAsks ==
    ASSUME NEW u \in PageUsers
    PROVE  /\ SignInRequest(u) \in Asks /\ SignInRequest(u).op = "signIn"
           /\ SignInRequest(u).answer = "none"
  BY PageAssumption DEF SignInRequest, Asks, SignIns, Answers

\* An answer changes nothing else of a request.
Reply(r, a, n) == [r EXCEPT !.answer = a, !.got = n]

LEMMA AnsweredAsk ==
    ASSUME NEW r \in Asks, r.op \notin {"none", "wait"}, NEW a \in Answers, NEW n \in 0..MaxPairs
    PROVE  /\ Reply(r, a, n) \in Asks /\ Reply(r, a, n).op = r.op /\ Reply(r, a, n).pair = r.pair
           /\ Reply(r, a, n).answer = a /\ Reply(r, a, n).got = n
           /\ r.op = "signIn" => Reply(r, a, n).user = r.user
  <1>1. CASE r.op = "signIn"
    <2>1. r \in SignIns
      BY <1>1, AskFields
    <2>. QED  BY <1>1, <2>1 DEF SignIns, Asks, Reply
  <1>2. CASE r.op # "signIn"
    <2>1. r \in Tokens
      BY <1>2, AskFields
    <2>. QED  BY <1>2, <2>1 DEF Tokens, Asks, Reply
  <1>. QED  BY <1>1, <1>2

-----------------------------------------------------------------------------
\* The server's tokens go on: nobody's pair changes hands, and what dies has a cause.
Lasts(P, X, Q, Y) ==
    /\ X \subseteq Y /\ DOMAIN P \subseteq DOMAIN Q
    /\ \A n \in DOMAIN P : Q[n].user = P[n].user /\ (P[n].live => Q[n].live \/ n \in Y)

LEMMA UsableLasts ==
    ASSUME NEW P, NEW X, NEW Q, NEW Y, Lasts(P, X, Q, Y), NEW n, Usable(n, P, X)
    PROVE  Usable(n, Q, Y) /\ Q[n].user = P[n].user
  BY DEF Lasts, Usable

LEMMA BelongsLasts ==
    ASSUME NEW P, NEW X, NEW Q, NEW Y, Lasts(P, X, Q, Y), NEW r, NEW s, Belongs(r, s, P, X)
    PROVE  Belongs(r, s, Q, Y)
  <1>1. r.op = "signIn" /\ r.answer = "ok" => Usable(r.got, Q, Y) /\ Q[r.got].user = r.user
    BY UsableLasts DEF Belongs
  <1>2. r.op \in {"signOut", "me"} => r.pair \in DOMAIN Q
    BY DEF Belongs, Lasts
  <1>3. r.op = "me" /\ s # SignedOut => Q[r.pair].user = s.user
    BY DEF Belongs, Lasts
  <1>4. Rotating(r) => s # SignedOut /\ r.pair = s.pair
    BY DEF Belongs
  <1>5. Rotating(r) /\ r.answer = "ok" => Usable(r.got, Q, Y) /\ Q[r.got].user = s.user
    BY UsableLasts DEF Belongs
  <1>6. Rotating(r) /\ r.answer = "refused" => r.pair \in Y
    BY DEF Belongs, Lasts
  <1>. QED  BY <1>1, <1>2, <1>3, <1>4, <1>5, <1>6 DEF Belongs

LEMMA FitsLasts ==
    ASSUME NEW s, NEW o, NEW P, NEW X, NEW Q, NEW Y, Fits(s, o, P, X), Issued(Q, Y), Lasts(P, X, Q, Y)
    PROVE  Fits(s, o, Q, Y)
  <1>1. \A c \in Askers : Belongs(o[c], s, Q, Y)
    BY BelongsLasts DEF Fits
  <1>2. Held(s, o, Q, Y)
    <2>. SUFFICES ASSUME s # SignedOut PROVE s \in Session /\ s.pair \in DOMAIN Q /\ s.user = Q[s.pair].user
                           /\ (Usable(s.pair, Q, Y) \/ \E c \in Askers : Rotating(o[c]) /\ o[c].answer = "ok")
      BY DEF Held
    <2>1. s \in Session /\ s.pair \in DOMAIN P /\ s.user = P[s.pair].user
      BY DEF Fits, Held
    <2>2. s.pair \in DOMAIN Q /\ s.user = Q[s.pair].user
      BY <2>1 DEF Lasts
    <2>3. Usable(s.pair, P, X) => Usable(s.pair, Q, Y)
      BY UsableLasts
    <2>. QED  BY <2>1, <2>2, <2>3 DEF Fits, Held
  <1>. QED  BY <1>1, <1>2 DEF Fits

\* A request of the page changes, and the others do not.
LEMMA AskChanges ==
    ASSUME NEW s, NEW o, NEW P, NEW X, Fits(s, o, P, X), NEW c \in Askers, NEW r \in Asks, Belongs(r, s, P, X),
           Apart([o EXCEPT ![c] = r]),
           s # SignedOut /\ Rotating(o[c]) /\ o[c].answer = "ok" =>
             Usable(s.pair, P, X) \/ (Rotating(r) /\ r.answer = "ok")
    PROVE  Fits(s, [o EXCEPT ![c] = r], P, X)
  <1>. DEFINE v == [o EXCEPT ![c] = r]
  <1>1. v \in [Askers -> Asks] /\ v[c] = r /\ \A d \in Askers \ {c} : v[d] = o[d]
    BY DEF Fits
  <1>2. Apart(v)
    OBVIOUS
  <1>. HIDE DEF v
  <1>3. \A d \in Askers : Belongs(v[d], s, P, X)
    BY <1>1 DEF Fits
  <1>4. Held(s, v, P, X)
    <2>. SUFFICES ASSUME s # SignedOut, ~Usable(s.pair, P, X)
                  PROVE  \E d \in Askers : Rotating(v[d]) /\ v[d].answer = "ok"
      BY DEF Held, Fits
    <2>1. PICK d \in Askers : Rotating(o[d]) /\ o[d].answer = "ok"
      BY DEF Held, Fits
    <2>2. CASE d = c
      BY <2>1, <2>2, <1>1
    <2>3. CASE d # c
      BY <2>1, <2>3, <1>1
    <2>. QED  BY <2>2, <2>3
  <1>5. Fits(s, v, P, X)
    BY <1>1, <1>2, <1>3, <1>4 DEF Fits
  <1>. QED  BY <1>5 DEF v

LEMMA ApartStays ==
    ASSUME NEW o \in [Askers -> Asks], Apart(o), NEW c \in Askers, NEW r \in Asks,
           (r.op = o[c].op /\ o[c].op # "none") \/ r = Quiet
    PROVE  Apart([o EXCEPT ![c] = r])
  <1>. DEFINE v == [o EXCEPT ![c] = r]
  <1>1. v[c] = r /\ \A d \in Askers \ {c} : v[d] = o[d]
    OBVIOUS
  <1>2. Quiet.op = "none" /\ PageCalls \subseteq Askers /\ Shared \in Askers
    BY DEF Quiet, Askers
  <1>. HIDE DEF v
  <1>3. \A d \in PageCalls : v[d].op # "getToken"
    BY <1>1, <1>2 DEF Apart
  <1>4. v[Shared].op \in {"none", "getToken"}
    BY <1>1, <1>2 DEF Apart
  <1>5. ASSUME NEW d \in PageCalls, v[d].op \in Exclusive, NEW e \in Askers \ {d} PROVE v[e] = Quiet
    <2>1. o[d].op \in Exclusive
      BY <1>1, <1>2, <1>5 DEF Exclusive
    <2>2. o[e] = Quiet
      BY <2>1 DEF Apart
    <2>. QED  BY <2>2, <1>1, <1>2
  <1>6. Apart(v)
    BY <1>3, <1>4, <1>5 DEF Apart
  <1>. QED  BY <1>6 DEF v
-----------------------------------------------------------------------------
\* Without overlap, whoever is alone sends the only request there is.
LEMMA AloneFits ==
    ASSUME NEW s, NEW o, NEW P, NEW X, Fits(s, o, P, X), \A d \in Askers : o[d] = Quiet,
           NEW c \in PageCalls, NEW r \in Asks, r.op \in Exclusive,
           NEW t, t = s \/ t = SignedOut, Belongs(r, t, P, X)
    PROVE  Fits(t, [o EXCEPT ![c] = r], P, X)
  <1>. DEFINE v == [o EXCEPT ![c] = r]
  <1>1. Quiet.op = "none" /\ PageCalls \subseteq Askers /\ Shared \in Askers \ PageCalls
    BY PageAssumption DEF Quiet, Askers
  <1>2. v \in [Askers -> Asks] /\ v[c] = r /\ \A d \in Askers \ {c} : v[d] = Quiet
    BY <1>1 DEF Fits
  <1>. HIDE DEF v
  <1>3. Apart(v)
    BY <1>1, <1>2 DEF Apart, Exclusive
  <1>4. \A d \in Askers : Belongs(v[d], t, P, X)
    BY <1>1, <1>2 DEF Belongs, Rotating
  <1>5. Held(t, v, P, X)
    BY <1>1 DEF Fits, Held, Rotating
  <1>6. Fits(t, v, P, X)
    BY <1>2, <1>3, <1>4, <1>5 DEF Fits
  <1>. QED  BY <1>6 DEF v

LEMMA PairHeld ==
    ASSUME NEW s, NEW o, NEW P, NEW X, Fits(s, o, P, X), s # SignedOut
    PROVE  s.pair \in DOMAIN P /\ s.pair \in 0..MaxPairs /\ s.user = P[s.pair].user
  BY PageAssumption DEF Fits, Held, Session

LEMMA SignInSends ==
    ASSUME PageInv, ~Overlap, NEW c \in PageCalls, NEW u \in PageUsers, PageSignIn(c, u)
    PROVE  PageInv'
  <1>. DEFINE r == SignInRequest(u)
  <1>1. DOMAIN out = Askers
    BY DEF PageInv, Fits
  <1>2. \A d \in Askers : out[d] = Quiet
    BY <1>1 DEF PageSignIn, Alone, Free
  <1>3. r \in Asks /\ r.op = "signIn" /\ r.answer = "none"
    BY SignInAsks
  <1>4. out' = [out EXCEPT ![c] = r] /\ session' = session /\ stored' = stored /\ pairs' = pairs /\ spoilt' = spoilt
    BY DEF PageSignIn, Sends
  <1>. HIDE DEF r
  <1>5. Belongs(r, session, pairs, spoilt) /\ r.op \in Exclusive
    BY <1>3 DEF Belongs, Rotating, Exclusive
  <1>6. Fits(session, out, pairs, spoilt)
    BY DEF PageInv
  <1>7. Fits(session, [out EXCEPT ![c] = r], pairs, spoilt)
    BY <1>2, <1>3, <1>5, <1>6, AloneFits
  <1>. QED  BY <1>4, <1>7 DEF PageInv

LEMMA SignOutSends ==
    ASSUME PageInv, ~Overlap, NEW c \in PageCalls, PageSignOut(c)
    PROVE  PageInv'
  <1>. DEFINE r == Request("signOut", session.pair)
  <1>1. Fits(session, out, pairs, spoilt) /\ DOMAIN out = Askers /\ session # SignedOut
    BY DEF PageInv, Fits, PageSignOut
  <1>2. \A d \in Askers : out[d] = Quiet
    BY <1>1 DEF PageSignOut, Alone, Free
  <1>3. session.pair \in DOMAIN pairs /\ session.pair \in 0..MaxPairs
    BY <1>1, PairHeld
  <1>4. r \in Asks /\ r.op = "signOut" /\ r.answer = "none" /\ r.pair = session.pair
    BY <1>3, RequestAsks
  <1>5. out' = [out EXCEPT ![c] = r] /\ session' = SignedOut /\ stored' = SignedOut /\ pairs' = pairs /\ spoilt' = spoilt
    BY DEF PageSignOut, Sends, SaveSession
  <1>. HIDE DEF r
  <1>6. Belongs(r, SignedOut, pairs, spoilt) /\ r.op \in Exclusive
    BY <1>3, <1>4 DEF Belongs, Rotating, Exclusive
  <1>7. Fits(SignedOut, [out EXCEPT ![c] = r], pairs, spoilt)
    BY <1>1, <1>2, <1>4, <1>6, AloneFits
  <1>. QED  BY <1>5, <1>7 DEF PageInv

LEMMA RefreshSends ==
    ASSUME PageInv, ~Overlap, NEW c \in PageCalls, PageRefresh(c)
    PROVE  PageInv'
  <1>. DEFINE r == Request("refresh", session.pair)
  <1>1. Fits(session, out, pairs, spoilt) /\ DOMAIN out = Askers /\ session # SignedOut
    BY DEF PageInv, Fits, PageRefresh
  <1>2. \A d \in Askers : out[d] = Quiet
    BY <1>1 DEF PageRefresh, Alone, Free
  <1>3. session.pair \in DOMAIN pairs /\ session.pair \in 0..MaxPairs
    BY <1>1, PairHeld
  <1>4. r \in Asks /\ r.op = "refresh" /\ r.answer = "none" /\ r.pair = session.pair
    BY <1>3, RequestAsks
  <1>5. out' = [out EXCEPT ![c] = r] /\ session' = session /\ stored' = stored /\ pairs' = pairs /\ spoilt' = spoilt
    BY DEF PageRefresh, Sends
  <1>. HIDE DEF r
  <1>6. Belongs(r, session, pairs, spoilt) /\ r.op \in Exclusive
    BY <1>1, <1>3, <1>4 DEF Belongs, Rotating, Exclusive
  <1>7. Fits(session, [out EXCEPT ![c] = r], pairs, spoilt)
    BY <1>1, <1>2, <1>4, <1>6, AloneFits
  <1>. QED  BY <1>5, <1>7 DEF PageInv

\* A request that is not exclusive may start beside others that are not.
LEMMA ApartWidens ==
    ASSUME NEW o \in [Askers -> Asks], Apart(o), \A d \in PageCalls : o[d].op \notin Exclusive,
           NEW c \in Askers, NEW r \in Asks, r.op \notin Exclusive,
           IF c = Shared THEN r.op = "getToken" ELSE r.op # "getToken"
    PROVE  Apart([o EXCEPT ![c] = r]) /\ \A d \in PageCalls : [o EXCEPT ![c] = r][d].op \notin Exclusive
  <1>. DEFINE v == [o EXCEPT ![c] = r]
  <1>1. PageCalls \subseteq Askers /\ Shared \in Askers \ PageCalls
    BY PageAssumption DEF Askers
  <1>2. v[c] = r /\ \A d \in Askers \ {c} : v[d] = o[d]
    OBVIOUS
  <1>. HIDE DEF v
  <1>3. \A d \in PageCalls : v[d].op \notin Exclusive /\ v[d].op # "getToken"
    BY <1>1, <1>2 DEF Apart
  <1>4. v[Shared].op \in {"none", "getToken"}
    BY <1>1, <1>2 DEF Apart
  <1>5. Apart(v)
    BY <1>3, <1>4 DEF Apart
  <1>. QED  BY <1>3, <1>5 DEF v

LEMMA GetTokenSends ==
    ASSUME PageInv, ~Overlap, NEW c \in PageCalls, NEW then \in {"use", "me"}, GetToken(c, then)
    PROVE  PageInv'
  <1>1. Fits(session, out, pairs, spoilt) /\ out \in [Askers -> Asks] /\ Apart(out) /\ session # SignedOut
    BY DEF PageInv, Fits, GetToken
  <1>2. session' = session /\ stored' = session /\ pairs' = pairs /\ spoilt' = spoilt /\ out[c] = Quiet
    BY DEF GetToken, Free, PageInv
  <1>3. \A d \in PageCalls : out[d].op \notin Exclusive
    BY DEF GetToken, MayAsk, Exclusive
  <1>4. session.pair \in DOMAIN pairs /\ session.pair \in 0..MaxPairs /\ session.user = pairs[session.pair].user
    BY <1>1, PairHeld
  <1>5. Quiet.op = "none" /\ c \in Askers /\ Shared \in Askers /\ c # Shared
    BY PageAssumption DEF Quiet, Askers
  <1>6. CASE pairs[session.pair].fresh
    <2>. DEFINE r == Request("me", session.pair)
    <2>1. out' = [out EXCEPT ![c] = r]
      BY <1>6 DEF GetToken, Sends
    <2>2. r \in Asks /\ r.op = "me" /\ r.pair = session.pair /\ r.answer = "none"
      BY <1>4, RequestAsks
    <2>. HIDE DEF r
    <2>3. Belongs(r, session, pairs, spoilt) /\ r.op \notin Exclusive
      BY <1>4, <2>2 DEF Belongs, Rotating, Exclusive
    <2>4. Apart([out EXCEPT ![c] = r])
      BY <1>1, <1>3, <1>5, <2>2, <2>3, ApartWidens
    <2>5. ~Rotating(out[c])
      BY <1>2, <1>5 DEF Rotating
    <2>6. Fits(session, [out EXCEPT ![c] = r], pairs, spoilt)
      BY <1>1, <1>5, <2>2, <2>3, <2>4, <2>5, AskChanges
    <2>. QED  BY <1>2, <2>1, <2>6 DEF PageInv
  <1>7. CASE ~pairs[session.pair].fresh
    <2>. DEFINE r == Waiting(then)
               q == Request("getToken", session.pair)
               o == [out EXCEPT ![c] = r]
    <2>1. out' = IF out[Shared] = Quiet THEN [o EXCEPT ![Shared] = q] ELSE o
      BY <1>1, <1>5, <1>7 DEF GetToken
    <2>2. r \in Asks /\ r.op = "wait"
      BY DEF Waiting, Asks, Waits
    <2>3. q \in Asks /\ q.op = "getToken" /\ q.pair = session.pair /\ q.answer = "none"
      BY <1>4, RequestAsks
    <2>. HIDE DEF r, q
    <2>4. Belongs(r, session, pairs, spoilt) /\ r.op \notin Exclusive
      BY <2>2 DEF Belongs, Rotating, Exclusive
    <2>5. Belongs(q, session, pairs, spoilt) /\ q.op \notin Exclusive
      BY <1>1, <2>3 DEF Belongs, Rotating, Exclusive
    <2>6. Apart(o) /\ \A d \in PageCalls : o[d].op \notin Exclusive
      BY <1>1, <1>3, <1>5, <2>2, <2>4, ApartWidens
    <2>7. ~Rotating(out[c])
      BY <1>2, <1>5 DEF Rotating
    <2>8. Fits(session, o, pairs, spoilt)
      BY <1>1, <1>5, <2>2, <2>4, <2>6, <2>7, AskChanges
    <2>9. o[Shared] = out[Shared] /\ o \in [Askers -> Asks]
      BY <1>1, <1>5, <2>2
    <2>. HIDE DEF o
    <2>10. CASE out[Shared] = Quiet
      <3>1. Apart([o EXCEPT ![Shared] = q])
        BY <1>5, <2>3, <2>5, <2>6, <2>9, ApartWidens
      <3>2. ~Rotating(o[Shared])
        BY <1>5, <2>9, <2>10 DEF Rotating
      <3>3. Fits(session, [o EXCEPT ![Shared] = q], pairs, spoilt)
        BY <1>5, <2>3, <2>5, <2>8, <3>1, <3>2, AskChanges
      <3>. QED  BY <1>2, <2>1, <2>10, <3>3 DEF PageInv
    <2>11. CASE out[Shared] # Quiet
      BY <1>2, <2>1, <2>8, <2>11 DEF PageInv
    <2>. QED  BY <2>10, <2>11
  <1>. QED  BY <1>6, <1>7

-----------------------------------------------------------------------------
\* The server's steps: an answer to what was sent, while the tokens go on.
LEMMA AnswerFits ==
    ASSUME NEW s, NEW o, NEW P, NEW X, Fits(s, o, P, X), NEW Q, NEW Y, Issued(Q, Y), Lasts(P, X, Q, Y),
           NEW c \in Askers, o[c].op \notin {"none", "wait"}, NEW a \in Answers, NEW n \in 0..MaxPairs,
           o[c].op = "signIn" /\ a = "ok" => Usable(n, Q, Y) /\ Q[n].user = o[c].user,
           Rotating(o[c]) =>
             /\ a # "ok" /\ (a = "refused" => o[c].pair \in Y)
             /\ o[c].answer = "ok" => o[c].pair \in Y
    PROVE  Fits(s, [o EXCEPT ![c] = Reply(o[c], a, n)], Q, Y)
  <1>. DEFINE r == Reply(o[c], a, n)
  <1>1. Fits(s, o, Q, Y)
    BY FitsLasts
  <1>2. o \in [Askers -> Asks] /\ o[c] \in Asks /\ Apart(o)
    BY <1>1 DEF Fits
  <1>3. /\ r \in Asks /\ r.op = o[c].op /\ r.pair = o[c].pair /\ r.answer = a /\ r.got = n
        /\ r.op = "signIn" => r.user = o[c].user
    BY <1>2, AnsweredAsk
  <1>. HIDE DEF r
  <1>4. Belongs(o[c], s, Q, Y)
    BY <1>1 DEF Fits
  <1>5. Belongs(r, s, Q, Y)
    BY <1>3, <1>4 DEF Belongs, Rotating
  <1>6. Apart([o EXCEPT ![c] = r])
    BY <1>2, <1>3, ApartStays
  <1>7. s # SignedOut /\ Rotating(o[c]) /\ o[c].answer = "ok" => Usable(s.pair, Q, Y)
    BY <1>1, <1>4 DEF Belongs, Usable, Fits, Held
  <1>8. Fits(s, [o EXCEPT ![c] = r], Q, Y)
    BY <1>1, <1>3, <1>5, <1>6, <1>7, AskChanges
  <1>. QED  BY <1>8 DEF r

LEMMA PairFields ==
    ASSUME NEW P \in Seq(Pair), NEW n \in DOMAIN P
    PROVE  P[n] \in Pair /\ n \in 1..Len(P)
  OBVIOUS

LEMMA DeadLasts ==
    ASSUME NEW X, Issued(pairs, X), NEW n \in DOMAIN pairs
    PROVE  Issued(Dead(n), X \cup {n}) /\ Lasts(pairs, X, Dead(n), X \cup {n})
  <1>1. \A m \in DOMAIN pairs : pairs[m] \in Pair
    BY DEF Issued
  <1>. DEFINE dead == [pairs[n] EXCEPT !.live = FALSE]
  <1>2. dead \in Pair /\ dead.user = pairs[n].user
    BY <1>1 DEF Pair
  <1>3. Dead(n) = [pairs EXCEPT ![n] = dead]
    BY DEF Dead
  <1>. HIDE DEF dead
  <1>4. /\ DOMAIN Dead(n) = DOMAIN pairs /\ Len(Dead(n)) = Len(pairs) /\ Dead(n) \in Seq(Pair)
        /\ \A m \in DOMAIN pairs : Dead(n)[m].user = pairs[m].user /\ (m # n => Dead(n)[m] = pairs[m])
    BY <1>1, <1>2, <1>3 DEF Issued
  <1>. QED  BY <1>4 DEF Issued, Lasts

LEMMA NewPairLasts ==
    ASSUME NEW P, NEW X, Issued(P, X), Len(P) < MaxPairs, NEW u \in PageUsers
    PROVE  LET Q == Append(P, NewPair(u))
               n == Len(P) + 1 IN
             /\ Issued(Q, X) /\ Lasts(P, X, Q, X) /\ Usable(n, Q, X) /\ Q[n].user = u /\ n \in 0..MaxPairs
             /\ \A m \in DOMAIN P : Q[m] = P[m]
  <1>. DEFINE Q == Append(P, NewPair(u))
              n == Len(P) + 1
  <1>1. NewPair(u) \in Pair /\ NewPair(u).user = u /\ NewPair(u).live
    BY DEF NewPair, Pair
  <1>2. /\ Q \in Seq(Pair) /\ Len(Q) = n /\ n \in Nat /\ n <= MaxPairs /\ Q[n] = NewPair(u)
        /\ DOMAIN Q = DOMAIN P \cup {n} /\ \A m \in DOMAIN P : Q[m] = P[m]
    BY <1>1, PageAssumption DEF Issued
  <1>. HIDE DEF Q, n
  <1>3. Issued(Q, X) /\ Lasts(P, X, Q, X) /\ Usable(n, Q, X) /\ Q[n].user = u /\ n \in 0..MaxPairs
    BY <1>1, <1>2, PageAssumption DEF Issued, Lasts, Usable
  <1>. QED  BY <1>2, <1>3 DEF Q, n

LEMMA ServesSignInFits ==
    ASSUME PageInv, NEW c \in Askers, ServesSignIn(c)
    PROVE  PageInv'
  <1>1. Fits(session, out, pairs, spoilt) /\ Issued(pairs, spoilt) /\ out[c] \in Asks
    BY DEF PageInv, Fits
  <1>2. out[c].op = "signIn"
    BY DEF ServesSignIn
  <1>3. out[c].user \in PageUsers
    BY <1>1, <1>2, AskFields DEF SignIns
  <1>. DEFINE u == out[c].user
              Q == Append(pairs, NewPair(u))
              n == Len(pairs) + 1
  <1>4. Len(pairs) < MaxPairs
    BY DEF ServesSignIn
  <1>5. /\ out' = [out EXCEPT ![c] = Reply(out[c], "ok", n)]
        /\ pairs' = Q /\ session' = session /\ stored' = stored /\ spoilt' = spoilt
    BY DEF ServesSignIn, Answered, Sends, Reply
  <1>6. Issued(Q, spoilt) /\ Lasts(pairs, spoilt, Q, spoilt) /\ Usable(n, Q, spoilt) /\ Q[n].user = u /\ n \in 0..MaxPairs
    BY <1>1, <1>3, <1>4, NewPairLasts
  <1>. HIDE DEF Q, n
  <1>7. Fits(session, [out EXCEPT ![c] = Reply(out[c], "ok", n)], Q, spoilt)
    BY <1>1, <1>2, <1>6, AnswerFits DEF Rotating, Answers
  <1>. QED  BY <1>5, <1>7 DEF PageInv

LEMMA ServesSignOutFits ==
    ASSUME PageInv, NEW c \in Askers, ServesSignOut(c)
    PROVE  PageInv'
  <1>1. Fits(session, out, pairs, spoilt) /\ Issued(pairs, spoilt) /\ Belongs(out[c], session, pairs, spoilt)
    BY DEF PageInv, Fits
  <1>2. out[c].op = "signOut"
    BY DEF ServesSignOut
  <1>. DEFINE n == out[c].pair
              Q == Dead(n)
              Y == spoilt \cup {n}
  <1>3. n \in DOMAIN pairs
    BY <1>1, <1>2 DEF Belongs
  <1>4. /\ out' = [out EXCEPT ![c] = Reply(out[c], "ok", 0)]
        /\ pairs' = Q /\ session' = session /\ stored' = stored /\ spoilt' = Y
    BY DEF ServesSignOut, Answered, Sends, Reply
  <1>5. Issued(Q, Y) /\ Lasts(pairs, spoilt, Q, Y)
    BY <1>1, <1>3, DeadLasts
  <1>. HIDE DEF Q, Y
  <1>6. "ok" \in Answers /\ 0 \in 0..MaxPairs /\ ~Rotating(out[c]) /\ out[c].op \notin {"none", "wait", "signIn"}
    BY <1>2, PageAssumption DEF Answers, Rotating
  <1>7. Fits(session, [out EXCEPT ![c] = Reply(out[c], "ok", 0)], Q, Y)
    BY <1>1, <1>5, <1>6, AnswerFits
  <1>. QED  BY <1>4, <1>7 DEF PageInv

LEMMA LastsReflexive ==
    ASSUME NEW P, NEW X, NEW Y, X \subseteq Y
    PROVE  Lasts(P, X, P, Y)
  BY DEF Lasts

LEMMA ServesMeFits ==
    ASSUME PageInv, NEW c \in Askers, ServesMe(c)
    PROVE  PageInv'
  <1>1. Fits(session, out, pairs, spoilt) /\ Issued(pairs, spoilt)
    BY DEF PageInv, Fits
  <1>2. out[c].op = "me" /\ out[c].op \notin {"none", "wait", "signIn"} /\ ~Rotating(out[c])
    BY DEF ServesMe, Rotating
  <1>. DEFINE a == IF pairs[out[c].pair].fresh THEN "ok" ELSE "refused"
  <1>3. /\ out' = [out EXCEPT ![c] = Reply(out[c], a, 0)]
        /\ pairs' = pairs /\ session' = session /\ stored' = stored /\ spoilt' = spoilt
    BY DEF ServesMe, Answered, Sends, Reply
  <1>4. a \in Answers /\ 0 \in 0..MaxPairs
    BY PageAssumption DEF Answers
  <1>5. Lasts(pairs, spoilt, pairs, spoilt)
    BY LastsReflexive
  <1>. HIDE DEF a
  <1>6. Fits(session, [out EXCEPT ![c] = Reply(out[c], a, 0)], pairs, spoilt)
    BY <1>1, <1>2, <1>4, <1>5, AnswerFits
  <1>. QED  BY <1>3, <1>6 DEF PageInv

LEMMA LosesFits ==
    ASSUME PageInv, NEW c \in Askers, Loses(c)
    PROVE  PageInv'
  <1>1. /\ Fits(session, out, pairs, spoilt) /\ Issued(pairs, spoilt) /\ Belongs(out[c], session, pairs, spoilt)
        /\ Held(session, out, pairs, spoilt)
    BY DEF PageInv, Fits
  <1>2. out[c].op \notin {"none", "wait"}
    BY DEF Loses
  <1>3. /\ out' = [out EXCEPT ![c] = Reply(out[c], "lost", 0)]
        /\ pairs' = pairs /\ session' = session /\ stored' = stored
    BY DEF Loses, Answered, Sends, Reply
  <1>4. spoilt' = IF out[c].answer = "ok" /\ Rotating(out[c]) THEN spoilt \cup {out[c].pair} ELSE spoilt
    BY DEF Loses, Rotation, Rotating
  <1>. DEFINE Y == IF out[c].answer = "ok" /\ Rotating(out[c]) THEN spoilt \cup {out[c].pair} ELSE spoilt
  <1>5. Issued(pairs, Y) /\ spoilt \subseteq Y
    BY <1>1 DEF Issued, Belongs, Held
  <1>6. Lasts(pairs, spoilt, pairs, Y)
    BY <1>5, LastsReflexive
  <1>7. Rotating(out[c]) /\ out[c].answer = "ok" => out[c].pair \in Y
    OBVIOUS
  <1>. HIDE DEF Y
  <1>8. "lost" \in Answers /\ 0 \in 0..MaxPairs /\ "lost" # "ok" /\ "lost" # "refused"
    BY PageAssumption DEF Answers
  <1>9. Fits(session, [out EXCEPT ![c] = Reply(out[c], "lost", 0)], pairs, Y)
    BY <1>1, <1>2, <1>5, <1>6, <1>7, <1>8, AnswerFits
  <1>. QED  BY <1>3, <1>4, <1>9 DEF PageInv, Y

LEMMA RevokeFits ==
    ASSUME PageInv, NEW u \in PageUsers, RevokeUser(u)
    PROVE  PageInv'
  <1>1. Fits(session, out, pairs, spoilt) /\ Issued(pairs, spoilt)
    BY DEF PageInv, Fits
  <1>. DEFINE Q == [n \in DOMAIN pairs |-> IF pairs[n].user = u THEN [pairs[n] EXCEPT !.live = FALSE] ELSE pairs[n]]
              Y == spoilt \cup {n \in DOMAIN pairs : pairs[n].user = u}
  <1>2. pairs' = Q /\ spoilt' = Y /\ session' = session /\ stored' = stored /\ out' = out
    BY DEF RevokeUser
  <1>3. \A n \in DOMAIN pairs : pairs[n] \in Pair
    BY <1>1 DEF Issued
  <1>4. /\ DOMAIN Q = DOMAIN pairs
        /\ \A n \in DOMAIN pairs : Q[n] \in Pair /\ Q[n].user = pairs[n].user /\ (pairs[n].user # u => Q[n] = pairs[n])
    BY <1>3 DEF Pair
  <1>5. Q \in Seq(Pair) /\ Len(Q) = Len(pairs)
    BY <1>1, <1>4 DEF Issued
  <1>. HIDE DEF Q
  <1>6. Issued(Q, Y) /\ Lasts(pairs, spoilt, Q, Y)
    BY <1>1, <1>4, <1>5 DEF Issued, Lasts
  <1>7. Fits(session, out, Q, Y)
    BY <1>1, <1>6, FitsLasts
  <1>. QED  BY <1>2, <1>7 DEF PageInv

LEMMA StaleFits ==
    ASSUME PageInv, NEW n \in DOMAIN pairs, GrowsStale(n)
    PROVE  PageInv'
  <1>1. Fits(session, out, pairs, spoilt) /\ Issued(pairs, spoilt)
    BY DEF PageInv, Fits
  <1>. DEFINE Q == [pairs EXCEPT ![n].fresh = FALSE]
  <1>2. pairs' = Q /\ spoilt' = spoilt /\ session' = session /\ stored' = stored /\ out' = out
    BY DEF GrowsStale
  <1>3. \A m \in DOMAIN pairs : pairs[m] \in Pair
    BY <1>1 DEF Issued
  <1>. DEFINE stale == [pairs[n] EXCEPT !.fresh = FALSE]
  <1>4. stale \in Pair /\ stale.user = pairs[n].user /\ stale.live = pairs[n].live
    BY <1>3 DEF Pair
  <1>5. Q = [pairs EXCEPT ![n] = stale]
    OBVIOUS
  <1>. HIDE DEF stale, Q
  <1>6. /\ DOMAIN Q = DOMAIN pairs /\ Len(Q) = Len(pairs) /\ Q \in Seq(Pair)
        /\ \A m \in DOMAIN pairs : Q[m].user = pairs[m].user /\ Q[m].live = pairs[m].live
    BY <1>1, <1>3, <1>4, <1>5 DEF Issued
  <1>7. Issued(Q, spoilt) /\ Lasts(pairs, spoilt, Q, spoilt)
    BY <1>1, <1>6 DEF Issued, Lasts
  <1>8. Fits(session, out, Q, spoilt)
    BY <1>1, <1>7, FitsLasts
  <1>. QED  BY <1>2, <1>8 DEF PageInv, Q

\* One rotation at a time, and nothing beside it that changes who is signed in.
LEMMA OneRotation ==
    ASSUME NEW o, Apart(o), NEW c \in Askers, Rotating(o[c]), NEW d \in Askers, d # c
    PROVE  o[d].op \notin Exclusive \cup {"getToken"}
  <1>1. Quiet.op = "none" /\ Askers = PageCalls \cup {Shared} /\ Shared \notin PageCalls
    BY PageAssumption DEF Quiet, Askers
  <1>2. CASE c \in PageCalls
    BY <1>1, <1>2 DEF Apart, Exclusive, Rotating
  <1>3. CASE c = Shared
    <2>1. d \in PageCalls /\ o[c] # Quiet
      BY <1>1, <1>3 DEF Rotating
    <2>2. o[d].op # "getToken"
      BY <2>1 DEF Apart
    <2>3. o[d].op \notin Exclusive
      BY <1>3, <2>1 DEF Apart
    <2>. QED  BY <2>2, <2>3
  <1>. QED  BY <1>1, <1>2, <1>3

LEMMA RotationFits ==
    ASSUME NEW s, NEW o, NEW P, NEW X, Fits(s, o, P, X), NEW c \in Askers, Rotating(o[c]),
           NEW Q, Issued(Q, X), NEW n \in 0..MaxPairs, Usable(n, Q, X), Q[n].user = s.user,
           \A m \in DOMAIN P : m \in DOMAIN Q /\ Q[m].user = P[m].user
    PROVE  Fits(s, [o EXCEPT ![c] = Reply(o[c], "ok", n)], Q, X)
  <1>. DEFINE r == Reply(o[c], "ok", n)
              v == [o EXCEPT ![c] = r]
  <1>1. o \in [Askers -> Asks] /\ o[c] \in Asks /\ Apart(o) /\ Held(s, o, P, X) /\ \A d \in Askers : Belongs(o[d], s, P, X)
    BY DEF Fits
  <1>2. "ok" \in Answers /\ o[c].op \notin {"none", "wait", "signIn", "signOut", "me"}
    BY DEF Answers, Rotating
  <1>3. r \in Asks /\ r.op = o[c].op /\ r.pair = o[c].pair /\ r.answer = "ok" /\ r.got = n
    BY <1>1, <1>2, AnsweredAsk
  <1>4. s # SignedOut /\ r.pair = s.pair
    BY <1>1, <1>3 DEF Belongs
  <1>. HIDE DEF r
  <1>5. v \in [Askers -> Asks] /\ v[c] = r /\ \A d \in Askers \ {c} : v[d] = o[d]
    BY <1>1, <1>3
  <1>6. Apart(v)
    BY <1>1, <1>2, <1>3, ApartStays
  <1>. HIDE DEF v
  <1>7. Held(s, v, Q, X)
    BY <1>1, <1>3, <1>4, <1>5 DEF Held, Rotating
  <1>8. Belongs(r, s, Q, X)
    BY <1>2, <1>3, <1>4 DEF Belongs
  <1>9. ASSUME NEW d \in Askers, d # c PROVE Belongs(v[d], s, Q, X)
    <2>1. o[d].op \notin {"signIn", "signOut", "refresh", "getToken"}
      BY <1>1, <1>9, OneRotation DEF Exclusive
    <2>2. v[d] = o[d] /\ Belongs(o[d], s, P, X)
      BY <1>1, <1>5, <1>9
    <2>. QED  BY <2>1, <2>2 DEF Belongs, Rotating
  <1>10. Fits(s, v, Q, X)
    BY <1>5, <1>6, <1>7, <1>8, <1>9 DEF Fits
  <1>. QED  BY <1>10 DEF v, r

LEMMA RotatesFits ==
    ASSUME PageInv, NEW c \in Askers, Rotates(c)
    PROVE  PageInv'
  <1>1. /\ Fits(session, out, pairs, spoilt) /\ Issued(pairs, spoilt) /\ Belongs(out[c], session, pairs, spoilt)
        /\ Held(session, out, pairs, spoilt) /\ Apart(out)
    BY DEF PageInv, Fits
  <1>2. Rotating(out[c]) /\ out[c].op \notin {"none", "wait", "signIn"} /\ out[c].answer = "none"
    BY DEF Rotates, Rotation, Rotating, Sent
  <1>. DEFINE n == out[c].pair
  <1>3. session # SignedOut /\ n = session.pair /\ n \in DOMAIN pairs /\ session.user = pairs[n].user
    BY <1>1, <1>2 DEF Belongs, Held
  <1>4. session' = session /\ stored' = stored /\ spoilt' = spoilt
    BY DEF Rotates
  <1>. HIDE DEF n
  <1>5. CASE pairs[n].live
    <2>. DEFINE u == pairs[n].user
                Q == Append(Dead(n), NewPair(u))
                k == Len(pairs) + 1
    <2>1. Len(pairs) < MaxPairs /\ pairs' = Q /\ out' = [out EXCEPT ![c] = Reply(out[c], "ok", k)]
      BY <1>5 DEF Rotates, Answered, Sends, Reply, n
    <2>2. u \in PageUsers
      <3>1. pairs[n] \in Pair
        BY <1>1, <1>3, PairFields DEF Issued
      <3>. QED  BY <3>1 DEF Pair
    <2>3. Issued(Dead(n), spoilt) /\ DOMAIN Dead(n) = DOMAIN pairs /\ \A m \in DOMAIN pairs : Dead(n)[m].user = pairs[m].user
      <3>1. Issued(Dead(n), spoilt \cup {n}) /\ Lasts(pairs, spoilt, Dead(n), spoilt \cup {n})
        BY <1>1, <1>3, DeadLasts
      <3>2. DOMAIN Dead(n) = DOMAIN pairs
        BY DEF Dead
      <3>. QED  BY <3>1, <3>2 DEF Issued, Lasts
    <2>4. Len(Dead(n)) = Len(pairs)
      BY <1>1, <2>3 DEF Issued
    <2>5. /\ Issued(Q, spoilt) /\ Usable(k, Q, spoilt) /\ Q[k].user = u /\ k \in 0..MaxPairs
          /\ Lasts(Dead(n), spoilt, Q, spoilt)
      BY <2>1, <2>2, <2>3, <2>4, NewPairLasts
    <2>. HIDE DEF Q, k
    <2>6. \A m \in DOMAIN pairs : m \in DOMAIN Q /\ Q[m].user = pairs[m].user
      BY <2>3, <2>5 DEF Lasts
    <2>7. Fits(session, [out EXCEPT ![c] = Reply(out[c], "ok", k)], Q, spoilt)
      BY <1>1, <1>2, <1>3, <2>5, <2>6, RotationFits
    <2>. QED  BY <1>4, <2>1, <2>7 DEF PageInv
  <1>6. CASE ~pairs[n].live
    <2>1. pairs' = pairs /\ out' = [out EXCEPT ![c] = Reply(out[c], "refused", 0)]
      BY <1>6 DEF Rotates, Answered, Sends, Reply, n
    <2>2. \A d \in Askers : Rotating(out[d]) /\ out[d].answer = "ok" => FALSE
      <3>. SUFFICES ASSUME NEW d \in Askers, Rotating(out[d]), out[d].answer = "ok" PROVE FALSE
        OBVIOUS
      <3>1. d # c
        BY <1>2
      <3>2. out[d].op \notin Exclusive \cup {"getToken"}
        BY <1>1, <1>2, <3>1, OneRotation
      <3>. QED  BY <3>2 DEF Exclusive, Rotating
    <2>3. n \in spoilt
      BY <1>1, <1>3, <1>6, <2>2 DEF Held, Usable
    <2>4. "refused" \in Answers /\ 0 \in 0..MaxPairs /\ "refused" # "ok" /\ Lasts(pairs, spoilt, pairs, spoilt)
      BY PageAssumption, LastsReflexive DEF Answers
    <2>5. out[c].pair \in spoilt
      BY <2>3 DEF n
    <2>6. Fits(session, [out EXCEPT ![c] = Reply(out[c], "refused", 0)], pairs, spoilt)
      BY <1>1, <1>2, <2>4, <2>5, AnswerFits
    <2>. QED  BY <1>4, <2>1, <2>6 DEF PageInv
  <1>. QED  BY <1>5, <1>6

-----------------------------------------------------------------------------
\* A request ends.
LEMMA AskEnds ==
    ASSUME NEW s, NEW o, NEW P, NEW X, Fits(s, o, P, X), NEW c \in Askers, ~(Rotating(o[c]) /\ o[c].answer = "ok")
    PROVE  Fits(s, [o EXCEPT ![c] = Quiet], P, X)
  <1>1. o \in [Askers -> Asks] /\ Apart(o) /\ Quiet \in Asks /\ Quiet.op = "none"
    BY DEF Fits, Asks, Quiet
  <1>2. Belongs(Quiet, s, P, X)
    BY <1>1 DEF Belongs, Rotating
  <1>3. Apart([o EXCEPT ![c] = Quiet])
    BY <1>1, ApartStays
  <1>. QED  BY <1>1, <1>2, <1>3, AskChanges

\* Whoever is alone may leave another session, if its tokens are good.
LEMMA AloneEnds ==
    ASSUME NEW s, NEW o, NEW P, NEW X, Fits(s, o, P, X), NEW c \in PageCalls, o[c].op \in Exclusive,
           NEW u \in PageUsers, NEW n \in 0..MaxPairs, Usable(n, P, X), P[n].user = u
    PROVE  Fits([user |-> u, pair |-> n], [o EXCEPT ![c] = Quiet], P, X)
  <1>. DEFINE t == [user |-> u, pair |-> n]
              v == [o EXCEPT ![c] = Quiet]
  <1>1. Quiet \in Asks /\ Quiet.op = "none" /\ Askers = PageCalls \cup {Shared}
    BY DEF Asks, Quiet, Askers
  <1>2. n \in DOMAIN P /\ n \in 1..MaxPairs
    BY PageAssumption DEF Fits, Issued, Usable
  <1>3. t \in Session /\ t.user = u /\ t.pair = n
    BY <1>2 DEF Session
  <1>4. v \in [Askers -> Asks] /\ \A d \in Askers : v[d] = Quiet
    BY <1>1 DEF Fits, Apart
  <1>. HIDE DEF t, v
  <1>5. Apart(v)
    BY <1>1, <1>4 DEF Apart, Exclusive
  <1>6. \A d \in Askers : Belongs(v[d], t, P, X)
    BY <1>1, <1>4 DEF Belongs, Rotating
  <1>7. Held(t, v, P, X)
    BY <1>2, <1>3 DEF Held
  <1>8. Fits(t, v, P, X)
    BY <1>4, <1>5, <1>6, <1>7 DEF Fits
  <1>. QED  BY <1>8 DEF t, v

LEMMA SignInEnds ==
    ASSUME PageInv, NEW c \in Askers, SignInReturns(c)
    PROVE  PageInv'
  <1>1. Fits(session, out, pairs, spoilt) /\ out[c] \in Asks /\ Belongs(out[c], session, pairs, spoilt) /\ Apart(out)
    BY DEF PageInv, Fits
  <1>2. out[c].op = "signIn" /\ pairs' = pairs /\ spoilt' = spoilt /\ out' = [out EXCEPT ![c] = Quiet]
    BY DEF SignInReturns, Back, Sends
  <1>3. c \in PageCalls /\ out[c].op \in Exclusive /\ ~Rotating(out[c])
    BY <1>1, <1>2 DEF Apart, Askers, Exclusive, Rotating
  <1>4. out[c].user \in PageUsers /\ out[c].got \in 0..MaxPairs
    BY <1>1, <1>2, AskFields DEF SignIns
  <1>5. CASE out[c].answer = "ok"
    <2>. DEFINE t == [user |-> out[c].user, pair |-> out[c].got]
    <2>1. session' = t /\ stored' = t
      BY <1>5 DEF SignInReturns, SaveSession
    <2>2. Usable(out[c].got, pairs, spoilt) /\ pairs[out[c].got].user = out[c].user
      BY <1>1, <1>2, <1>5 DEF Belongs
    <2>3. Fits(t, [out EXCEPT ![c] = Quiet], pairs, spoilt)
      BY <1>1, <1>3, <1>4, <2>2, AloneEnds
    <2>. HIDE DEF t
    <2>. QED  BY <1>2, <2>1, <2>3 DEF PageInv
  <1>6. CASE out[c].answer # "ok"
    <2>1. session' = session /\ stored' = stored
      BY <1>6 DEF SignInReturns
    <2>2. Fits(session, [out EXCEPT ![c] = Quiet], pairs, spoilt)
      BY <1>1, <1>3, AskEnds
    <2>. QED  BY <1>2, <2>1, <2>2 DEF PageInv
  <1>. QED  BY <1>5, <1>6

LEMMA SignOutEnds ==
    ASSUME PageInv, NEW c \in Askers, SignOutReturns(c)
    PROVE  PageInv'
  <1>1. Fits(session, out, pairs, spoilt) /\ ~Rotating(out[c])
    BY DEF PageInv, SignOutReturns, Back, Rotating
  <1>2. Fits(session, [out EXCEPT ![c] = Quiet], pairs, spoilt)
    BY <1>1, AskEnds
  <1>. QED  BY <1>2 DEF PageInv, SignOutReturns, Sends

\* What a rotation brings is the user the page shows, with tokens that are good.
LEMMA AdoptNames ==
    ASSUME NEW s, NEW o, NEW P, NEW X, Fits(s, o, P, X), NEW c \in Askers, Rotating(o[c]), o[c].answer = "ok"
    PROVE  /\ s # SignedOut /\ s.user \in PageUsers /\ o[c].got \in 0..MaxPairs
           /\ Usable(o[c].got, P, X) /\ P[o[c].got].user = s.user
  <1>1. o[c] \in Asks /\ Belongs(o[c], s, P, X) /\ Held(s, o, P, X)
    BY DEF Fits
  <1>2. o[c].op \notin {"none", "wait"}
    BY DEF Rotating
  <1>3. o[c].got \in 0..MaxPairs
    BY <1>1, <1>2, AskFields
  <1>. QED  BY <1>1, <1>3 DEF Belongs, Held, Session

LEMMA RefreshEnds ==
    ASSUME PageInv, NEW c \in Askers, RefreshReturns(c)
    PROVE  PageInv'
  <1>1. Fits(session, out, pairs, spoilt) /\ Apart(out)
    BY DEF PageInv, Fits
  <1>2. out[c].op = "refresh" /\ pairs' = pairs /\ spoilt' = spoilt /\ out' = [out EXCEPT ![c] = Quiet]
    BY DEF RefreshReturns, Back, Sends
  <1>3. c \in PageCalls /\ out[c].op \in Exclusive /\ Rotating(out[c])
    BY <1>1, <1>2 DEF Apart, Askers, Exclusive, Rotating
  <1>4. CASE out[c].answer = "ok"
    <2>. DEFINE t == [user |-> session.user, pair |-> out[c].got]
    <2>1. /\ session # SignedOut /\ session.user \in PageUsers /\ out[c].got \in 0..MaxPairs
          /\ Usable(out[c].got, pairs, spoilt) /\ pairs[out[c].got].user = session.user
      BY <1>1, <1>3, <1>4, AdoptNames
    <2>2. session' = t /\ stored' = t
      BY <1>4, <2>1 DEF RefreshReturns, Adopt, SaveSession
    <2>3. Fits(t, [out EXCEPT ![c] = Quiet], pairs, spoilt)
      BY <1>1, <1>3, <2>1, AloneEnds
    <2>. HIDE DEF t
    <2>. QED  BY <1>2, <2>2, <2>3 DEF PageInv
  <1>5. CASE out[c].answer # "ok"
    <2>1. session' = session /\ stored' = stored
      BY <1>5 DEF RefreshReturns
    <2>2. Fits(session, [out EXCEPT ![c] = Quiet], pairs, spoilt)
      BY <1>1, <1>5, AskEnds
    <2>. QED  BY <1>2, <2>1, <2>2 DEF PageInv
  <1>. QED  BY <1>4, <1>5

\* The user that is shown again is the one already shown.
LEMMA SameShown ==
    ASSUME NEW s, NEW o, NEW P, NEW X, Fits(s, o, P, X), NEW c \in Askers, o[c].op = "me", s # SignedOut
    PROVE  [s EXCEPT !.user = P[o[c].pair].user] = s
  <1>1. s \in Session /\ P[o[c].pair].user = s.user
    BY DEF Fits, Held, Belongs
  <1>. QED  BY <1>1 DEF Session

LEMMA MeEnds ==
    ASSUME PageInv, NEW c \in Askers, MeReturns(c)
    PROVE  PageInv'
  <1>1. Fits(session, out, pairs, spoilt) /\ out[c].op = "me" /\ ~Rotating(out[c])
    BY DEF PageInv, MeReturns, Back, Rotating
  <1>2. session' = session /\ stored' = stored
    <2>1. session # SignedOut => [session EXCEPT !.user = pairs[out[c].pair].user] = session
      BY <1>1, SameShown
    <2>. QED  BY <2>1 DEF MeReturns, SaveSession, PageInv
  <1>3. Fits(session, [out EXCEPT ![c] = Quiet], pairs, spoilt)
    BY <1>1, AskEnds
  <1>. QED  BY <1>2, <1>3 DEF PageInv, MeReturns, Sends

\* getToken's refresh ends for everyone who waited for it.
LEMMA SharedEnds ==
    ASSUME PageInv, NEW c \in Askers, SharedReturns(c)
    PROVE  PageInv' /\ (session # SignedOut /\ session' = SignedOut => out[c].pair \in spoilt)
  <1>1. /\ Fits(session, out, pairs, spoilt) /\ Issued(pairs, spoilt) /\ out \in [Askers -> Asks] /\ Apart(out)
        /\ Held(session, out, pairs, spoilt) /\ \A d \in Askers : Belongs(out[d], session, pairs, spoilt)
    BY DEF PageInv, Fits
  <1>2. /\ out[c].op = "getToken" /\ Rotating(out[c]) /\ pairs' = pairs /\ spoilt' = spoilt
        /\ stored = session /\ out[c].answer # "none"
    BY DEF SharedReturns, Back, Rotating, PageInv
  <1>3. Askers = PageCalls \cup {Shared} /\ Shared \notin PageCalls /\ Quiet \in Asks /\ Quiet.op = "none"
    BY PageAssumption DEF Askers, Quiet, Asks
  <1>4. c = Shared
    BY <1>1, <1>2, <1>3 DEF Apart
  <1>5. \A d \in Askers \ {c} : out[d].op \notin Exclusive \cup {"getToken"}
    BY <1>1, <1>2, OneRotation
  <1>. DEFINE g == out[c].got
              m == Request("me", g)
              v == [d \in DOMAIN out |->
                      IF d = c THEN Quiet
                      ELSE IF out[d].op # "wait" THEN out[d]
                      ELSE IF out[d].then = "me" /\ out[c].answer = "ok" THEN m ELSE Quiet]
  <1>6. out' = v
    BY DEF SharedReturns
  <1>7. out[c].answer = "ok" =>
           /\ session # SignedOut /\ session.user \in PageUsers /\ g \in 0..MaxPairs
           /\ Usable(g, pairs, spoilt) /\ pairs[g].user = session.user
    BY <1>1, <1>2, AdoptNames
  <1>8. out[c].answer = "ok" => m \in Asks /\ m.op = "me" /\ m.pair = g /\ m.answer = "none"
    BY <1>7, RequestAsks
  <1>. HIDE DEF g, m
  <1>9. /\ v \in [Askers -> Asks] /\ v[c] = Quiet
        /\ \A d \in Askers \ {c} : v[d] = Quiet \/ (v[d] = out[d] /\ out[d].op # "wait") \/ (v[d] = m /\ out[c].answer = "ok")
    BY <1>1, <1>3, <1>8
  <1>. HIDE DEF v
  <1>10. \A d \in Askers : v[d].op \notin Exclusive \cup {"getToken"}
    BY <1>3, <1>5, <1>8, <1>9 DEF Exclusive
  <1>11. Apart(v)
    BY <1>3, <1>4, <1>9, <1>10 DEF Apart
  <1>12. ASSUME NEW t, t = SignedOut \/ (session # SignedOut /\ t.user = session.user),
                out[c].answer = "ok" => t = SignedOut \/ t.user = pairs[g].user, NEW d \in Askers
         PROVE  Belongs(v[d], t, pairs, spoilt)
    <2>1. CASE v[d] = Quiet
      BY <1>3, <2>1 DEF Belongs, Rotating
    <2>2. CASE v[d] = out[d]
      BY <1>1, <1>10, <1>12, <2>2 DEF Belongs, Rotating, Exclusive
    <2>3. CASE v[d] = m /\ out[c].answer = "ok"
      BY <1>7, <1>8, <1>12, <2>3 DEF Belongs, Rotating, Usable
    <2>. QED  BY <1>9, <2>1, <2>2, <2>3
  <1>13. CASE out[c].answer = "ok"
    <2>. DEFINE t == [user |-> session.user, pair |-> g]
    <2>1. session' = t /\ stored' = t
      BY <1>7, <1>13 DEF SharedReturns, Adopt, SaveSession, g
    <2>2. t # SignedOut
      BY NobodyIsHeld
    <2>3. t.user = session.user /\ t.pair = g /\ g \in 1..MaxPairs /\ t \in Session
      <3>1. g \in 1..MaxPairs
        BY <1>1, <1>7, <1>13, PageAssumption DEF Usable, Issued
      <3>. QED  BY <1>7, <1>13, <3>1 DEF Session
    <2>. HIDE DEF t
    <2>4. Held(t, v, pairs, spoilt)
      BY <1>7, <1>13, <2>3 DEF Held, Usable
    <2>5. \A d \in Askers : Belongs(v[d], t, pairs, spoilt)
      BY <1>7, <1>12, <1>13, <2>3
    <2>6. Fits(t, v, pairs, spoilt)
      BY <1>1, <1>9, <1>11, <2>4, <2>5 DEF Fits
    <2>. QED  BY <1>2, <1>6, <2>1, <2>2, <2>6 DEF PageInv
  <1>14. CASE out[c].answer = "refused"
    <2>1. session' = SignedOut /\ stored' = SignedOut
      BY <1>14 DEF SharedReturns, Settled, SaveSession
    <2>2. Held(SignedOut, v, pairs, spoilt)
      BY DEF Held
    <2>3. \A d \in Askers : Belongs(v[d], SignedOut, pairs, spoilt)
      BY <1>12, <1>14
    <2>4. Fits(SignedOut, v, pairs, spoilt)
      BY <1>1, <1>9, <1>11, <2>2, <2>3 DEF Fits
    <2>5. out[c].pair \in spoilt
      BY <1>1, <1>2, <1>14 DEF Belongs
    <2>. QED  BY <1>2, <1>6, <2>1, <2>4, <2>5 DEF PageInv
  <1>15. CASE out[c].answer \notin {"ok", "refused"}
    <2>1. session' = session /\ stored' = session
      BY <1>2, <1>15 DEF SharedReturns, Settled
    <2>2. session # SignedOut
      BY <1>1, <1>2 DEF Belongs
    <2>3. Usable(session.pair, pairs, spoilt)
      <3>1. \A d \in Askers \ {c} : ~Rotating(out[d])
        BY <1>5 DEF Exclusive, Rotating
      <3>. QED  BY <1>1, <1>15, <2>2, <3>1 DEF Held
    <2>4. Held(session, v, pairs, spoilt)
      BY <1>1, <2>3 DEF Held
    <2>5. \A d \in Askers : Belongs(v[d], session, pairs, spoilt)
      BY <1>12, <1>15, <2>2
    <2>6. Fits(session, v, pairs, spoilt)
      BY <1>1, <1>9, <1>11, <2>4, <2>5 DEF Fits
    <2>. QED  BY <1>2, <1>6, <2>1, <2>6 DEF PageInv
  <1>. QED  BY <1>13, <1>14, <1>15

LEMMA ReloadFits ==
    ASSUME PageInv, Reload
    PROVE  PageInv'
  <1>1. /\ Fits(session, out, pairs, spoilt) /\ Issued(pairs, spoilt) /\ DOMAIN out = Askers
        /\ Held(session, out, pairs, spoilt) /\ \A d \in Askers : Belongs(out[d], session, pairs, spoilt)
    BY DEF PageInv, Fits
  <1>2. Askers = PageCalls \cup {Shared} /\ Quiet \in Asks /\ Quiet.op = "none"
    BY DEF Askers, Quiet, Asks
  <1>. DEFINE v == [c \in DOMAIN out |-> Quiet]
              Y == spoilt \cup {out[c].pair : c \in {d \in DOMAIN out : Rotation(d)}}
  <1>3. session' = session /\ stored' = session /\ pairs' = pairs /\ out' = v /\ spoilt' = Y
    BY DEF Reload, PageInv
  <1>4. v \in [Askers -> Asks] /\ \A d \in Askers : v[d] = Quiet
    BY <1>1, <1>2
  <1>5. spoilt \subseteq Y /\ \A d \in Askers : Rotating(out[d]) => out[d].pair \in Y
    BY <1>1 DEF Rotation, Rotating
  <1>6. Issued(pairs, Y)
    BY <1>1 DEF Issued, Rotation, Rotating, Belongs, Held
  <1>. HIDE DEF v, Y
  <1>7. Apart(v)
    BY <1>2, <1>4 DEF Apart, Exclusive
  <1>8. \A d \in Askers : Belongs(v[d], session, pairs, Y)
    BY <1>2, <1>4 DEF Belongs, Rotating
  <1>9. session # SignedOut => Usable(session.pair, pairs, Y)
    BY <1>1, <1>5 DEF Held, Usable, Belongs
  <1>10. Held(session, v, pairs, Y)
    BY <1>1, <1>9 DEF Held
  <1>11. Fits(session, v, pairs, Y)
    BY <1>4, <1>6, <1>7, <1>8, <1>10 DEF Fits
  <1>. QED  BY <1>3, <1>11 DEF PageInv

-----------------------------------------------------------------------------
LEMMA NextPageInv == ~Overlap /\ PageInv /\ [PageNext]_PageVars => PageInv'
  <1>. SUFFICES ASSUME ~Overlap, PageInv, [PageNext]_PageVars PROVE PageInv'
    OBVIOUS
  <1>1. DOMAIN out = Askers
    BY DEF PageInv, Fits
  <1>2. CASE \E c \in PageCalls, u \in PageUsers : PageSignIn(c, u)
    BY <1>2, SignInSends
  <1>3. CASE \E c \in PageCalls : PageSignOut(c)
    BY <1>3, SignOutSends
  <1>4. CASE \E c \in PageCalls : PageRefresh(c)
    BY <1>4, RefreshSends
  <1>5. CASE \E c \in PageCalls : \E then \in {"use", "me"} : GetToken(c, then)
    BY <1>5, GetTokenSends
  <1>6. CASE \E c \in DOMAIN out : Serves(c)
    BY <1>1, <1>6, RotatesFits, ServesSignInFits, ServesSignOutFits, ServesMeFits DEF Serves
  <1>7. CASE \E c \in DOMAIN out : Loses(c)
    BY <1>1, <1>7, LosesFits
  <1>8. CASE \E c \in DOMAIN out : PageStep(c)
    BY <1>1, <1>8, SignInEnds, SignOutEnds, RefreshEnds, MeEnds, SharedEnds DEF PageStep
  <1>9. CASE \E u \in PageUsers : RevokeUser(u)
    BY <1>9, RevokeFits
  <1>10. CASE \E n \in DOMAIN pairs : GrowsStale(n)
    BY <1>10, StaleFits
  <1>11. CASE Reload
    BY <1>11, ReloadFits
  <1>12. CASE UNCHANGED PageVars
    BY <1>12 DEF PageInv, PageVars
  <1>. QED  BY <1>2, <1>3, <1>4, <1>5, <1>6, <1>7, <1>8, <1>9, <1>10, <1>11, <1>12 DEF PageNext

LEMMA PageInductive == ~Overlap => (PageSpec => []PageInv)
  <1>. SUFFICES ASSUME ~Overlap PROVE PageSpec => []PageInv
    OBVIOUS
  <1>. QED  BY InitPageInv, NextPageInv, PTL DEF PageSpec

\* Whatever fails, is lost or is loaded again, and however many calls share one refresh, the
\* page shows the user whose tokens it holds.  Only a sign-in, a sign-out or a refresh of the
\* app's that overlaps other requests may mix two sessions.
THEOREM PageKept == ~Overlap => (PageSpec => []PageHolds)
  <1>. SUFFICES ASSUME ~Overlap PROVE PageSpec => []PageHolds
    OBVIOUS
  <1>1. PageInv => PageHolds
    BY DEF PageInv, Fits, Held, Issued, Session, PageHolds, PageTyped, ShownIsHeld
  <1>. QED  BY <1>1, PageInductive, PTL

\* The callers of getToken never sign the page out by racing for one refresh: a page is signed
\* out by itself, or because what it offered was revoked, or rotated in an answer it never got.
THEOREM SignedOutKept == ~Overlap => (PageSpec => SignedOutForCause)
  <1>. SUFFICES ASSUME ~Overlap PROVE PageSpec => SignedOutForCause
    OBVIOUS
  <1>. DEFINE Cause == \/ \E c \in DOMAIN out : Back(c, "getToken") /\ out[c].pair \in spoilt
                       \/ \E c \in PageCalls : out'[c].op = "signOut" /\ out[c] = Quiet
  <1>1. ASSUME PageInv, [PageNext]_PageVars, session # SignedOut, session' = SignedOut PROVE Cause
    <2>1. /\ stored = session /\ DOMAIN out = Askers /\ PageCalls \subseteq DOMAIN out
          /\ Fits(session, out, pairs, spoilt)
      BY <1>1 DEF PageInv, Fits, Askers
    <2>2. CASE \E c \in PageCalls : PageSignOut(c)
      <3>1. PICK c \in PageCalls : PageSignOut(c)
        BY <2>2
      <3>2. out[c] = Quiet /\ out' = [out EXCEPT ![c] = Request("signOut", session.pair)]
        BY <3>1 DEF PageSignOut, Free, Sends
      <3>3. out'[c].op = "signOut"
        BY <2>1, <3>2 DEF Request
      <3>. QED  BY <3>2, <3>3
    <2>3. CASE \E c \in DOMAIN out : SharedReturns(c)
      <3>1. PICK c \in Askers : SharedReturns(c)
        BY <2>1, <2>3
      <3>2. out[c].pair \in spoilt
        BY <1>1, <3>1, SharedEnds
      <3>. QED  BY <2>1, <3>1, <3>2 DEF SharedReturns
    <2>4. CASE \E c \in DOMAIN out : SignInReturns(c) \/ RefreshReturns(c)
      BY <1>1, <2>4, NobodyIsHeld DEF SignInReturns, RefreshReturns, Adopt, SaveSession
    <2>5. CASE \E c \in DOMAIN out : MeReturns(c)
      <3>1. PICK c \in Askers : MeReturns(c)
        BY <2>1, <2>5
      <3>2. [session EXCEPT !.user = pairs[out[c].pair].user] = session
        BY <1>1, <2>1, <3>1, SameShown DEF MeReturns, Back
      <3>. QED  BY <1>1, <3>1, <3>2 DEF MeReturns, SaveSession
    <2>6. session' # session
      BY <1>1
    <2>. QED  BY <1>1, <2>1, <2>2, <2>3, <2>4, <2>5, <2>6
              DEF PageNext, PageVars, PageSignIn, PageRefresh, GetToken, Serves, Rotates, ServesSignIn, ServesSignOut,
                  ServesMe, Loses, PageStep, SignOutReturns, RevokeUser, GrowsStale, Reload
  <1>. QED  BY <1>1, PageInductive, PTL DEF PageSpec, SignedOutForCause, PageVars

\* A page that signed out stays so until somebody signs in, no answer on its way brings the
\* session back: again unless requests overlap that the app should keep apart.
THEOREM StaysOutKept == ~Overlap => (PageSpec => SignedOutStaysOut)
  <1>. SUFFICES ASSUME ~Overlap PROVE PageSpec => SignedOutStaysOut
    OBVIOUS
  <1>1. ASSUME PageInv, [PageNext]_PageVars, session = SignedOut, session' # SignedOut
        PROVE  \E c \in PageCalls : Back(c, "signIn")
    <2>1. /\ stored = session /\ DOMAIN out = Askers /\ Askers = PageCalls \cup {Shared} /\ out[Shared].op # "signIn"
          /\ Fits(session, out, pairs, spoilt)
      BY <1>1 DEF PageInv, Fits, Askers, Apart
    <2>2. ASSUME NEW c \in Askers, Rotating(out[c]) PROVE FALSE
      BY <1>1, <2>1, <2>2 DEF Fits, Belongs
    <2>3. CASE \E c \in DOMAIN out : SignInReturns(c)
      BY <2>1, <2>3 DEF SignInReturns, Back
    <2>4. CASE \E c \in DOMAIN out : RefreshReturns(c) \/ SharedReturns(c)
      BY <2>1, <2>2, <2>4 DEF RefreshReturns, SharedReturns, Back, Rotating
    <2>5. session' # session
      BY <1>1
    <2>. QED  BY <1>1, <2>1, <2>3, <2>4, <2>5
              DEF PageNext, PageVars, PageSignIn, PageSignOut, PageRefresh, GetToken, Serves, Rotates, ServesSignIn,
                  ServesSignOut, ServesMe, Loses, PageStep, SignOutReturns, MeReturns, RevokeUser, GrowsStale, Reload
  <1>. QED  BY <1>1, PageInductive, PTL DEF PageSpec, SignedOutStaysOut

=============================================================================
