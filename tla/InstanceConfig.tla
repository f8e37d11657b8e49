---------------------------- MODULE InstanceConfig ----------------------------
(***************************************************************************)
(* The config of one instance and the writers that change it at the same   *)
(* time: its creation with a region, the console's replace, MCP's patch,   *)
(* and the hook that rewrites a saved config in its normal form.  Source:  *)
(* cli/internal/control/control.go, the hook in internal/server/server.go. *)
(*                                                                         *)
(* The service is one placed at creation whose rules are normalised: blob. *)
(* A write takes the registry's lock, a read is a snapshot: between a      *)
(* writer's snapshots, its checks and its write anything may be written.   *)
(***************************************************************************)
EXTENDS Naturals

CONSTANTS
    Region,    \* regions but "auto"
    Rules,     \* trigger rules, as a save spells them
    Normal,    \* Rules -> the form the service keeps them in
    Plain,     \* values of a field no check looks at
    DefaultRules, DefaultPlain,
    Writer,
    Early      \* whether a write may come while the instance is being placed

Regions == Region \cup {"auto"}
Config  == [region: Regions, rules: Rules, plain: Plain]
Default == [region |-> "auto", rules |-> DefaultRules, plain |-> DefaultPlain]

ASSUME ConfigAssumption ==
    /\ DefaultRules \in Rules /\ DefaultPlain \in Plain
    /\ Normal \in [Rules -> Rules] /\ Early \in BOOLEAN
    /\ \A r \in Rules : Normal[Normal[r]] = Normal[r]
    /\ Normal[DefaultRules] = DefaultRules

VARIABLES
    config,  \* the instance's config, once it is in the registry
    made,    \* how far its creation is: "none", "created", "read", "done"
    place,   \* the region it is created in, and the snapshot that carries it
    w        \* what each writer is at, with the snapshots it took

configVars == <<config, made, place, w>>

NoWrite == [at |-> "idle"]

ConfigInit ==
    /\ config = Default /\ made = "none"
    /\ place = [region |-> "auto", cfg |-> Default]
    /\ w = [p \in Writer |-> NoWrite]

-----------------------------------------------------------------------------
(* CreatePlaced *)

ConfigCreate(r) ==
    /\ made = "none"
    /\ made' = IF r = "auto" THEN "done" ELSE "created"
    /\ place' = [place EXCEPT !.region = r]
    /\ UNCHANGED <<config, w>>

PlaceRead ==
    /\ made = "created" /\ made' = "read"
    /\ place' = [place EXCEPT !.cfg = [config EXCEPT !.region = place.region]]
    /\ UNCHANGED <<config, w>>

PlaceWrite ==
    /\ made = "read" /\ made' = "done"
    /\ config' = place.cfg
    /\ UNCHANGED <<place, w>>

-----------------------------------------------------------------------------
(* SaveConfig, ReplaceConfig *)

Open(p) == w[p] = NoWrite /\ (made = "done" \/ (Early /\ made # "none"))

\* The config a patch asks for: its fields over a snapshot.
Merged(ch) == [f \in DOMAIN config |-> IF f \in DOMAIN ch THEN ch[f] ELSE config[f]]

Patch(p, ch) ==
    /\ Open(p)
    /\ w' = [w EXCEPT ![p] = [at |-> "asked", next |-> Merged(ch)]]
    /\ UNCHANGED <<config, made, place>>

\* The console sends the whole config.
Put(p, cfg) ==
    /\ Open(p)
    /\ w' = [w EXCEPT ![p] = [at |-> "asked", next |-> cfg]]
    /\ UNCHANGED <<config, made, place>>

\* Faulty: where the instance was placed is not looked at.
AllowedAnywhere(next, before) == TRUE

\* The region a config has is the one it keeps.
Allowed(next, before) == next.region = before.region

\* The check is made on a snapshot, the write comes later.
Replace(p) ==
    /\ w[p].at = "asked"
    /\ w' = [w EXCEPT ![p] = IF Allowed(w[p].next, config) THEN [@ EXCEPT !.at = "checked"] ELSE NoWrite]
    /\ UNCHANGED <<config, made, place>>

\* Faulty: rules that mean what they meant before are not normalised again.
WriteOnce(p) ==
    /\ w[p].at = "checked"
    /\ config' = w[p].next
    /\ w' = [w EXCEPT ![p] = IF Normal[w[p].next.rules] = Normal[config.rules] THEN NoWrite ELSE [@ EXCEPT !.at = "saved"]]
    /\ UNCHANGED <<made, place>>

Write(p) ==
    /\ w[p].at = "checked"
    /\ config' = w[p].next
    /\ w' = [w EXCEPT ![p].at = "saved"]
    /\ UNCHANGED <<made, place>>

\* The after-save hook: the rules the config has now, in their normal form.
HookRead(p) ==
    /\ w[p].at = "saved"
    /\ w' = [w EXCEPT ![p] = [at |-> "normal", rules |-> Normal[config.rules]]]
    /\ UNCHANGED <<config, made, place>>

\* SetConfig: merged onto the config under the lock.
HookWrite(p) ==
    /\ w[p].at = "normal"
    /\ config' = [config EXCEPT !.rules = w[p].rules]
    /\ w' = [w EXCEPT ![p] = NoWrite]
    /\ UNCHANGED <<made, place>>

Changes == [{"rules"} -> Rules] \cup [{"plain"} -> Plain]

Step(p) == \/ \E ch \in Changes : Patch(p, ch)
           \/ \E cfg \in Config : Put(p, cfg)
           \/ Replace(p) \/ Write(p) \/ HookRead(p) \/ HookWrite(p)

ConfigNext == \/ \E r \in Regions : ConfigCreate(r)
              \/ PlaceRead \/ PlaceWrite
              \/ \E p \in Writer : Step(p)

ConfigSpec == ConfigInit /\ [][ConfigNext]_configVars

-----------------------------------------------------------------------------
Asked == [at: {"asked", "checked", "saved"}, next: Config]

\* Every variable has its type.
ConfigTypeOK ==
    /\ config \in Config /\ made \in {"none", "created", "read", "done"}
    /\ place \in [region: Regions, cfg: Config]
    /\ w \in [Writer -> Asked \cup [at: {"normal"}, rules: Rules] \cup {NoWrite}]

\* An instance placed in a region stays there, although every save checks its
\* region against a snapshot it took before it wrote.
RegionFixed == [][made = "done" => config'.region = place.region]_configVars

\* Once its writers are through, the rules are in the service's normal form,
\* whichever of them wrote last and whichever hook ran last.
NormalAtRest == (\A p \in Writer : w[p] = NoWrite) => config.rules = Normal[config.rules]

\* Writers that interleave leave a config, in normal form when they are through.
ConfigHolds == ConfigTypeOK /\ NormalAtRest

=============================================================================
