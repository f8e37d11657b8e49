------------------------------ MODULE MCInstances ------------------------------
(***************************************************************************)
(* What belongs to an instance: its row in the registry and the data named *)
(* by it, its config, the versions of its functions, a search index, and   *)
(* the session of a page's user.  They share no state here, so a behaviour *)
(* is about one of them, and `part` says which, and within which bounds.   *)
(* "search" is queries and lists read while documents are written and      *)
(* deleted; "index" an index made and dropped by two requests and a crash. *)
(* The parts share model values too, so that the one permutation of two    *)
(* of them is a symmetry of them all.                                      *)
(***************************************************************************)
EXTENDS FunctionVersions, InstanceRegistry, InstanceConfig, AuthClient, SearchIndex, TLC

CONSTANTS x1, x2, x3, y1, y2, a1, c1, u1
VARIABLE part

Symmetry == Permutations({y1, y2})

\* Sources, and ids, are all alike: the first not yet used comes next.
InTurn(used) == (x2 \in used => x1 \in used) /\ (x3 \in used => x2 \in used)

\* "short" is a spelling of "full".
MCRules  == {"full", "short", "none"}
MCNormal == [r \in MCRules |-> IF r = "short" THEN "full" ELSE r]

Doc(rank, type, text, tag) == [rank |-> rank, type |-> type, word |-> text, tag |-> tag]
MCBad == Doc(0, "bad", "x", "t")
MCBatches == {<<<<1, Doc(1, "text", "x", "t")>>>>, <<<<2, Doc(2, "atom", "x", "t")>>, <<3, Doc(2, "text", "y", "u")>>>>,
              <<<<1, Doc(3, "text", "y", "u")>>, <<2, MCBad>>>>}
MCContents == UNION {{b[k][2] : k \in DOMAIN b} : b \in MCBatches}
MCAlts == [word \in {"x", "y"} |-> IF word = "x" THEN {"y"} ELSE {}]
Pin(d, p) == [id |-> d, pos |-> p]
MCRuleLists ==
    {<<>>, <<[word |-> "x", hide |-> {}, pins |-> <<Pin(2, 1)>>]>>,
     <<[word |-> "x", hide |-> {}, pins |-> <<Pin(3, 1), Pin(2, 0)>>],
       [word |-> "x", hide |-> {1}, pins |-> <<Pin(3, 0), Pin(1, 0)>>]>>}
Query(kind, text, collapse) == [kind |-> kind, word |-> text, collapse |-> collapse]
MCQueries == {Query("all", "x", FALSE), Query("field", "x", FALSE), Query("not", "y", FALSE),
              Query("stem", "x", FALSE), Query("word", "x", TRUE)}

instancesVars == <<part, versionsVars, registryVars, configVars, PageVars, searchVars>>

Init == /\ part \in {"versions", "registry", "config", "page", "search", "index"}
        /\ VersionsInit /\ RegistryInit /\ ConfigInit /\ PageInit
        /\ SearchInit /\ rules = <<>>

\* One setting is saved at a time.
VersionsPart == /\ VersionsNext /\ InTurn({s \in Source : born'[s] # Unborn})
                /\ \A p \in Admin : adm'[p].at = "asked" =>
                      settings.keep = adm'[p].next.keep \/ settings.default = adm'[p].next.default

\* The settings are changed once, before there is an index.  One request at a time, and the
\* index stays.
SearchPart == /\ SearchNext /\ lastId' <= 1 /\ torn' = {}
              /\ <<rules', stemming'>> = <<rules, stemming>> \/ (lastId = 0 /\ rules = <<>> /\ stemming')
              /\ Cardinality({r \in IndexRequests : asked'[r] # NotAsked}) <= 1
              /\ \A r \in IndexRequests : asked'[r] # NotAsked => asked'[r].op # "drop"

\* Single documents are put, one request at most drops, nothing is read, and one index is cut short.
IndexPart == /\ SearchNext /\ walk' = NotWalking /\ <<rules', stemming'>> = <<rules, stemming>>
             /\ torn # {} => torn' = torn
             /\ Cardinality({r \in IndexRequests : asked'[r].step = "drop"}) <= 1
             /\ \A r \in IndexRequests : asked'[r] # NotAsked =>
                   asked'[r].op # "delete" /\ (asked'[r].op = "put" => Len(asked'[r].batch) = 1)

Next == /\ UNCHANGED part
        /\ \/ part = "versions" /\ VersionsPart /\ UNCHANGED <<registryVars, configVars, PageVars, searchVars>>
           \/ part = "registry" /\ RegistryNext /\ InTurn(minted') /\ UNCHANGED <<versionsVars, configVars, PageVars, searchVars>>
           \/ part = "config" /\ ConfigNext /\ UNCHANGED <<versionsVars, registryVars, PageVars, searchVars>>
           \/ part = "page" /\ PageNext /\ UNCHANGED <<versionsVars, registryVars, configVars, searchVars>>
           \/ /\ (part = "search" /\ SearchPart) \/ (part = "index" /\ IndexPart)
              /\ UNCHANGED <<versionsVars, registryVars, configVars, PageVars>>

Spec == Init /\ [][Next]_instancesVars

=============================================================================
