------------------------------ MODULE SearchIndex ------------------------------
(***************************************************************************)
(* One search index: made lazily by the first put, statement by statement, *)
(* dropped the same way, written in transactions, and read page by page    *)
(* under the instance's query rules.  Source: cli/internal/search/{store,  *)
(* documents,search,query,rules,features,routes}.go.                       *)
(*                                                                         *)
(* The namespace's database has one connection, so a statement, or a       *)
(* transaction, is a step.  A document has one field, written as text or   *)
(* as an atom, and one tag, its facet and the field it is collapsed by.    *)
(***************************************************************************)
EXTENDS Naturals, Sequences, SequencesExt, FiniteSets

CONSTANTS
    DocIds,        \* document ids, numbers in the order of their names
    Contents,      \* what a document may say: [rank, type, word, tag]; BadDoc among them
    BadDoc,        \* a document the put refuses
    Batches,       \* the batches a put may carry: sequences of <<id, content>>
    Alts,          \* the synonym dictionary: a word's alternatives
    RuleLists,     \* the query rules an instance may have: sequences of [word, hide, pins]
    Queries,       \* [kind, word, collapse]
    Limits,        \* page sizes
    MaxOffset,     \* the offset a page may start at, at most
    Accuracy,      \* total_hits_accuracy
    IndexRequests, \* puts, deletes and drops that may be in progress
    MaxIndexIds,   \* bound: rows of _indexes, ever
    MaxShown       \* bound: documents a walk is shown

Parts == <<"docs", "fields", "fts", "facets", "schema", "stem">>
MainParts == {"docs", "fields", "fts", "facets", "schema"}

ASSUME SearchAssumption ==
    /\ DocIds \subseteq Nat /\ MaxOffset \in Nat /\ Limits \subseteq Nat \ {0}
    /\ MaxIndexIds \in Nat \ {0} /\ MaxShown \in Nat /\ Accuracy \in Nat
    /\ \A c \in Contents : c.rank \in Nat
    /\ Batches \subseteq Seq(DocIds \X Contents)
    /\ RuleLists \subseteq Seq([word : DOMAIN Alts, hide : SUBSET DocIds, pins : Seq([id : DocIds, pos : Nat])])
    /\ Queries \subseteq [kind : {"all", "word", "field", "not", "stem"}, word : DOMAIN Alts, collapse : BOOLEAN]

VARIABLES
    entry,    \* the row of _indexes for the name: its id, or 0
    lastId,   \* AUTOINCREMENT's last
    tables,   \* id -> its tables that exist
    docs,     \* id -> what its documents say, in _docs, _fields, _fts and _facets alike
    stems,    \* id -> the words in _fts_stem
    schema,   \* id -> the types the field was written as
    stemming, \* the instance's config, and
    rules,    \* its query rules
    asked,    \* the writing requests: step, the index they hold, their batch, their settings
    walk,     \* a client reading every page of one query, or of the list
    torn      \* history: indexes whose making or dropping a stop of the server cut short, or
              \* that were written before they were whole

searchVars == <<entry, lastId, tables, docs, stems, schema, stemming, rules, asked, walk, torn>>

Ids == 1..MaxIndexIds
NoDocs == [d \in {} |-> {}]
NotAsked == [step |-> "none"]
NotWalking == [step |-> "none"]

SearchInit ==
    /\ entry = 0 /\ lastId = 0 /\ torn = {}
    /\ tables = [i \in Ids |-> {}] /\ schema = [i \in Ids |-> {}]
    /\ docs = [i \in Ids |-> NoDocs] /\ stems = [i \in Ids |-> NoDocs]
    /\ stemming = TRUE /\ rules \in RuleLists
    /\ asked = [r \in IndexRequests |-> NotAsked] /\ walk = NotWalking

-----------------------------------------------------------------------------
(* Writing *)

Ends(r) == asked' = [asked EXCEPT ![r] = NotAsked]

\* A walk that sees the index change is promised less.
Stirs(gone) == walk' = IF walk = NotWalking THEN walk ELSE [walk EXCEPT !.still = FALSE, !.kept = @ \ gone]

\* The instance's settings are read as the request comes in.
AskPut(r, b) ==
    /\ asked[r] = NotAsked
    /\ asked' = [asked EXCEPT ![r] =
          [step |-> IF entry = 0 THEN "insert" ELSE "write", op |-> "put",
           id |-> entry, batch |-> b, stem |-> stemming, at |-> 0]]
    /\ UNCHANGED <<entry, lastId, tables, docs, stems, schema, stemming, rules, walk, torn>>

AskDelete(r, d) ==
    /\ asked[r] = NotAsked /\ entry # 0
    /\ asked' = [asked EXCEPT ![r] =
          [step |-> "delete", op |-> "delete", id |-> entry, doc |-> d, stem |-> stemming, at |-> 0]]
    /\ UNCHANGED <<entry, lastId, tables, docs, stems, schema, stemming, rules, walk, torn>>

AskDrop(r) ==
    /\ asked[r] = NotAsked /\ entry # 0
    /\ asked' = [asked EXCEPT ![r] = [step |-> "drop", op |-> "drop", id |-> entry, at |-> 1]]
    /\ UNCHANGED <<entry, lastId, tables, docs, stems, schema, stemming, rules, walk, torn>>

\* ensureIndex: the row first, unless another request was faster.
InsertEntry(r) ==
    /\ asked[r].step = "insert" /\ lastId < MaxIndexIds
    /\ IF entry # 0 THEN Ends(r) /\ UNCHANGED <<entry, lastId>>
       ELSE /\ entry' = lastId + 1 /\ lastId' = lastId + 1
            /\ asked' = [asked EXCEPT ![r].step = "create", ![r].id = lastId + 1, ![r].at = 1]
    /\ UNCHANGED <<tables, docs, stems, schema, stemming, rules, walk, torn>>

\* createTables: one statement a table; the stemmed one only when stemming is on.
CreateTable(r) ==
    /\ asked[r].step = "create"
    /\ LET a == asked[r]
           last == IF a.stem THEN Len(Parts) ELSE Len(Parts) - 1 IN
       /\ tables' = [tables EXCEPT ![a.id] = @ \cup {Parts[a.at]}]
       /\ asked' = [asked EXCEPT ![r].at = @ + 1, ![r].step = IF a.at = last THEN "write" ELSE @]
    /\ UNCHANGED <<entry, lastId, docs, stems, schema, stemming, rules, walk, torn>>

\* What a batch leaves of the documents: a later one of the same id replaces an earlier one.
LastOf(b, d) == CHOOSE i \in DOMAIN b : b[i][1] = d /\ \A j \in DOMAIN b : b[j][1] = d => j <= i
IdsOf(b) == {b[i][1] : i \in DOMAIN b}
Overlaid(f, b) == [d \in DOMAIN f \cup IdsOf(b) |-> IF d \in IdsOf(b) THEN b[LastOf(b, d)][2] ELSE f[d]]

\* Only tokenized text is stemmed.
StemRows(f, b) ==
    [d \in (DOMAIN f \ IdsOf(b)) \cup {e \in IdsOf(b) : b[LastOf(b, e)][2].type = "text"} |->
        IF d \in IdsOf(b) THEN b[LastOf(b, d)][2].word ELSE f[d]]

\* Faulty: the types are those of the documents just written.
SchemaOfLast(i, b) == {b[k][2].type : k \in DOMAIN b}

\* A field's types are never taken back.
SchemaOf(i, b) == schema[i] \cup {b[k][2].type : k \in DOMAIN b}

Refused(b) == \E i \in DOMAIN b : b[i][2] = BadDoc

\* Put's transaction: every document or none.  An error of the stemmed table, or of the
\* schema's, is not listened to.
WriteDocs(r) ==
    /\ asked[r].step = "write"
    /\ LET a == asked[r]  i == a.id IN
       IF MainParts \ {"schema"} \subseteq tables[i] /\ ~Refused(a.batch)
       THEN /\ docs' = [docs EXCEPT ![i] = Overlaid(@, a.batch)]
            /\ stems' = [stems EXCEPT ![i] = IF a.stem /\ "stem" \in tables[i] THEN StemRows(@, a.batch) ELSE @]
            /\ schema' = [schema EXCEPT ![i] = IF "schema" \in tables[i] THEN SchemaOf(i, a.batch) ELSE @]
            /\ torn' = IF "schema" \in tables[i] THEN torn ELSE torn \cup {i}
            /\ IF i = entry THEN Stirs({}) ELSE UNCHANGED walk
       ELSE UNCHANGED <<docs, stems, schema, walk, torn>>
    /\ Ends(r)
    /\ UNCHANGED <<entry, lastId, tables, stemming, rules>>

Sans(f, d) == [e \in DOMAIN f \ {d} |-> f[e]]

\* DeleteDocs: fails without _docs, and deletes from whatever else there is.
DeleteDocs(r) ==
    /\ asked[r].step = "delete"
    /\ LET a == asked[r]  i == a.id IN
       IF "docs" \in tables[i]
       THEN /\ docs' = [docs EXCEPT ![i] = Sans(@, a.doc)]
            /\ stems' = [stems EXCEPT ![i] = IF a.stem THEN Sans(@, a.doc) ELSE @]
            /\ IF i = entry THEN Stirs({a.doc}) ELSE UNCHANGED walk
       ELSE UNCHANGED <<docs, stems, walk>>
    /\ Ends(r)
    /\ UNCHANGED <<entry, lastId, tables, schema, stemming, rules, torn>>

\* DropIndex: a statement a table, then the row.
DropTable(r) ==
    /\ asked[r].step = "drop" /\ asked[r].at <= Len(Parts)
    /\ LET i == asked[r].id  p == Parts[asked[r].at] IN
       /\ tables' = [tables EXCEPT ![i] = @ \ {p}]
       /\ docs' = [docs EXCEPT ![i] = IF p = "docs" THEN NoDocs ELSE @]
       /\ stems' = [stems EXCEPT ![i] = IF p = "stem" THEN NoDocs ELSE @]
       /\ schema' = [schema EXCEPT ![i] = IF p = "schema" THEN {} ELSE @]
    /\ asked' = [asked EXCEPT ![r].at = @ + 1]
    /\ Stirs(DocIds)
    /\ UNCHANGED <<entry, lastId, stemming, rules, torn>>

\* Faulty: the row stays.
DropEntryLate(r) ==
    /\ asked[r].step = "drop" /\ asked[r].at > Len(Parts)
    /\ Ends(r) /\ Stirs(DocIds)
    /\ UNCHANGED <<entry, lastId, tables, docs, stems, schema, stemming, rules, torn>>

DropEntry(r) ==
    /\ asked[r].step = "drop" /\ asked[r].at > Len(Parts)
    /\ entry' = IF entry = asked[r].id THEN 0 ELSE entry
    /\ Ends(r) /\ Stirs(DocIds)
    /\ UNCHANGED <<lastId, tables, docs, stems, schema, stemming, rules, torn>>

SaveSearchConfig(s, rs) ==
    /\ <<s, rs>> # <<stemming, rules>> /\ stemming' = s /\ rules' = rs /\ Stirs({})
    /\ UNCHANGED <<entry, lastId, tables, docs, stems, schema, asked, torn>>

\* The server stops.  Transactions not committed were never there.
SearchStops ==
    /\ torn' = torn \cup {asked[r].id : r \in {q \in IndexRequests : asked[q].step \in {"create", "drop"}}}
    /\ asked' = [r \in IndexRequests |-> NotAsked] /\ walk' = NotWalking
    /\ UNCHANGED <<entry, lastId, tables, docs, stems, schema, stemming, rules>>

-----------------------------------------------------------------------------
(* Which documents a query matches *)

\* Any tokenized field, or an atom in full; each alternative is a word of its own.
Term(i, w) == {d \in DOMAIN docs[i] : docs[i][d].word \in {w} \cup Alts[w]}

\* A term scoped to the field looks where its types say; to a type that was never written, in
\* the text.
Scoped(i, w) ==
    {d \in Term(i, w) : docs[i][d].type \in (IF schema[i] = {} THEN {"text"} ELSE schema[i])}

\* A stemmed term is not expanded.
Stemmed(i, w, s) ==
    IF s THEN {d \in DOMAIN stems[i] \cap DOMAIN docs[i] : stems[i][d] = w} \cup
              {d \in DOMAIN docs[i] : docs[i][d].type = "atom" /\ docs[i][d].word = w}
    ELSE {d \in DOMAIN docs[i] : docs[i][d].word = w}

Matched(i, q, s) ==
    CASE q.kind = "all" -> DOMAIN docs[i]
      [] q.kind = "word" -> Term(i, q.word)
      [] q.kind = "field" -> Scoped(i, q.word)
      [] q.kind = "not" -> DOMAIN docs[i] \ Term(i, q.word)
      [] q.kind = "stem" -> Stemmed(i, q.word, s)

\* matchRules: a rule applies to the query as it was written; the first to pin a document wins,
\* and hiding beats pinning.  A pin is named by its rule's place and its own.
Applying(rs, q) == {k \in DOMAIN rs : rs[k].word = q.word}
Hidden(rs, q) == UNION {rs[k].hide : k \in Applying(rs, q)}
Pinning(rs, q) == UNION {{k} \X DOMAIN rs[k].pins : k \in Applying(rs, q)}
PinAt(rs, p) == rs[p[1]].pins[p[2]]
Sooner(o, p) == o[1] < p[1] \/ (o[1] = p[1] /\ o[2] < p[2])
Pins(rs, q) ==
    {p \in Pinning(rs, q) : /\ PinAt(rs, p).id \notin Hidden(rs, q)
                            /\ \A o \in Pinning(rs, q) : Sooner(o, p) => PinAt(rs, o).id # PinAt(rs, p).id}
PinIds(rs, q) == {PinAt(rs, p).id : p \in Pins(rs, q)}

\* Pins stand by their positions, and by their rules.
Outranks(rs, o, p) ==
    LET x == PinAt(rs, o).pos  y == PinAt(rs, p).pos IN x < y \/ (x = y /\ Sooner(o, p))

\* A finite set in order, given what comes before each.
Ordered(S, before) == [k \in 1..Cardinality(S) |-> CHOOSE d \in S : Cardinality(before[d]) = k - 1]

\* The pins whose documents exist.
Live(i, rs, q) ==
    LET here == {p \in Pins(rs, q) : PinAt(rs, p).id \in DOMAIN docs[i]}
        order == Ordered(here, [p \in here |-> {o \in here : Outranks(rs, o, p)}])
    IN  [k \in DOMAIN order |-> PinAt(rs, order[k])]

\* What is hidden, and what is pinned, is out of the count, the page and the facets.
Counted(i, q, s, rs) == Matched(i, q, s) \ (Hidden(rs, q) \cup PinIds(rs, q))

Before(i, d, e) == docs[i][d].rank > docs[i][e].rank \/ (docs[i][d].rank = docs[i][e].rank /\ d < e)

\* The page's order; collapsed, a tag's best only.
Found(i, q, s, rs) ==
    LET all == Counted(i, q, s, rs)
    IN  {d \in all : q.collapse => \A e \in all : docs[i][e].tag = docs[i][d].tag => e = d \/ Before(i, d, e)}
Natural(i, q, s, rs) ==
    LET found == Found(i, q, s, rs) IN Ordered(found, [d \in found |-> {e \in found : Before(i, e, d)}])

-----------------------------------------------------------------------------
(* Reading *)

Least(a, b) == IF a < b THEN a ELSE b

Walk(kind, q, n) ==
    [step |-> "ask", kind |-> kind, query |-> q, limit |-> n, offset |-> 0, shown |-> <<>>, still |-> TRUE,
     id |-> 0, stem |-> FALSE, rules |-> <<>>, total |-> 0, exact |-> FALSE, fetched |-> <<>>, more |-> FALSE,
     kept |-> IF entry = 0 THEN {} ELSE DOMAIN docs[entry]]

StartsWalk(kind, q, n) ==
    /\ walk = NotWalking /\ entry # 0 /\ walk' = Walk(kind, q, n)
    /\ UNCHANGED <<entry, lastId, tables, docs, stems, schema, stemming, rules, asked, torn>>

Fails == walk' = NotWalking
Readable(i, q, s) == MainParts \subseteq tables[i] /\ (q.kind = "stem" /\ s => "stem" \in tables[i])

\* Search: the index, the settings and the count.
SearchCounts ==
    /\ walk.step = "ask" /\ walk.kind = "search"
    /\ IF entry = 0 \/ ~Readable(entry, walk.query, stemming) THEN Fails
       ELSE LET n == Cardinality(Counted(entry, walk.query, stemming, rules)) IN
            walk' = [walk EXCEPT !.step = "page", !.id = entry, !.stem = stemming, !.rules = rules,
                                 !.total = Least(n, Accuracy), !.exact = n <= Accuracy]
    /\ UNCHANGED <<entry, lastId, tables, docs, stems, schema, stemming, rules, asked, torn>>

\* The page query: with pins, from the first document on and with room for them.
SearchPages ==
    /\ walk.step = "page"
    /\ IF ~Readable(walk.id, walk.query, walk.stem) THEN Fails
       ELSE LET pins == Pins(walk.rules, walk.query)
                from == IF pins = {} THEN walk.offset ELSE 0
                to == walk.offset + walk.limit + Cardinality(pins)
                all == Natural(walk.id, walk.query, walk.stem, walk.rules) IN
            walk' = [walk EXCEPT !.step = "pins", !.fetched = SubSeq(all, from + 1, Least(to, Len(all))),
                                 !.more = Len(all) > to]
    /\ UNCHANGED <<entry, lastId, tables, docs, stems, schema, stemming, rules, asked, torn>>

\* Each pin in its place among those before it.
PutIn(page, pin) == InsertAt(page, Least(pin.pos, Len(page)) + 1, pin.id)
Spliced(found, live) ==
    LET with[k \in 0..Len(live)] == IF k = 0 THEN found ELSE PutIn(with[k - 1], live[k]) IN with[Len(live)]

\* Faulty: the cursor counts what was shown before the pins came.
NextOffsetOver == Least(walk.offset + walk.limit + 1, MaxOffset)

\* The cursor holds an offset, and an offset has its limit.
NextOffset == Least(walk.offset + walk.limit, MaxOffset)

\* The pinned documents that exist are put in; a missing one leaves no gap.  The answer, and
\* the client's next page.
SearchReturns ==
    /\ walk.step = "pins"
    /\ IF ~Readable(walk.id, walk.query, walk.stem) THEN Fails
       ELSE LET live == Live(walk.id, walk.rules, walk.query)
                all == Spliced(walk.fetched, live)
                to == walk.offset + walk.limit
                pinned == Pins(walk.rules, walk.query) # {}
                page == IF pinned THEN SubSeq(all, walk.offset + 1, Least(to, Len(all))) ELSE walk.fetched
                more == walk.more \/ (pinned /\ Len(all) > to) IN
            walk' = [walk EXCEPT !.step = IF ~more THEN "done" ELSE IF Len(walk.shown) < MaxShown THEN "ask" ELSE "enough",
                                 !.shown = @ \o page, !.total = @ + Len(live), !.fetched = <<>>, !.more = FALSE,
                                 !.offset = NextOffset]
    /\ UNCHANGED <<entry, lastId, tables, docs, stems, schema, stemming, rules, asked, torn>>

\* Faulty: as many are passed over as were shown.
AfterCount(i) == LET all == SetToSortSeq(DOMAIN docs[i], <) IN ToSet(SubSeq(all, Len(walk.shown) + 1, Len(all)))

\* The documents after the last one shown.
After(i) == {d \in DOMAIN docs[i] : walk.shown = <<>> \/ d > Last(walk.shown)}

\* List: in the order of their ids; a client stops at a page that is not full.
ListReturns ==
    /\ walk.step = "ask" /\ walk.kind = "list"
    /\ IF entry = 0 \/ "docs" \notin tables[entry] THEN Fails
       ELSE LET page == Ordered(After(entry), [d \in After(entry) |-> {e \in After(entry) : e < d}])
                n == Least(walk.limit, Len(page)) IN
            walk' = [walk EXCEPT !.shown = @ \o SubSeq(page, 1, n), !.id = entry,
                                 !.step = IF n < walk.limit THEN "done" ELSE "ask"]
    /\ UNCHANGED <<entry, lastId, tables, docs, stems, schema, stemming, rules, asked, torn>>

WalkEnds ==
    /\ walk.step \in {"done", "enough"} /\ walk' = NotWalking
    /\ UNCHANGED <<entry, lastId, tables, docs, stems, schema, stemming, rules, asked, torn>>

-----------------------------------------------------------------------------
Writes(r) == InsertEntry(r) \/ CreateTable(r) \/ WriteDocs(r) \/ DeleteDocs(r) \/ DropTable(r) \/ DropEntry(r)

SearchNext ==
    \/ \E r \in IndexRequests : \/ \E b \in Batches : AskPut(r, b)
                                \/ \E d \in DocIds : AskDelete(r, d)
                                \/ AskDrop(r) \/ Writes(r)
    \/ \E s \in BOOLEAN, rs \in RuleLists : SaveSearchConfig(s, rs)
    \/ SearchStops
    \/ \E q \in Queries, n \in Limits : StartsWalk("search", q, n)
    \/ \E n \in Limits, q \in Queries : q.kind = "all" /\ StartsWalk("list", q, n)
    \/ SearchCounts \/ SearchPages \/ SearchReturns \/ ListReturns \/ WalkEnds

SearchSpec == SearchInit /\ [][SearchNext]_searchVars

-----------------------------------------------------------------------------
\* Every variable has its type; documents are only in tables that exist.
SearchTyped ==
    /\ entry \in 0..lastId /\ lastId \in 0..MaxIndexIds
    /\ \A i \in Ids : /\ tables[i] \subseteq ToSet(Parts)
                      /\ DOMAIN docs[i] # {} => "docs" \in tables[i]
                      /\ DOMAIN stems[i] # {} => "stem" \in tables[i]
    /\ walk # NotWalking => walk.offset <= MaxOffset /\ ToSet(walk.shown) \subseteq DocIds

\* An index that is listed has its tables once nobody is making or dropping it, unless the
\* server stopped in the middle.
IndexWhole ==
    (\A r \in IndexRequests : asked[r] = NotAsked) /\ entry \notin torn \cup {0} => MainParts \subseteq tables[entry]

\* A term scoped to a field finds what the term alone finds there, whichever types documents
\* have written the field as over time, unless one was written before _schema was made.
ScopedFindsAll ==
    \A w \in DOMAIN Alts : entry # 0 /\ entry \notin torn /\ MainParts \subseteq tables[entry] => Scoped(entry, w) = Term(entry, w)

Finished(kind) == walk.step = "done" /\ walk.kind = kind

\* What a search has to show: what matches and is not hidden, and the pinned that exist.
Matches == Matched(walk.id, walk.query, walk.stem) \ Hidden(walk.rules, walk.query)
PinsHere == PinIds(walk.rules, walk.query) \cap DOMAIN docs[walk.id]
ShownWhole == Finished("search") /\ walk.still /\ Cardinality(Matches \cup PinsHere) <= MaxOffset

\* Whoever follows the cursors over an index nobody changes, and that has no more to show than
\* an offset reaches, is shown every document that matches and is not hidden, and every pinned
\* one that exists, each once; an exact total is their number when nothing is collapsed.
PagesTogether ==
    ShownWhole =>
        LET seen == ToSet(walk.shown) IN
        /\ Cardinality(seen) = Len(walk.shown) /\ PinsHere \subseteq seen /\ seen \subseteq Matches \cup PinsHere
        /\ \A d \in Matches : d \in seen \/ (walk.query.collapse /\ \E e \in seen : docs[walk.id][e].tag = docs[walk.id][d].tag)
        /\ walk.exact /\ ~walk.query.collapse => walk.total = Len(walk.shown)

\* A pinned document stands at its position, counted over all the pages, when there are
\* documents enough before it and no other asked for the same place.
PinnedInPlace ==
    ShownWhole =>
        LET pins == Live(walk.id, walk.rules, walk.query) IN
        \A k \in DOMAIN pins :
            /\ \A j \in DOMAIN pins : j # k => pins[j].pos # pins[k].pos
            /\ pins[k].pos <= Len(walk.shown) - Len(pins)
            => walk.shown[pins[k].pos + 1] = pins[k].id

\* A document that is there while the list is read, whatever else comes and goes, is listed once.
ListedThroughout ==
    Finished("list") =>
        /\ Cardinality(ToSet(walk.shown)) = Len(walk.shown)
        /\ walk.kept \subseteq ToSet(walk.shown)

\* An index that is listed is whole, a term scoped to a field finds what the field holds, and page
\* after page of a search, or of the list, shows what there is, in its place.
SearchHolds == SearchTyped /\ IndexWhole /\ ScopedFindsAll /\ PagesTogether /\ PinnedInPlace /\ ListedThroughout

\* A client that follows the cursors of an index nobody changes is shown no document twice.
NoneTwice == walk.step # "none" /\ walk.still => Cardinality(ToSet(walk.shown)) = Len(walk.shown)

=============================================================================
