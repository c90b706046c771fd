---------------------------- MODULE SearchPages ----------------------------
(***************************************************************************)
(* A search and the stream of its answers: the query is checked against the  *)
(* fields, the engine is asked for page after page, the server filters the   *)
(* hits once more and sends them in responses of its own. The index search   *)
(* (services/v1/search) and the search of a collection (services/v1/database *)
(* search_runner.go, search_reader.go) are two copies of it that differ.     *)
(***************************************************************************)
EXTENDS Naturals, Sequences, FiniteSets, SequencesExt

CONSTANTS
    MaxHits,     \* bound: hits of the query
    PageSizes,   \* page sizes asked for
    FirstPages,  \* pages asked for; 0 is all of them
    SFields      \* the queryable fields, see Field

ASSUME 0 \in FirstPages /\ 0 \notin PageSizes

VARIABLES
    ask,     \* the request
    hits,    \* what the engine finds: for each hit, whether the filter holds
    it,      \* the iterator and its page reader
    resp,    \* hits of the response being put together
    streamed,    \* the responses streamed
    pageNo,  \* the number of the response
    pstep    \* start, pull, flush, done, failed, refused

spvars == <<ask, hits, it, resp, streamed, pageNo, pstep>>

NoField == "none"

\* mem: the name the engine knows it by.
Field == [name : STRING, mem : STRING, type : STRING, indexed : BOOLEAN,
          faceted : BOOLEAN, sortable : BOOLEAN]

Names == {f.name : f \in SFields}
FieldOf(n) == CHOOSE f \in SFields : f.name = n
MemOf(n) == FieldOf(n).mem

\* A request names at most one field for each purpose; "all" means no fields.
PlainAsk == [kind |-> "index", search |-> NoField, facet |-> NoField, sort |-> NoField,
          group |-> NoField, vector |-> NoField]

Asked == {[PlainAsk EXCEPT !.kind = k, !.search = s, !.facet = f, !.sort = o, !.group = g, !.vector = v] :
            k \in {"index", "collection"}, s \in Names \cup {NoField, "nosuch"},
            f \in Names \cup {NoField}, o \in Names \cup {NoField}, g \in Names \cup {NoField},
            v \in Names \cup {NoField}}

FirstRead == [page |-> <<>>, has |-> FALSE, pages |-> <<>>, pageNo |-> 1, last |-> FALSE,
              err |-> FALSE, reads |-> 0]

SpInit ==
    /\ \E q \in Asked, z \in PageSizes, p \in FirstPages, n \in 0..MaxHits :
        /\ q.group # NoField => q.kind = "index"
        /\ n # 1 => q = [PlainAsk EXCEPT !.kind = q.kind, !.group = q.group]
        /\ n = 1 => p = 0 /\ z = 1
        /\ ask = [query |-> q, size |-> z, page |-> p]
        /\ hits \in [1..n -> BOOLEAN]
    /\ it = FirstRead
    /\ resp = <<>> /\ streamed = <<>> /\ pageNo = 1
    /\ pstep = "start"

-----------------------------------------------------------------------------
(***************************************************************************)
(* The query. A field that is not there, or lacks what its purpose needs,    *)
(* refuses the request; the others go to the engine under its names.         *)
(***************************************************************************)
Known(n) == n \in Names \cup {NoField}

\* getSearchFields: all the indexed strings when none is named.
SearchFieldsOk(q) ==
    q.search # NoField =>
        /\ FieldOf(q.search).indexed
        /\ q.kind = "index" => FieldOf(q.search).type \notin {"int32", "int64", "double"}

getSearchFields(q) ==
    IF q.search = NoField THEN {f.mem : f \in {g \in SFields : g.type = "string" /\ g.indexed}}
    ELSE {MemOf(q.search)}

FacetFieldsOk(q) == q.facet # NoField => FieldOf(q.facet).faceted
getFacetFields(q) == IF q.facet = NoField THEN {} ELSE {MemOf(q.facet)}

SortOrderingOk(q) == q.sort # NoField => FieldOf(q.sort).sortable

getSortOrdering(q) == IF q.sort = NoField THEN {} ELSE {MemOf(q.sort)}

GroupByOk(q) == q.group # NoField => FieldOf(q.group).faceted /\ FieldOf(q.group).type = "string"
getGroupBy(q) == IF q.group = NoField THEN {} ELSE {MemOf(q.group)}

VectorOk(q) == q.vector # NoField => FieldOf(q.vector).type = "vector"

Accepted(q) ==
    /\ Known(q.search) /\ SearchFieldsOk(q)
    /\ FacetFieldsOk(q) /\ SortOrderingOk(q) /\ GroupByOk(q) /\ VectorOk(q)

\* What the engine is asked (getBaseSearchParam). A vector is named as it is.
ToEngine(q) ==
    [query |-> getSearchFields(q), facet |-> getFacetFields(q), sort |-> getSortOrdering(q),
     group |-> getGroupBy(q), vector |-> {q.vector} \ {NoField}]

Grouped == ask.query.group # NoField

Begin ==
    /\ pstep = "start"
    /\ IF Accepted(ask.query)
       THEN /\ pstep' = "pull"
            /\ it' = [it EXCEPT !.pageNo = IF ask.page = 0 THEN 1 ELSE ask.page]
            /\ pageNo' = IF ask.page > 0 THEN ask.page ELSE 1
       ELSE pstep' = "refused" /\ UNCHANGED <<it, pageNo>>
    /\ UNCHANGED <<ask, hits, resp, streamed>>

-----------------------------------------------------------------------------
(***************************************************************************)
(* Pages of the engine.                                                     *)
(***************************************************************************)

\* The hits of page n, by position.
EnginePage(n) ==
    LET from == (n - 1) * ask.size
        all == [i \in 1..Len(hits) |-> i]
    IN  SubSeq(all, from + 1, IF from + ask.size < Len(hits) THEN from + ask.size ELSE Len(hits))

\* Mutant: a row that fills a page is lost.
SplitLosing(rows) ==
    FoldLeft(LAMBDA acc, row :
                IF Len(acc.pg) + 1 < ask.size THEN [acc EXCEPT !.pg = Append(@, row)]
                ELSE [pg |-> <<>>, pages |-> Append(acc.pages, acc.pg)],
             [pg |-> <<>>, pages |-> <<>>], rows)

\* read fills pages of the size asked for; append says when one is full.
Split(rows) ==
    FoldLeft(LAMBDA acc, row :
                LET pg == Append(acc.pg, row)
                IN  IF Len(pg) < ask.size THEN [acc EXCEPT !.pg = pg]
                    ELSE [pg |-> <<>>, pages |-> Append(acc.pages, pg)],
             [pg |-> <<>>, pages |-> <<>>], rows)

PagesOf(rows) ==
    LET s == Split(rows) IN IF s.pg = <<>> THEN s.pages ELSE Append(s.pages, s.pg)

\* Whether this is the last page. The search of an index does not look; that of
\* a collection stops at a page with room left.
IndexLast(pg) == FALSE

CollectionLast(pg) == Len(pg) < ask.size

LastPage(pg) == IF ask.query.kind = "index" THEN IndexLast(pg) ELSE CollectionLast(pg)

AfterRead(n) == n + 1

\* pageReader.next: another page of the engine when there is none at hand. The
\* engine may fail.
NextPage ==
    /\ pstep = "pull" /\ ~it.has /\ ~it.err
    /\ LET pages == IF it.pages = <<>> THEN PagesOf(EnginePage(it.pageNo)) ELSE it.pages
           read == it.pages = <<>>
           moved == [it EXCEPT !.pageNo = IF read THEN AfterRead(@) ELSE @,
                               !.reads = IF read THEN @ + 1 ELSE @]
       IN  \/ /\ pages # <<>>
              /\ it' = [moved EXCEPT !.pages = Tail(pages), !.page = Head(pages), !.has = TRUE,
                                     !.last = LastPage(Head(pages))]
              /\ UNCHANGED pstep
           \/ /\ pages = <<>>
              /\ it' = [moved EXCEPT !.last = TRUE]
              /\ pstep' = "flush"
           \/ /\ read
              /\ it' = [it EXCEPT !.err = TRUE]
              /\ pstep' = "flush"
    /\ UNCHANGED <<ask, hits, resp, streamed, pageNo>>

\* A row: a hit that passes the filter, or a group whatever passes of it.
Kept(row) == Grouped \/ hits[row]

ResponseEnds(r) == Len(r) = ask.size

TakeRow ==
    /\ pstep = "pull" /\ it.has /\ it.page # <<>> /\ ~it.err
    /\ it' = [it EXCEPT !.page = Tail(@)]
    /\ resp' = IF Kept(Head(it.page)) THEN Append(resp, Head(it.page)) ELSE resp
    /\ pstep' = IF ResponseEnds(resp') THEN "flush" ELSE "pull"
    /\ UNCHANGED <<ask, hits, streamed, pageNo>>

\* With the page at its end, a single page is done, as is the last.
AfterPage == IF it.last \/ ask.page # 0 THEN "flush" ELSE "pull"

EndPage ==
    /\ pstep = "pull" /\ it.has /\ it.page = <<>> /\ ~it.err
    /\ pstep' = AfterPage
    /\ it' = IF it.last \/ ask.page # 0 THEN it ELSE [it EXCEPT !.has = FALSE]
    /\ UNCHANGED <<ask, hits, resp, streamed, pageNo>>

\* After an error there is nothing to pull.
PullAfterError ==
    /\ pstep = "pull" /\ it.err
    /\ pstep' = "flush"
    /\ UNCHANGED <<ask, hits, it, resp, streamed, pageNo>>

\* The response: none after the first when it is empty, an error only then.
FlushResponse ==
    /\ pstep = "flush"
    /\ \/ /\ resp = <<>> /\ it.err
          /\ pstep' = "failed"
          /\ UNCHANGED <<resp, streamed, pageNo>>
       \/ /\ resp = <<>> /\ ~it.err /\ pageNo > 1 /\ pageNo > ask.page
          /\ pstep' = "done"
          /\ UNCHANGED <<resp, streamed, pageNo>>
       \/ /\ resp # <<>> \/ (~it.err /\ ~(pageNo > 1 /\ pageNo > ask.page))
          /\ streamed' = Append(streamed, resp)
          /\ resp' = <<>>
          /\ pageNo' = pageNo + 1
          /\ pstep' \in {"pull", "failed"}  \* Send may fail
    /\ UNCHANGED <<ask, hits, it>>

SpNext == Begin \/ NextPage \/ TakeRow \/ EndPage \/ PullAfterError \/ FlushResponse

-----------------------------------------------------------------------------
SpTypeOK ==
    /\ pstep \in {"start", "pull", "flush", "done", "failed", "refused"}
    /\ Len(resp) <= ask.size
    /\ it.pageNo \in Nat /\ pageNo \in Nat

\* What the stream owes: the hits that pass, of all pages or of the one.
Owed ==
    SelectSeq(IF ask.page = 0 THEN [i \in 1..Len(hits) |-> i] ELSE EnginePage(ask.page), Kept)

(***************************************************************************)
(* The stream sends the hits that pass the filter, each once and in the       *)
(* engine's order: all of them when it ends well, the first of them when it   *)
(* fails (SearchRunner.Run, pageReader, FilterableSearchIterator).            *)
(***************************************************************************)
StreamedOnce ==
    /\ IsPrefix(FlattenSeq(streamed) \o resp, Owed)
    /\ pstep = "done" => FlattenSeq(streamed) = Owed

(***************************************************************************)
(* Every response is full but the last one, though the filter thins out the   *)
(* engine's pages: a client may take a short response for the end.            *)
(***************************************************************************)
ResponsesFull ==
    \A i \in 1..Len(streamed) : i < Len(streamed) => Len(streamed[i]) = ask.size

(***************************************************************************)
(* The engine is asked for no more than its pages and two empty ones: the     *)
(* loop of responses ends (the last response is found by an empty one).       *)
(***************************************************************************)
ReadsBounded == it.reads <= (Len(hits) + ask.size - 1) \div ask.size + 2

(***************************************************************************)
(* A search that reaches the engine names only fields fit for their purpose,  *)
(* by the names the engine has for them (getSearchFields, getFacetFields,     *)
(* getSortOrdering, getGroupBy, getVectorSearch).                             *)
(***************************************************************************)
EngineNamesOnly ==
    pstep \notin {"start", "refused"} =>
        LET q == ToEngine(ask.query)
            Fit(S, P(_)) == \A n \in S : \E f \in SFields : f.mem = n /\ P(f)
        IN  /\ Fit(q.query, LAMBDA f : f.indexed)
            /\ Fit(q.facet, LAMBDA f : f.faceted)
            /\ Fit(q.sort, LAMBDA f : f.sortable)
            /\ Fit(q.group, LAMBDA f : f.faceted /\ f.type = "string")
            /\ Fit(q.vector, LAMBDA f : f.type = "vector")
=============================================================================
