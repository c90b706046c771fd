---------------------------- MODULE QueryPlans ----------------------------
(***************************************************************************)
(* Plans: the keys that a read, an update or a delete looks up for its     *)
(* filter, in the primary index or in a secondary index                    *)
(* (query/filter/key_builder.go, BuildSecondaryIndexKeys), and how a read  *)
(* chooses between them, the search engine and a scan (buildReaderOptions  *)
(* and the primary index planner).                                         *)
(*                                                                         *)
(* A secondary index keeps a prefix of a string: LongPrefix strings in a   *)
(* row have the same one. A bound is <<order, value, suffix>>; the suffix  *)
(* is -1 when the key ends before it, and 0 in the rows of an index.       *)
(***************************************************************************)
EXTENDS Filters

CONSTANTS
    PrimaryKeys,   \* the primary keys, sequences of fields
    IndexedFields, \* the fields with an active secondary index, a sequence
    Queries,       \* the queries: [raw, sort, secondary, offset], a sort being
                   \* [field, asc] with field "" for none
    FDocs,         \* the documents, functions from fields to values
    LongPrefix,    \* how many strings in a row share an indexed prefix
    SortableFields, \* the fields that the search engine can sort on
    SearchReads    \* whether the configuration lets reads use the search engine

VARIABLES
    pk,       \* the fields of the primary key
    query,    \* the query: [raw, sort, secondary, offset]
    stage,    \* "idle", "parsed", "planned", "read"
    parsed,   \* its filters
    option,   \* how it is read: [kind, plan]
    returned  \* the documents returned

fvars == <<pk, query, stage, parsed, option, returned>>

NoSort == [field |-> "", asc |-> TRUE]

-----------------------------------------------------------------------------
(* Key composers (query/filter/key_builder.go). *)

Plan(q, f, keys) == [query |-> q, field |-> f, keys |-> keys, asc |-> TRUE]
NoPlans == [ok |-> FALSE, plans |-> <<>>]
Plans(ps) == [ok |-> TRUE, plans |-> ps]

OnField(sels, f, op) == SelectSeq(sels, LAMBDA s : s.field = f /\ s.op = op)

\* StrictEqKeyComposer with matchAll: equality on every field of the key.
PrimaryCompose(sels, parent) ==
    LET on(i) == OnField(sels, pk[i], "$eq")
        n == Len(pk)
    IN  IF \/ \E i \in 1..Len(sels) : sels[i].op # "$eq"
           \/ \E i \in 1..n : on(i) = <<>>
           \/ parent = "and" /\ \E i \in 1..n : Len(on(i)) > 1
           \/ parent = "or" /\ n > 1
        THEN NoPlans
        ELSE IF parent = "and"
        THEN Plans(<<Plan("EQUAL", "", <<[i \in 1..n |-> on(i)[1].val]>>)>>)
        ELSE Plans([i \in 1..Len(on(1)) |-> Plan("EQUAL", "", <<<<on(1)[i].val>>>>)])

\* The order of the types in a secondary index.
ToSecondaryOrder(v) ==
    CASE v.t = "null" -> 5
      [] v.t \in {"int", "double"} -> 10
      [] v.t = "string" -> 15
      [] v.t = "bool" -> 25 + v.n
      [] v.t = "max" -> 127
      [] OTHER -> 35

\* GenerateSortKey: only a prefix of a string is indexed.
SortKey(v) == IF v.t = "string" THEN v.n \div LongPrefix ELSE v.n

IndexParts(v, suffix) == <<ToSecondaryOrder(v), SortKey(v), suffix>>

\* StrictEqKeyComposer without matchAll: one plan for every indexed field; a
\* field that is given twice makes a plan of no type, which is never used.
SecondaryCompose(sels) ==
    LET found == SelectSeq(IndexedFields, LAMBDA f : Len(OnField(sels, f, "$eq")) = 1)
    IN  Plans([i \in 1..Len(found) |->
                  Plan("EQUAL", found[i],
                       <<IndexParts(OnField(sels, found[i], "$eq")[1].val, -1)>>)])

\* The bounds that the conditions on one field leave, the last of each kind.
Lowest == IndexParts(Null, -1)
Highest == IndexParts(MaxVal, -1)

RangeOf(sels, f) ==
    FoldLeft(LAMBDA b, s :
                 CASE s.field = f /\ s.op \in {"$gt", "$gte"} ->
                        [some |-> TRUE, begin |-> IndexParts(s.val, IF s.op = "$gt" THEN 255 ELSE -1), end |-> b.end]
                   [] s.field = f /\ s.op \in {"$lt", "$lte"} ->
                        [some |-> TRUE, begin |-> b.begin, end |-> IndexParts(s.val, IF s.op = "$lte" THEN 255 ELSE -1)]
                   [] OTHER -> b,
             [some |-> FALSE, begin |-> Lowest, end |-> Highest], sels)

\* RangeKeyComposer: one plan for every indexed field with a range.
RangeCompose(sels) ==
    LET found == SelectSeq(IndexedFields, LAMBDA f : RangeOf(sels, f).some)
    IN  IF found = <<>> THEN NoPlans
        ELSE Plans([i \in 1..Len(found) |->
                       Plan("RANGE", found[i],
                            <<RangeOf(sels, found[i]).begin, RangeOf(sels, found[i]).end>>)])

Compose(kind, sels, parent) ==
    CASE kind = "primary" -> PrimaryCompose(sels, parent)
      [] kind = "secondary" -> SecondaryCompose(sels)
      [] kind = "range" -> RangeCompose(sels)

Selectors(fs) == SelectSeq(fs, LAMBDA f : f.k = "sel")

\* The levels of a filter, breadth first: the conditions of the outermost
\* object, then those of each logical filter. Like filters make no key.
RECURSIVE Levels(_)
Levels(queue) ==
    IF queue = <<>> THEN <<>>
    ELSE LET f == Head(queue)
         IN  (IF f.k \in {"and", "or"} THEN <<[sels |-> Selectors(f.subs), parent |-> f.k]>> ELSE <<>>)
             \o Levels(Tail(queue) \o SelectSeq(f.subs, LAMBDA g : g.k # "sel"))

\* All of them: first that of the outermost object.
AllLevels(fs) ==
    <<[sels |-> Selectors(fs), parent |-> "and"]>> \o Levels(SelectSeq(fs, LAMBDA f : f.k \in {"and", "or"}))

PlansOf(kind, all) ==
    IF kind # "primary" THEN Plans(all)
    ELSE IF all = <<>> THEN [ok |-> TRUE, plans |-> <<>>]
    ELSE Plans(<<Plan("EQUAL", "", FoldLeft(LAMBDA acc, p : acc \o p.keys, <<>>, all))>>)

Joined(kind, levels, made) ==
    IF \/ \E i \in 1..Len(made) : ~made[i].ok
       \/ kind # "primary" /\ \E i \in 1..Len(levels) : levels[i].parent = "or"
    THEN NoPlans
    ELSE PlansOf(kind, FoldLeft(LAMBDA acc, m : acc \o m.plans, <<>>, made))

Composed(kind, some) == [i \in 1..Len(some) |-> Compose(kind, some[i].sels, some[i].parent)]

\* KeyBuilder.Build. The plans of the primary index are made into one, which
\* has no first element when no level has a condition.
Build(kind, fs) ==
    Joined(kind, AllLevels(fs), Composed(kind, SelectSeq(AllLevels(fs), LAMBDA l : l.sels # <<>>)))

-----------------------------------------------------------------------------
(* The plan in a secondary index (secondary_index_reader.go). *)

\* QueryPlanFromSort: the whole index of the field.
SortPlan(sort) == [Plan("FULLRANGE", sort.field, <<Lowest, Highest>>) EXCEPT !.asc = sort.asc]

indexedDataType(f) == FSchema[f].type # "array"

\* A plan is of use when the sort is on its field.
Usable(ps, sort) ==
    SelectSeq(ps, LAMBDA p : indexedDataType(p.field) /\ sort.field \in {"", p.field})

mergeWithSortPlan(p, sort) == [p EXCEPT !.asc = sort.field = "" \/ sort.asc]

\* SortQueryPlans orders ranges by the type of their field.
TypeRank(f) == CASE FSchema[f].type = "bool" -> 0
                 [] FSchema[f].type = "int" -> 1
                 [] FSchema[f].type = "double" -> 2
                 [] OTHER -> 3
SortQueryPlans(ps) == SortSeq(ps, LAMBDA p, q : TypeRank(p.field) < TypeRank(q.field))

\* The first plan of use is taken, those of equality coming first.
FirstOf(usable, sort) ==
    IF usable # <<>> THEN Plans(<<mergeWithSortPlan(usable[1], sort)>>)
    ELSE IF sort.field # "" THEN Plans(<<SortPlan(sort)>>)
    ELSE NoPlans

UsableEq(eq, sort) == IF eq.ok THEN Usable(eq.plans, sort) ELSE <<>>
UsableRanges(range, sort) == IF range.ok THEN Usable(SortQueryPlans(range.plans), sort) ELSE <<>>

BuildSecondaryIndexKeys(fs, sort) ==
    IF \/ fs = <<>> /\ sort.field = ""
       \/ IndexedFields = <<>>
       \/ sort.field \notin {""} \cup ToSet(IndexedFields)
    THEN NoPlans
    ELSE FirstOf(UsableEq(Build("secondary", fs), sort) \o UsableRanges(Build("range", fs), sort), sort)

-----------------------------------------------------------------------------
(* What a plan reads. *)

\* The rows of an index are ordered by order, value, and what follows.
Before(x, y) ==
    \E i \in 1..3 : x[i] < y[i] /\ \A j \in 1..(i - 1) : x[j] = y[j]

\* An indexed field that is missing is indexed as null.
RowOf(doc, f) == IndexParts(IF doc[f].t = "missing" THEN Null ELSE doc[f], 0)

InPlan(p, doc) ==
    IF p.query = "EQUAL"
    THEN \E i \in 1..Len(p.keys) : SubSeq(p.keys[i], 1, 2) = SubSeq(RowOf(doc, p.field), 1, 2)
    ELSE ~Before(RowOf(doc, p.field), p.keys[1]) /\ Before(RowOf(doc, p.field), p.keys[2])

KeyOf(doc) == [i \in 1..Len(pk) |-> doc[pk[i]]]

-----------------------------------------------------------------------------
(* How a read chooses (buildReaderOptions, query_planner.go). *)

RECURSIVE FieldsOf(_)
FieldsOf(fs) ==
    UNION {IF fs[i].k \in {"sel", "like"} THEN {fs[i].field} ELSE FieldsOf(fs[i].subs) : i \in 1..Len(fs)}

\* The filter of a secondary index knows the indexed fields alone.
buildSecondaryIndexKeysUsingFilter(fs, sort) ==
    IF FieldsOf(fs) \subseteq ToSet(IndexedFields)
    THEN BuildSecondaryIndexKeys(fs, sort) ELSE NoPlans

isPrefixSort(sort) == sort.field = pk[1]

\* Conditions that fix the fields of the key before the one sorted on.
IsPrefixQueryWithSuffixSort(fs, sort) ==
    LET at == CHOOSE i \in 1..Len(pk) : pk[i] = sort.field
        prefix == {pk[i] : i \in 1..(at - 1)}
        logical == Len(fs) = 1 /\ fs[1].k \in {"and", "or"}
        inner == IF logical THEN fs[1].subs ELSE fs
        found == SelectSeq(inner, LAMBDA f : f.field \in prefix /\ f.op = "$eq")
        wanted == Cardinality(prefix) * (IF logical /\ fs[1].k = "or" THEN Len(inner) ELSE 1)
    IN  /\ sort.field \in ToSet(pk)
        /\ fs # <<>> /\ prefix # {}
        /\ \A i \in 1..Len(inner) : inner[i].k = "sel"
        /\ Len(found) = wanted

Option(kind, plan) == [kind |-> kind, plan |-> plan]
NoPlan == Plan("NONE", "", <<>>)

\* The keys of the primary key; only their first field may be sorted on. The
\* builder may succeed with no plan, of which the first is then taken.
PrimaryOption(primary, sort) ==
    IF ~primary.ok THEN Option("error", NoPlan)
    ELSE IF primary.plans = <<>> THEN Option("panic", NoPlan)
    ELSE IF sort.field # "" /\ ~isPrefixSort(sort) THEN Option("error", NoPlan)
    ELSE Option("keys", primary.plans[1])

GeneratePlan(fs, sort) == PrimaryOption(Build("primary", fs), sort)

\* What is left when no index of its own serves the filter.
ScanOption(fs, sort) ==
    IF sort.field # ""
    THEN Option(IF IsPrefixQueryWithSuffixSort(fs, sort) THEN "table" ELSE "error", NoPlan)
    ELSE Option(IF ~SearchReads \/ ~IsSearchIndexed(Wrapped(fs)) THEN "table" ELSE "search", NoPlan)

ReaderOption(q, fs, secondary, primary) ==
    LET sorted == q.sort.field # ""
    IN  IF Failed(fs) THEN Option("error", NoPlan)
        ELSE IF q.secondary /\ ~q.offset /\ secondary.ok THEN Option("secondary", secondary.plans[1])
        ELSE IF sorted /\ q.sort.field \in SortableFields THEN Option("search", NoPlan)
        ELSE IF sorted /\ q.sort.field \notin ToSet(pk) THEN Option("error", NoPlan)
        ELSE IF sorted /\ isPrefixSort(q.sort) THEN Option("table", NoPlan)
        ELSE IF fs = <<>> THEN Option(IF sorted THEN "error" ELSE "table", NoPlan)
        ELSE IF primary.kind # "error" THEN primary
        ELSE ScanOption(fs, q.sort)

buildReaderOptions(q, fs) ==
    ReaderOption(q, fs, buildSecondaryIndexKeysUsingFilter(fs, q.sort), GeneratePlan(fs, q.sort))

Matching(fs) == {d \in FDocs : fs = <<>> \/ Matches(Wrapped(fs), d)}

\* What iterateOnSearchStore returns: the engine's documents, filtered.
SearchStore(fs) ==
    LET f == Wrapped(fs)
        toks == ToSearchFilter(f)
    IN  {d \in FDocs : fs = <<>> \/ ((toks = <<>> \/ EngineHolds(toks, d)) /\ MatchesDoc(f, d))}

\* The documents that a read returns, by the way it reads.
Returned(fs, o) ==
    CASE o.kind = "secondary" -> {d \in Matching(fs) : InPlan(o.plan, d)}
      [] o.kind = "search" -> SearchStore(fs)
      [] o.kind = "keys" -> {d \in FDocs : KeyOf(d) \in ToSet(o.plan.keys)}
      [] o.kind = "table" -> Matching(fs)
      [] OTHER -> {}

-----------------------------------------------------------------------------
(* A client asks one query. *)

FInit ==
    /\ pk \in PrimaryKeys
    /\ query = [raw |-> <<>>, sort |-> NoSort, secondary |-> FALSE, offset |-> FALSE]
    /\ stage = "idle" /\ parsed = <<>> /\ option = Option("none", NoPlan) /\ returned = {}

Parse(q) ==
    /\ query' = q /\ stage' = "parsed" /\ parsed' = Factorize(q.raw)
    /\ UNCHANGED <<pk, option, returned>>

Choose ==
    /\ stage = "parsed"
    /\ stage' = "planned" /\ option' = buildReaderOptions(query, parsed)
    /\ UNCHANGED <<pk, query, parsed, returned>>

ReadPlan ==
    /\ stage = "planned"
    /\ stage' = "read" /\ returned' = Returned(parsed, option)
    /\ UNCHANGED <<pk, query, parsed, option>>

FNext == (stage = "idle" /\ \E q \in Queries : Parse(q)) \/ Choose \/ ReadPlan

FTypeOK ==
    /\ pk \in PrimaryKeys /\ stage \in {"idle", "parsed", "planned", "read"} /\ returned \subseteq FDocs
    /\ option.kind \in {"none", "error", "panic", "secondary", "search", "keys", "table"}

Done(kind) == stage = "read" /\ option.kind = kind

\* Every field that the filter names is there and is not null.
Plain(d) == \A f \in FieldsOf(parsed) : d[f].t \notin {"missing", "null"}

(***************************************************************************)
(* A read that the search engine serves loses no document that its filter  *)
(* matches and whose fields the engine indexes: serialize, flatten and     *)
(* IsSearchIndexed against Selector.Matches.                               *)
(***************************************************************************)
SearchLosesNothing ==
    Done("search") => \A d \in Matching(parsed) : Plain(d) => d \in returned

(***************************************************************************)
(* On texts and doubles it returns nothing else either: MatchesDoc removes *)
(* what the flattened filter lets through.                                 *)
(***************************************************************************)
SearchExactOnTexts ==
    Done("search") /\ (\A f \in FieldsOf(parsed) : FSchema[f].type \in {"string", "double"}) =>
        \A d \in returned : Plain(d) => d \in Matching(parsed)

(***************************************************************************)
(* A read through a secondary index returns exactly the documents that its *)
(* filter matches: the bounds of RangeKeyComposer and the keys of          *)
(* StrictEqKeyComposer leave out no row of a document that matches.        *)
(***************************************************************************)
IndexPlanExact == Done("secondary") => returned = Matching(parsed)

\* Equality on the primary key alone, at one level.
OnKeyOnly(fs) ==
    /\ FieldsOf(fs) \subseteq ToSet(pk)
    /\ \/ \A i \in 1..Len(fs) : fs[i].k = "sel"
       \/ Len(fs) = 1 /\ \A i \in 1..Len(fs[1].subs) : fs[1].subs[i].k = "sel"

(***************************************************************************)
(* A filter that is equality on the primary key, at one level, reads the   *)
(* documents that it matches through their keys.                           *)
(***************************************************************************)
KeyPlanExact == Done("keys") /\ OnKeyOnly(parsed) => returned = Matching(parsed)

=============================================================================
