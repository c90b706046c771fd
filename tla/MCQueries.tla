----------------------------- MODULE MCQueries -----------------------------
(***************************************************************************)
(* Queries, writes and schemas of a collection, for TLC. The parts have no *)
(* state in common: a behaviour is one of one of them, chosen at the       *)
(* start, while the others stay as they begin.                             *)
(***************************************************************************)
EXTENDS SearchPages, QueryPlans, StreamingReads, DocumentWrites, SchemaEvolution, SearchSchemas, Imports,
        IndexRows, Projections

VARIABLE part  \* the part that runs

Parts == {"pages", "plans", "reads", "writes", "schemas", "engine", "payloads", "imports", "rows", "projections"}

\* Parts with several initial states take one of them when they do not run.
PagesRest ==
    /\ ask = [query |-> PlainAsk, size |-> 1, page |-> 0] /\ hits = <<>>
    /\ it = FirstRead /\ resp = <<>> /\ streamed = <<>> /\ pageNo = 1 /\ pstep = "start"
PlansRest == pk = <<"a">> /\ FInit
ReadsRest == table = ReadKeys /\ SrInit
EngineRest == ikind = "index" /\ strict = FALSE /\ SSInit
ImportsRest == imStored = [v \in {} |-> NoVersion.sch] /\ ImInit
RowsRest == irType = "string" /\ IrInit
SchemasRest == lenient = FALSE /\ versions = <<CHOOSE s \in FieldChoices : TRUE>> /\ EvInit

Init ==
    /\ part \in Parts
    /\ DInit
    /\ PInit
    /\ PjInit
    /\ IF part = "pages" THEN SpInit ELSE PagesRest
    /\ IF part = "plans" THEN FInit ELSE PlansRest
    /\ IF part = "reads" THEN SrInit ELSE ReadsRest
    /\ IF part = "schemas" THEN EvInit ELSE SchemasRest
    /\ IF part = "engine" THEN SSInit ELSE EngineRest
    /\ IF part = "imports" THEN ImInit ELSE ImportsRest
    /\ IF part = "rows" THEN IrInit ELSE RowsRest

KeepOthers ==
    /\ part' = part
    /\ part # "pages" => UNCHANGED spvars
    /\ part # "plans" => UNCHANGED fvars
    /\ part # "reads" => UNCHANGED srvars
    /\ part # "writes" => UNCHANGED dvars
    /\ part # "schemas" => UNCHANGED evvars
    /\ part # "engine" => UNCHANGED ssvars
    /\ part # "payloads" => UNCHANGED pvars
    /\ part # "imports" => UNCHANGED imvars
    /\ part # "rows" => UNCHANGED irvars
    /\ part # "projections" => UNCHANGED pjvars

Next ==
    \/ part = "pages" /\ SpNext /\ KeepOthers
    \/ part = "plans" /\ FNext /\ KeepOthers
    \/ part = "reads" /\ SrNext /\ KeepOthers
    \/ part = "writes" /\ DNext /\ KeepOthers
    \/ part = "schemas" /\ EvNext /\ KeepOthers
    \/ part = "engine" /\ SSNext /\ KeepOthers
    \/ part = "payloads" /\ PNext /\ KeepOthers
    \/ part = "imports" /\ ImNext /\ KeepOthers
    \/ part = "rows" /\ IrNext /\ KeepOthers
    \/ part = "projections" /\ PjNext /\ KeepOthers

Spec == Init /\ [][Next]_<<part, spvars, fvars, srvars, dvars, evvars, ssvars, pvars, imvars, irvars, pjvars>>

(***************************************************************************)
(* Search requests: every hit is streamed once, responses are full, the    *)
(* engine is asked for no page beyond the last and only for the names it   *)
(* knows (SearchPages).                                                    *)
(***************************************************************************)
PagesCorrect ==
    part = "pages" => SpTypeOK /\ ReadsBounded /\ StreamedOnce /\ ResponsesFull /\ EngineNamesOnly

(***************************************************************************)
(* Query plans: whichever of the primary key, an index and the search      *)
(* engine answers a filter, it loses no document that matches and adds     *)
(* none (QueryPlans, Filters); and the entries of an index are those of    *)
(* the documents, in the order of their values, except where a value that  *)
(* is null or missing met an empty string (IndexRows).                     *)
(***************************************************************************)
PlansCorrect ==
    /\ part = "plans" => FTypeOK /\ SearchLosesNothing /\ SearchExactOnTexts /\ IndexPlanExact /\ KeyPlanExact
    /\ part = "rows" => EntriesAsBuilt /\ NoEntryLost /\ EntriesInOrder

(***************************************************************************)
(* Streaming reads: a scan that outlives its transaction loses no row,     *)
(* repeats one only where it starts again, and keeps to skip and limit     *)
(* (StreamingReads); of each row the fields the request selects are        *)
(* returned, with that row's values (Projections).                         *)
(***************************************************************************)
ReadsCorrect ==
    /\ part = "reads" => SrTypeOK /\ NoRowLost /\ RepeatsOnlyAtRestart /\ SkipAndLimit
    /\ part = "projections" => RowIsProjection /\ BadListRefused

(***************************************************************************)
(* Updates and deletes: a row is stored under the key its document has,    *)
(* exactly the rows the filter and the limit select are written, and       *)
(* creation times stay (DocumentWrites).                                   *)
(***************************************************************************)
WritesCorrect ==
    part = "writes" => DTypeOK /\ CreationTimesAgree /\ KeyMatchesDoc /\ WriteExact

(***************************************************************************)
(* Schema versions: a row read at a later version fits it, converted late  *)
(* or at every step alike, and a compatible change keeps every row         *)
(* readable (SchemaEvolution).                                             *)
(***************************************************************************)
SchemasCorrect ==
    part = "schemas" => EvTypeOK /\ ReadFitsSchema /\ LateConversionAgrees /\ CompatibleKeepsRows

(***************************************************************************)
(* Schemas in the search engine: the engine has what the committed schema  *)
(* asks for, a request tried again heals what a failed one left, the       *)
(* engine is asked for nothing it must refuse, and values are packed where *)
(* it holds strings (SearchSchemas).                                       *)
(***************************************************************************)
EngineCorrect ==
    part = "engine" => SSTypeOK /\ EngineFits /\ DeltaApplies /\ PackedForString

(***************************************************************************)
(* Payloads: what is stored is the document with its digits converted and  *)
(* its defaults filled in, it has the types of the schema, and it can be   *)
(* written back (Payloads).                                                *)
(***************************************************************************)
PayloadsCorrect ==
    part = "payloads" => PTypeOK /\ StoredAsOught /\ StoredTyped /\ WritesBack

(***************************************************************************)
(* Imports: all documents or none are stored, the inferred schema accepts  *)
(* them, and rows and caches agree with the stored versions while no       *)
(* evolution failed (Imports).                                             *)
(***************************************************************************)
ImportsCorrect ==
    part = "imports" => ImTypeOK /\ AllOrNothing /\ InferredAccepts /\ VersionsAgree

-----------------------------------------------------------------------------
(* Servers are interchangeable; the two parts that have some have the same. *)
Interchangeable == Permutations(SSServers)

(* The fields of a search index. *)
SFieldOf(n, m, t, i, f, s) == [name |-> n, mem |-> m, type |-> t, indexed |-> i, faceted |-> f, sortable |-> s]
IndexFields ==
    {SFieldOf("title", "title", "string", TRUE, TRUE, FALSE),
     SFieldOf("id", "_tigris_id", "string", TRUE, TRUE, TRUE),
     SFieldOf("n", "n", "int64", TRUE, FALSE, TRUE),
     SFieldOf("vec", "vec", "vector", FALSE, FALSE, FALSE)}

(* Schemas of an index in the search engine. *)
Word == Fld("x", "string")
SortedWord == [Word EXCEPT !.search = {TRUE}, !.sort = {TRUE}]
ItemsOf(items) == [Fld("a", "array") EXCEPT !.items = items]
FieldsIn(fs) == [Fld("o", "object") EXCEPT !.fields = fs]
SchemaWith(fs) == [fields |-> fs, keys |-> <<>>]
EngineSchemas ==
    {SchemaWith({Word}), SchemaWith({Word, ItemsOf("unknown")}), SchemaWith({SortedWord, ItemsOf("string")}),
     SchemaWith({Word, [ItemsOf("object") EXCEPT !.fields = {Fld("n", "int32")}]}),
     SchemaWith({Fld("x", "int64"), Fld("id", "string"), FieldsIn({Word, Fld("d", "datetime")})}),
     SchemaWith({[FieldsIn({}) EXCEPT !.index = TRUE]})}

(* Collections, documents and filters. *)
FieldType(t, sub) == [type |-> t, sub |-> sub]
CollectionFields ==
    [a |-> FieldType("int", ""), b |-> FieldType("int", ""), s |-> FieldType("string", ""), t |-> FieldType("array", "int")]
KeysOfCollections == {<<"a">>, <<"a", "b">>}
IndexedFieldSeq == <<"b", "s">>

Lit(j, n, a) == [j |-> j, n |-> n, a |-> a]
NumLit(n) == Lit("num", n, <<>>)
StrLit(n) == Lit("str", n, <<>>)
NullLit == Lit("null", 0, <<>>)
Eq(k, l) == [key |-> k, lit |-> l, ops |-> <<>>, arr |-> <<>>]
OpsOn(k, ops) == [key |-> k, lit |-> NullLit, ops |-> ops, arr |-> <<>>]
Op(k, o, l) == OpsOn(k, <<[op |-> o, lit |-> l]>>)
Group(k, os) == [key |-> k, lit |-> NullLit, ops |-> <<>>, arr |-> os]
Conditions ==
    {Eq("a", NumLit(1)), Eq("a", NumLit(2)), Eq("b", NumLit(1)), Eq("b", NullLit), Op("b", "$gt", NumLit(1)),
     Op("b", "$lte", NumLit(1)), Eq("s", StrLit(2)), Op("s", "$lt", StrLit(3)),
     Op("s", "$contains", StrLit(2)), Op("s", "$not", StrLit(3)), Eq("t", NumLit(1)), Op("t", "$gt", NumLit(1)),
     OpsOn("b", <<[op |-> "$gt", lit |-> NumLit(1)], [op |-> "$lt", lit |-> NumLit(3)]>>)}
RareConditions ==
    {Op("b", "$gte", NumLit(2)), Op("b", "$lt", NumLit(2)), Op("s", "$gt", StrLit(2)), Op("s", "$lt", NumLit(3)),
     Eq("t", Lit("arr", 0, <<1, 2>>)), Eq("a", StrLit(1)), Eq("z", NumLit(1))}
FewConditions == {Eq("a", NumLit(1)), Op("b", "$gt", NumLit(1)), Eq("s", StrLit(2))}
OnText == {Eq("s", StrLit(1)), Eq("s", StrLit(2)), Op("s", "$lt", StrLit(3))}
Junctions == {"$and", "$or"}
Two(A) == {Group(op, <<<<x>>, <<y>>>>) : op \in Junctions, x, y \in A}
Single == {<<>>} \cup {<<x>> : x \in Conditions \cup RareConditions}
Filters2 ==
    Single \cup {<<x, y>> : x, y \in Conditions} \cup {<<x>> : x \in Two(Conditions)}
    \cup {<<x, p>> : x \in FewConditions, p \in Two(OnText)}
    \cup {<<Group(op, <<<<x>>, <<p>>>>)>> : op \in Junctions, x \in FewConditions, p \in Two(OnText)}
    \cup {<<Group(op, <<<<x, y>>, <<z>>>>)>> : op \in Junctions, x, y, z \in OnText}
    \cup {<<Group("$and", <<<<Eq("a", NumLit(1))>>>>)>>}
QueryOf(raw, f, asc, sec, off) == [raw |-> raw, sort |-> [field |-> f, asc |-> asc], secondary |-> sec, offset |-> off]
SomeQueries ==
    {QueryOf(raw, "", TRUE, sec, FALSE) : raw \in Filters2, sec \in BOOLEAN}
    \cup {QueryOf(raw, f, FALSE, sec, off) : raw \in Single, f \in {"a", "b", "s", "t"}, sec, off \in BOOLEAN}

ValueOf(t, n) == [t |-> t, n |-> n, a |-> <<>>]
ArrayOf(a) == [t |-> "array", n |-> 0, a |-> a]
Documents ==
    {[a |-> ValueOf("int", a), b |-> b, s |-> ValueOf("string", s), t |-> t] :
        a \in {1, 2}, b \in {ValueOf("int", 1), ValueOf("int", 2), Null, Missing}, s \in 1..3,
        t \in {ArrayOf(<<1, 2>>), ArrayOf(<<2>>)}}

(* Values of indexed fields: three strings and doubles, two of which look alike in some forms. *)
Ranks == [t \in {"string", "double"} |-> 1..3] @@ [t \in {"bool"} |-> {0, 1}] @@ [t \in {"int64", "datetime"} |-> {1, 2}]
Forms == [string |-> <<1, 2, 2>>, double |-> <<1, 1, 2>>]

(* Documents to project. *)
ProjectedDocs == UNION {[S -> {1, 2}] : S \in SUBSET {"a", "b", "c"}}

(* Streaming reads. *)
ReadReq(kind, match, ks, rev, from, skip, limit, json, ex) ==
    [kind |-> kind, match |-> match, keys |-> ks, reverse |-> rev, from |-> from, skip |-> skip,
     limit |-> limit, json |-> json, explicit |-> ex]
Matches2 == {{1, 2, 3, 4}, {1, 3}}
SomeReads ==
    {ReadReq("table", m, <<>>, FALSE, from, 0, 0, FALSE, ex) : m \in Matches2, from \in {0, 2}, ex \in BOOLEAN}
    \cup {ReadReq("table", m, <<>>, rev, 0, skip, limit, json, FALSE) :
            m \in Matches2, rev \in BOOLEAN, skip \in {0, 1}, limit \in {0, 2}, json \in BOOLEAN}
    \cup {ReadReq("secondary", m, <<>>, FALSE, 0, skip, 2, FALSE, FALSE) : m \in Matches2, skip \in {0, 1}}
    \cup {ReadReq("keys", {1, 3}, <<3, 1>>, FALSE, 0, 0, 0, json, FALSE) : json \in BOOLEAN}

(* Writes. *)
OnFields(id, n) == [id |-> id, n |-> n]
NoneOf == OnFields(NoVal, NoVal)
SomeInserts == {OnFields(1, 1), OnFields(2, 1), OnFields(3, 2)}
SomeWrites ==
    {WriteReq("update", OnFields(0, 1), set, inc, unset, 0) :
        set \in {NoneOf, OnFields(0, 2), OnFields(2, 0)}, inc \in {NoneOf, OnFields(1, 0), OnFields(0, 1)},
        unset \in {{}, {"n"}}}
    \cup {WriteReq("update", by, NoneOf, inc, {}, 1) :
            by \in {NoneOf, OnFields(0, 1), OnFields(1, 0)}, inc \in {OnFields(1, 0), OnFields(0, 1)}}
    \cup {WriteReq("update", OnFields(0, 1), NoneOf, NoneOf, {"id"}, 0)}
    \cup {WriteReq("delete", by, NoneOf, NoneOf, {}, limit) :
            by \in {OnFields(0, 1), NoneOf, OnFields(1, 0)}, limit \in {0, 1}}

(* Schemas of a collection. *)
SchemaOf(f, max, o, map, x, l, i) ==
    [p \in Paths |-> CASE p = <<"f">> -> SchemaField(f, max, FALSE) [] p = <<"o">> -> SchemaField(o, 0, map)
                       [] p = <<"o", "x">> -> SchemaField(x, 0, FALSE) [] p = <<"l">> -> SchemaField(l, 0, FALSE)
                       [] p = <<"l", "">> -> SchemaField(i, 0, FALSE)]
WithF(f, max) == SchemaOf(f, max, "object", FALSE, "int64", "array", "bool")
SomeSchemas ==
    {WithF(t, 0) : t \in Primitive \cup {"none"}} \cup
    {WithF("string", 2), SchemaOf("string", 0, "object", TRUE, "none", "array", "int64"),
     SchemaOf("bool", 0, "object", TRUE, "int64", "array", "bool"),
     SchemaOf("bool", 0, "string", FALSE, "none", "none", "none"),
     SchemaOf("int64", 0, "object", FALSE, "double", "array", "byte"),
     SchemaOf("string", 0, "none", FALSE, "none", "array", "string")}

(* Schemas with defaults, documents and updates. *)
Members(kids) == [PField("object") EXCEPT !.kids = kids]
Needs(kids, names) == [Members(kids) EXCEPT !.req = names]
ListOf(item) == [PField("array") EXCEPT !.items = <<item>>]
Default(t, v) == [PField(t) EXCEPT !.default = <<v>>]
CreatedField == [PField("datetime") EXCEPT !.createdAt = TRUE]
UpdatedField == [PField("datetime") EXCEPT !.updatedAt = TRUE]
PaySchemas ==
    {Needs("id" :> PField("int64") @@ "o" :> Members("n" :> PField("int64") @@ "d" :> Default("string", <<"str", "text">>))
             @@ "t" :> UpdatedField, {"id"}),
     Needs("id" :> PField("int32") @@ "a" :> ListOf(PField("int64"))
             @@ "l" :> ListOf(Needs("n" :> PField("int64") @@ "d" :> Default("bool", <<"str", "">>), {"n"})), {"id"}),
     Needs("id" :> Default("uuid", <<"str", "uuid()">>) @@ "o" :> Members("p" :> Members("c" :> CreatedField) @@ "n" :> PField("double")), {"o"}),
     Members("b" :> PField("byte") @@ "s" :> Default("datetime", <<"str", "now()">>)
             @@ "l" :> [ListOf(Members("d" :> Default("int64", <<"num", "small">>) @@ "a" :> ListOf(PField("int64")))) EXCEPT !.default = <<Arr(<<>>)>>]),
     Members("x" :> Default("int32", <<"num", "frac">>)),
     Members("x" :> Default("string", <<"str", "other()">>))}
Small == <<"num", "small">>
Digits == <<"str", "digits">>
Rows(fs) == UNION {[D -> UNION {fs[n] : n \in D}] : D \in SUBSET DOMAIN fs}
DocsOver(fs) == {Obj(r) : r \in {r \in Rows(fs) : \A n \in DOMAIN r : r[n] \in fs[n]}}
PayDocs ==
    DocsOver([id |-> {Small, Digits, <<"num", "long">>, <<"str", "text">>, <<"str", "hugedigits">>},
              o |-> {NullValue, Digits, Obj(NoMembers), Obj("n" :> Digits), Obj("n" :> Small @@ "z" :> Small), Obj("d" :> Small), Obj("p" :> NullValue), Obj("p" :> Obj(NoMembers) @@ "n" :> <<"num", "frac">>)},
              t |-> {<<"str", "datetime">>}])
    \cup DocsOver([id |-> {Small}, a |-> {NullValue, Arr(<<>>), Arr(<<Digits, Small>>), Arr(<<NullValue, <<"str", "longdigits">>>>), Small},
                   l |-> {Arr(<<Obj("n" :> Digits), Obj("n" :> Small @@ "d" :> <<"bool", TRUE>>)>>), Arr(<<Obj("z" :> Small)>>), Arr(<<NullValue>>), Arr(<<Obj("n" :> NullValue)>>), Obj(NoMembers)}])
    \cup DocsOver([b |-> {Digits, <<"str", "byte">>, <<"str", "text">>}, s |-> {<<"str", "datetime">>, <<"str", "uuid">>},
                   l |-> {Arr(<<Obj("a" :> Arr(<<Digits>>))>>), Arr(<<Obj("d" :> Digits)>>), NullValue}])
PaySigned == {Obj("id" :> Small @@ "z" :> Small), Obj("o" :> Obj("n" :> Digits))}
PaySets == {Obj("id" :> Digits), Obj("id" :> Small @@ "o" :> Obj("n" :> Digits)), Obj("o" :> NullValue @@ "id" :> Small), Obj("z" :> Small),
   Obj("l" :> Arr(<<>>)), Obj("id" :> Small @@ "a" :> Arr(<<Digits>>)), Obj("b" :> <<"str", "byte">>), Obj("o" :> Obj("n" :> Small))}

(* Batches of an import. *)
Frac == <<"num", "frac">>
Prose == <<"str", "text">>
Uuid == <<"str", "uuid">>
Bytes == <<"str", "byte">>
D1(n, v) == Obj(n :> v)
SomeBatches ==
    {<<D1("a", Small), D1("a", Frac)>>, <<D1("a", Small), D1("b", Prose)>>, <<D1("a", NullValue)>>, <<D1("b", Uuid), D1("b", Prose)>>,
     <<D1("o", D1("x", Small)), D1("o", D1("y", Bytes))>>, <<D1("l", Arr(<<Small, Frac>>)), D1("l", Arr(<<>>))>>,
     <<D1("o", D1("l", Arr(<<D1("x", Bytes), D1("x", Prose)>>)))>>, <<D1("o", D1("z", Obj(NoMembers)))>>}
FirstSchema == Members("a" :> PField("int64") @@ "o" :> Members("x" :> PField("int64")))

=============================================================================
