--------------------------- MODULE SearchSchemas ---------------------------
(***************************************************************************)
(* The schema of a search collection in the search engine beside the       *)
(* schema Tigris has committed for it: the implicit index of a collection  *)
(* (kind "collection") or an index made by the user (kind "index").        *)
(*                                                                         *)
(* A request builds and validates its schema, writes it in a transaction,  *)
(* and changes the engine at once, before the transaction commits: a       *)
(* commit that fails leaves the engine ahead. A server sees the engine as  *)
(* it was when the server started (the snapshot of the tenant manager),    *)
(* and asks the engine itself only while it updates a schema.              *)
(*                                                                         *)
(* Names are paths. An optional attribute is {} when it is not given. The  *)
(* items of an array have a type and, when they are objects, fields; they  *)
(* carry no attributes. Source validation, defaults and lengths are left   *)
(* out.                                                                    *)
(***************************************************************************)
EXTENDS Naturals, Sequences, FiniteSets, TLC

CONSTANTS SSServers,    \* Tigris servers
          SSSchemas,    \* schemas of requests
          SSReserved,   \* names a schema may not use
          MaxSSAsks     \* bound on requests and restarts

VARIABLES ikind,     \* "collection" or "index"
          lax,       \* Schema.AllowIncompatible
          strict,    \* the engine refuses to drop a field it lacks
          engine,    \* the search collection: [there, fields]
          listed,    \* the collection or index is in the metadata
          schemaRows,      \* its schemas by version
          seenEngine,      \* what each server saw in the engine when it started
          cachedIndex,      \* what each server has cached: [fresh, ver, schema, known]
          failed,    \* ghost: what was asked since the last commit and not committed
          clean,     \* ghost: since then only retries of the same request
          ssAsks

ssvars == <<ikind, lax, strict, engine, listed, schemaRows, seenEngine, cachedIndex, failed, clean, ssAsks>>

CreatedAt == <<"_tigris_created_at">>
UpdatedAt == <<"_tigris_updated_at">>
SearchId == <<"id">>
IdToSearchKey == <<"_tigris_id">>
ToSearchDateKey(name) == <<"_tigris_date">> \o name

Fld(name, type) ==
    [name |-> name, type |-> type, items |-> "unknown", fields |-> {}, index |-> FALSE, search |-> {}, facet |-> FALSE,
     sort |-> {}, primary |-> FALSE, auto |-> FALSE, id |-> FALSE, dims |-> 0, map |-> FALSE]

NoSchema == [fields |-> {}, keys |-> <<>>]

-----------------------------------------------------------------------------
(***************************************************************************)
(* What a field type allows.                                               *)
(***************************************************************************)
IsPrimitiveType(t) == t \in {"bool", "int32", "int64", "uuid", "string", "datetime", "double"}
SupportedIndexableType(t) == t \in {"bool", "int32", "int64", "uuid", "string", "datetime", "double"}
IsValidKeyType(t) == t \in {"int32", "int64", "string", "byte", "datetime", "uuid"}

SupportedSearchIndexableType(t, sub) ==
    \/ t \in {"bool", "int32", "int64", "uuid", "string", "datetime", "double", "array", "vector"}
    \/ t = "object" /\ sub = "unknown"

SupportedFacetableType(t, sub) ==
    \/ t \in {"int32", "int64", "string", "double"}
    \/ t = "array" /\ sub \in {"int32", "int64", "string", "double"}

DefaultFacetableType(t) == t \in {"int32", "int64", "double"}
DefaultSortableType(t) == t \in {"int32", "int64", "double", "datetime", "bool"}

\* The engine's type: an array of an array or of nothing is packed in a string.
toSearchFieldType(t, sub) ==
    CASE t \in {"bool", "int32", "int64", "object"} -> <<t>>
      [] t \in {"string", "byte", "uuid"} -> <<"string">>
      [] t = "datetime" -> <<"int64">>
      [] t = "double" -> <<"float">>
      [] t = "vector" -> <<"float", "[]">>
      [] t = "array" ->
            CASE sub \in {"bool", "int32", "int64", "object"} -> <<sub, "[]">>
              [] sub \in {"string", "byte", "uuid", "datetime"} -> <<"string", "[]">>
              [] sub = "double" -> <<"float", "[]">>
              [] OTHER -> <<"string">>

-----------------------------------------------------------------------------
(***************************************************************************)
(* Building and validating the schema of a request.                        *)
(***************************************************************************)
Set(optional) == optional = {TRUE}

supportableFieldForSearchAttributes(f) == f.type # "object" \/ f.fields = {}

\* FieldBuilder.Build with search defaults: searchable, and sortable when numeric.
WithDefaults(f) ==
    IF ~supportableFieldForSearchAttributes(f) THEN f
    ELSE [f EXCEPT !.search = IF @ = {} THEN {TRUE} ELSE @,
                   !.sort = IF @ = {} /\ DefaultSortableType(f.type) THEN {TRUE} ELSE @]

(***************************************************************************)
(* deserializeProperties for a search index: the fields of objects get the *)
(* defaults too, those of the items of arrays do not.                      *)
(***************************************************************************)
RECURSIVE SearchFields(_)
SearchFields(fields) ==
    {WithDefaults(IF f.type = "object" THEN [f EXCEPT !.fields = SearchFields(f.fields)] ELSE f) : f \in fields}

BuildSearch(s) ==
    LET fields == SearchFields(s.fields)
    IN  IF \E f \in fields : f.name = "id" THEN fields ELSE fields \cup {Fld("id", "string")}

\* A collection without a primary key gets a generated one.
setPrimaryKey(s) ==
    IF s.keys # <<>> THEN s
    ELSE [keys |-> <<"id">>,
          fields |-> IF \E f \in s.fields : f.name = "id" THEN s.fields
                     ELSE s.fields \cup {[Fld("id", "uuid") EXCEPT !.auto = TRUE]}]

BuildCollection(s) ==
    LET t == setPrimaryKey(s)
    IN  {[f EXCEPT !.primary = \E i \in DOMAIN t.keys : t.keys[i] = f.name] : f \in t.fields}

KeysFound(s) ==
    LET t == setPrimaryKey(s) IN \A i \in DOMAIN t.keys : \E f \in t.fields : f.name = t.keys[i]

hasIndexingAttributes(f) == f.index \/ Set(f.search) \/ f.facet \/ Set(f.sort)

\* validateFieldAttribute: the attributes a field of its type may have.
validateFieldAttribute(f, notSupported) ==
    /\ ~(notSupported /\ hasIndexingAttributes(f))
    /\ f.id => f.type \in {"string", "uuid"}
    /\ f.type = "vector" => f.dims > 0 /\ ~f.index /\ ~f.facet /\ ~Set(f.sort)
    /\ f.index => SupportedIndexableType(f.type)
    /\ Set(f.search) => SupportedSearchIndexableType(f.type, f.items)
    /\ ~Set(f.search) => ~f.facet /\ ~Set(f.sort)
    /\ f.facet => SupportedFacetableType(f.type, f.items)
    /\ Set(f.sort) => IsPrimitiveType(f.type)

RECURSIVE validateObjectFields(_, _)

validateFields(f, notSupported) ==
    IF f.type # "array" THEN validateFieldAttribute(f, notSupported)
    ELSE /\ ~f.id
         /\ CASE f.items = "unknown" -> TRUE
              [] f.items = "object" -> ~f.index /\ validateObjectFields(f, TRUE)
              [] OTHER -> validateFieldAttribute(f, notSupported)

validateObjectFields(f, notSupported) ==
    \A n \in f.fields :
        IF n.type = "object"
        THEN ~hasIndexingAttributes(n) /\ ~n.id /\ validateObjectFields(n, notSupported)
        ELSE /\ ~n.index
             /\ ~(n.type = "array" /\ n.items = "object" /\ hasIndexingAttributes(n))
             /\ validateFields(n, notSupported)

ValidateFieldAttributes(isSearch, f) ==
    /\ f.name \notin SSReserved
    /\ IF isSearch THEN ~f.primary /\ (f.id => f.type \in {"string", "uuid"})
       ELSE (f.primary => IsValidKeyType(f.type)) /\ (f.auto => f.primary)
    /\ IF f.type # "object" THEN validateFields(f, FALSE)
       ELSE /\ hasIndexingAttributes(f) => ~f.index /\ f.fields = {} /\ ~Set(f.sort) /\ ~f.facet
            /\ validateObjectFields(f, FALSE)

Fields(s) == IF ikind = "index" THEN BuildSearch(s) ELSE BuildCollection(s)

Valid(s) ==
    /\ s.fields # {}
    /\ ikind = "collection" => KeysFound(s)
    /\ \A f \in Fields(s) : ValidateFieldAttributes(ikind = "index", f)

-----------------------------------------------------------------------------
(***************************************************************************)
(* Which changes of a schema are allowed.                                  *)
(***************************************************************************)
Named(fields, name) == CHOOSE f \in fields : f.name = name
Has(fields, name) == \E f \in fields : f.name = name

\* Field.IsCompatible, for a field or for the items of an array.
CompatibleField(f, g) == (f.type = g.type \/ lax) /\ f.primary = g.primary

\* The items of an array are its one nested field, whose own fields come below.
CompatibleItems(f, g) == f.items = "unknown" \/ lax \/ f.items = g.items

RECURSIVE validateLow(_, _, _)
validateLow(existing, current, isMap) ==
    \A f \in existing :
        IF ~Has(current, f.name) THEN lax \/ isMap
        ELSE LET g == Named(current, f.name)
             IN  /\ CompatibleField(f, g)
                 /\ CompatibleItems(f, g)
                 /\ validateLow(f.fields, g.fields, g.map)

\* Of a search index, fields and the items of arrays may be dropped.
RECURSIVE validateIndexLow(_, _)
validateIndexLow(existing, current) ==
    \A f \in existing : Has(current, f.name) =>
        LET g == Named(current, f.name)
        IN  /\ f.type = g.type
            /\ "unknown" \in {f.items, g.items} \/ f.items = g.items
            /\ validateIndexLow(f.fields, g.fields)

\* The primary key keeps its fields, in their order.
SameKeys(existing, s) ==
    LET old == setPrimaryKey(existing).keys
        new == setPrimaryKey(s).keys
    IN  /\ old = new
        /\ \A i \in DOMAIN old : CompatibleField(Named(BuildCollection(existing), old[i]), Named(BuildCollection(s), new[i]))

\* The fields marked as the id, nested ones included.
RECURSIVE IdFields(_)
IdFields(fields) == {f \in fields : f.id} \cup UNION {IdFields(f.fields) : f \in fields}

SameId(existing, s) ==
    LET old == IdFields(BuildSearch(existing))
        new == IdFields(BuildSearch(s))
    IN  (old = {}) = (new = {}) /\ \A f \in old, g \in new : f.type = g.type /\ f.name = g.name

Allowed(existing, s) ==
    IF ikind = "index" THEN validateIndexLow(BuildSearch(existing), BuildSearch(s)) /\ SameId(existing, s)
    ELSE SameKeys(existing, s) /\ validateLow(BuildCollection(existing), BuildCollection(s), FALSE)

-----------------------------------------------------------------------------
(***************************************************************************)
(* NewQueryableField: the form in which a field is indexed. A field that   *)
(* is an array or an object keeps the engine's type; when that type is a   *)
(* string its values are packed, and it keeps the engine's attributes.     *)
(***************************************************************************)
NewQueryableField(name, f, known) ==
    LET complex == f.type \in {"array", "object"} /\ name \in DOMAIN known
        packThis == complex /\ known[name].type = <<"string">>
        sub == IF f.type = "array" THEN f.items ELSE "unknown"
    IN  [name |-> name, alias |-> IF name = SearchId THEN IdToSearchKey ELSE name, type |-> f.type, sub |-> sub, packThis |-> packThis,
         stype |-> IF complex THEN known[name].type ELSE toSearchFieldType(f.type, sub),
         index |-> IF packThis THEN known[name].index ELSE Set(f.search),
         facet |-> IF packThis THEN known[name].facet ELSE f.facet,
         sort |-> IF packThis THEN known[name].sort ELSE Set(f.sort),
         nested |-> IF packThis \/ f.type # "array" \/ f.items # "object" THEN {}
                    ELSE {Append(name, n.name) : n \in {m \in f.fields : ~(m.type = "array" /\ m.items \in {"object", "array"})}}]

\* The metadata fields every index has.
Metadata == [Fld("", "datetime") EXCEPT !.sort = {TRUE}, !.search = {TRUE}, !.index = TRUE]

\* Objects that have fields are flattened.
RECURSIVE buildQueryableForObject(_, _, _)
buildQueryableForObject(parent, fields, known) ==
    UNION {IF f.type = "object" /\ f.fields # {} THEN buildQueryableForObject(Append(parent, f.name), f.fields, known)
           ELSE {NewQueryableField(Append(parent, f.name), f, known)} : f \in fields}

BuildQueryableFields(fields, known) ==
    buildQueryableForObject(<<>>, fields, known)
        \cup {NewQueryableField(name, Metadata, known) : name \in {CreatedAt, UpdatedAt}}

IsReserved(q) == q.name \in {CreatedAt, UpdatedAt}

ShouldPack(q) ==
    \/ q.packThis
    \/ q.type = "array" /\ q.sub \in {"array", "unknown"}
    \/ ~IsReserved(q) /\ q.type = "datetime"

(***************************************************************************)
(* The attributes of a field in the engine. The implicit index of a        *)
(* collection indexes what can be indexed, and adds to the facets and the  *)
(* sort orders of the type those of the schema.                            *)
(***************************************************************************)
Implicit(q) ==
    [type |-> q.stype, index |-> SupportedSearchIndexableType(q.type, q.sub),
     facet |-> DefaultFacetableType(q.type) \/ q.facet, sort |-> DefaultSortableType(q.type) \/ q.sort]

Explicit(q) == [type |-> q.stype, index |-> q.index, facet |-> q.facet, sort |-> q.sort]

Attributes(q) == IF ikind = "index" THEN Explicit(q) ELSE Implicit(q)

\* buildSearchSchema: each field, its alias, and the text of a date.
StoreSchema(qs) ==
    LET own == [name \in {q.name : q \in qs} |-> Attributes(CHOOSE q \in qs : q.name = name)]
        aliases == [name \in {q.alias : q \in qs} |-> Attributes(CHOOSE q \in qs : q.alias = name)]
        dates == [name \in {ToSearchDateKey(q.name) : q \in {p \in qs : p.type = "datetime" /\ ~IsReserved(p)}} |->
                    [type |-> <<"string">>, index |-> FALSE, facet |-> FALSE, sort |-> FALSE]]
    IN  own @@ aliases @@ dates

-----------------------------------------------------------------------------
(***************************************************************************)
(* GetSearchDeltaFields: the fields to drop and those to add, a field that *)
(* is in both being dropped first. The index of a user compares the two    *)
(* schemas, the implicit one the new schema with the engine.               *)
(***************************************************************************)
NamesOf(qs) == {q.name : q \in qs}

\* Mutant: a field that a timed out request has added is added again.
LeftoversNone(added, known) == {}

\* "update request is timed out on Tigris side but succeed on search"
Leftovers(added, known) == NamesOf(added) \cap DOMAIN known

ExplicitDelta(existing, incoming, known) ==
    LET changed == {q \in incoming : ~\E e \in existing : e.name = q.name /\ Explicit(e) = Explicit(q)}
        gone == NamesOf(existing) \ NamesOf(incoming)
        new == {q \in changed : q.name \notin NamesOf(existing)}
    IN  [drops |-> gone \cup NamesOf(changed \ new) \cup Leftovers(new, known), adds |-> changed]

StateChanged(q, known) ==
    /\ q.name \in DOMAIN known
    /\ [known[q.name] EXCEPT !.type = q.stype] # Implicit(q)

ImplicitDelta(existing, incoming, known) ==
    LET new == {q \in incoming : q.name \notin NamesOf(existing)}
        changed == {q \in incoming \ new : StateChanged(q, known)}
        gone == NamesOf(existing) \ NamesOf(incoming)
    IN  [drops |-> gone \cup NamesOf(changed) \cup Leftovers(new, known), adds |-> changed \cup new]

Delta(existing, incoming, known) ==
    IF ikind = "index" THEN ExplicitDelta(existing, incoming, known) ELSE ImplicitDelta(existing, incoming, known)

\* External: the engine adds a field once, and may insist that a dropped one is there.
Accepts(known, d) ==
    /\ strict => d.drops \subseteq DOMAIN known
    /\ {q.name : q \in d.adds} \cap DOMAIN known \subseteq d.drops

Patched(known, d) ==
    LET names == {q.name : q \in d.adds}
    IN  [name \in names |-> Attributes(CHOOSE q \in d.adds : q.name = name)]
            @@ [name \in DOMAIN known \ (d.drops \cup names) |-> known[name]]

-----------------------------------------------------------------------------
NoIndex == [there |-> FALSE, fields |-> <<>>]
NoView == [ver |-> 0, schema |-> NoSchema, known |-> <<>>]
LatestVersion == IF schemaRows = <<>> THEN 0 ELSE CHOOSE v \in DOMAIN schemaRows : \A w \in DOMAIN schemaRows : w <= v

SSInit ==
    /\ ikind \in {"collection", "index"}
    /\ lax \in (IF ikind = "index" THEN {FALSE} ELSE BOOLEAN)
    /\ strict \in BOOLEAN
    /\ engine = NoIndex
    /\ listed = FALSE
    /\ schemaRows = <<>>
    /\ seenEngine = [s \in SSServers |-> <<>>]
    /\ cachedIndex = [s \in SSServers |-> [fresh |-> FALSE, is |-> NoView]]
    /\ failed = {}
    /\ clean = TRUE
    /\ ssAsks = 0

\* reloadSearch and reloadDatabase: the latest schema, with the server's snapshot.
Reloaded(s) ==
    IF listed THEN [ver |-> LatestVersion, schema |-> schemaRows[LatestVersion], known |-> seenEngine[s]] ELSE NoView

\* Every request first brings the cached tenant to the latest version.
Tracked(s) == IF cachedIndex[s].fresh THEN cachedIndex[s].is ELSE Reloaded(s)

Queryables(v) == BuildQueryableFields(Fields(v.schema), v.known)

(***************************************************************************)
(* The end of a request that got as far as the commit, after the engine    *)
(* was changed to e: a commit makes every server reload, and without it    *)
(* the server keeps what it has cached.                                    *)
(***************************************************************************)
Committed(schema, e, newRows, nowListed) ==
    /\ schemaRows' = newRows
    /\ listed' = nowListed
    /\ cachedIndex' = [s \in SSServers |-> [cachedIndex[s] EXCEPT !.fresh = FALSE]]
    /\ clean' = (~e.there \/ ~engine.there \/ (failed \subseteq {schema} /\ clean))
    /\ failed' = {}

NotCommitted(s, schema, cached) ==
    /\ cachedIndex' = [cachedIndex EXCEPT ![s] = [fresh |-> TRUE, is |-> cached]]
    /\ failed' = failed \cup {schema}
    /\ UNCHANGED <<schemaRows, listed, clean>>

Ends(s, schema, e, newRows, nowListed, cached) ==
    /\ engine' = e
    /\ Committed(schema, e, newRows, nowListed) \/ NotCommitted(s, schema, cached)

Counted(kind) == ikind = kind /\ ssAsks < MaxSSAsks /\ ssAsks' = ssAsks + 1 /\ UNCHANGED <<ikind, lax, strict, seenEngine>>

\* The engine takes a collection it has as it is (a duplicate is no error).
Made(schema) ==
    IF engine.there THEN engine
    ELSE [there |-> TRUE, fields |-> StoreSchema(BuildQueryableFields(Fields(schema), <<>>))]

Updated(v, schema) ==
    Delta(Queryables(v), BuildQueryableFields(Fields(schema), engine.fields), engine.fields)

MayUpdate(v, schema) ==
    /\ v.schema # NoSchema
    /\ schema \in {t \in SSSchemas \ {v.schema} : Allowed(v.schema, t)}
    /\ v.ver + 1 \notin DOMAIN schemaRows
    /\ engine.there
    /\ Accepts(engine.fields, Updated(v, schema))

\* A collection is changed in a clone of the database, dropped when the commit fails.
CreateCollection(s, schema) ==
    /\ Counted("collection")
    /\ Tracked(s).schema = NoSchema
    /\ Ends(s, schema, Made(schema), 1 :> schema, TRUE, Tracked(s))

UpdateCollection(s, schema) ==
    LET v == Tracked(s)
    IN  /\ Counted("collection")
        /\ MayUpdate(v, schema)
        /\ Ends(s, schema, [engine EXCEPT !.fields = Patched(engine.fields, Updated(v, schema))],
                (v.ver + 1 :> schema) @@ schemaRows, listed, v)

DropCollection(s) ==
    /\ Counted("collection")
    /\ Tracked(s).schema # NoSchema
    /\ Ends(s, NoSchema, NoIndex, <<>>, FALSE, Tracked(s))

\* A search index is put in the cached project itself, before the commit.
CreateSearchIndex(s, schema) ==
    /\ Counted("index")
    /\ Tracked(s).schema = NoSchema
    /\ 1 \notin DOMAIN schemaRows
    /\ Ends(s, schema, Made(schema), (1 :> schema) @@ schemaRows, TRUE, [ver |-> 1, schema |-> schema, known |-> <<>>])

UpdateSearchIndex(s, schema) ==
    LET v == Tracked(s)
    IN  /\ Counted("index")
        /\ MayUpdate(v, schema)
        /\ Ends(s, schema, [engine EXCEPT !.fields = Patched(engine.fields, Updated(v, schema))],
                (v.ver + 1 :> schema) @@ schemaRows, listed, [ver |-> v.ver + 1, schema |-> schema, known |-> engine.fields])

DeleteSearchIndex(s) ==
    /\ Counted("index")
    /\ Tracked(s).schema # NoSchema
    /\ listed
    /\ Ends(s, NoSchema, NoIndex, <<>>, FALSE, Tracked(s))

\* newTenantManager: the one time a server reads all the schemas of the engine.
StartServer(s) ==
    /\ ssAsks < MaxSSAsks /\ ssAsks' = ssAsks + 1
    /\ seenEngine' = [seenEngine EXCEPT ![s] = engine.fields]
    /\ cachedIndex' = [cachedIndex EXCEPT ![s] = [fresh |-> FALSE, is |-> NoView]]
    /\ UNCHANGED <<ikind, lax, strict, engine, listed, schemaRows, failed, clean>>

SSNext ==
    \E s \in SSServers :
        \/ \E schema \in {t \in SSSchemas : Valid(t)} :
            \/ CreateCollection(s, schema) \/ UpdateCollection(s, schema)
            \/ CreateSearchIndex(s, schema) \/ UpdateSearchIndex(s, schema)
        \/ DropCollection(s) \/ DeleteSearchIndex(s)
        \/ StartServer(s)

SSSpec == SSInit /\ [][SSNext]_ssvars

-----------------------------------------------------------------------------
\* The engine and the metadata agree: nothing failed since, or only tries of what then committed.
Settled == listed /\ failed = {} /\ clean

SSTypeOK ==
    /\ ikind \in {"collection", "index"}
    /\ DOMAIN engine = {"there", "fields"}
    /\ listed \in BOOLEAN
    /\ failed \subseteq SSSchemas \cup {NoSchema}
    /\ \A v \in DOMAIN schemaRows : schemaRows[v] \in SSSchemas

(***************************************************************************)
(* What the engine has for a committed schema is what the schema asks      *)
(* for: every field it makes queryable with its attributes, with its type  *)
(* unless incompatible changes are allowed, and nothing else but aliases   *)
(* and the text of dates. Requests that failed after they changed the      *)
(* engine do not matter once the same request has committed                *)
(* (GetSearchDeltaFields with what a timed out request left).              *)
(***************************************************************************)
EngineFits ==
    Settled =>
        LET qs == BuildQueryableFields(Fields(schemaRows[LatestVersion]), engine.fields)
        IN  /\ engine.there
            /\ \A q \in qs :
                /\ q.name \in DOMAIN engine.fields
                /\ [engine.fields[q.name] EXCEPT !.type = q.stype] = Attributes(q)
                /\ lax \/ engine.fields[q.name].type = q.stype
            /\ \A name \in DOMAIN engine.fields \ NamesOf(qs) : name[1] \in {"_tigris_id", "_tigris_date"}

(***************************************************************************)
(* No update asks the engine for what it must refuse. A field the engine   *)
(* has is dropped before it is added, whatever failed requests have left   *)
(* and whatever the server has cached; and from a settled state no server  *)
(* drops a field the engine lacks (updateCollection, updateSearchIndex).   *)
(***************************************************************************)
DeltaApplies ==
    \A s \in SSServers :
        engine.there /\ Tracked(s).schema # NoSchema =>
            \A schema \in {t \in SSSchemas : Valid(t) /\ Allowed(Tracked(s).schema, t)} :
                LET d == Updated(Tracked(s), schema)
                IN  /\ NamesOf(d.adds) \cap DOMAIN engine.fields \subseteq d.drops
                    /\ Settled => d.drops \subseteq DOMAIN engine.fields

(***************************************************************************)
(* A server that has seen the engine as it is packs every array and object *)
(* whose field in the engine is a string (ShouldPack). For collections it  *)
(* packs no others, and lets filters use the nested fields of an array     *)
(* only where the engine stores objects.                                   *)
(***************************************************************************)
PackedForString ==
    Settled => \A s \in {t \in SSServers : seenEngine[t] = engine.fields} :
        \A q \in {p \in Queryables(Tracked(s)) : p.type \in {"array", "object"}} :
            /\ engine.fields[q.name].type = <<"string">> => ShouldPack(q)
            /\ ikind = "collection" /\ ~lax =>
                /\ ShouldPack(q) => engine.fields[q.name].type = <<"string">>
                /\ q.nested # {} => engine.fields[q.name].type = <<"object", "[]">>
=============================================================================
