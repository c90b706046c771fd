-------------------------- MODULE SearchDocuments --------------------------
(***************************************************************************)
(* The form a document has in the search engine, and the way back. Objects *)
(* are flattened, dates become numbers beside their text, values the       *)
(* engine cannot hold are packed in a string, nulls in arrays of strings   *)
(* become a marker, and the engine's own key takes the name "id".          *)
(*                                                                         *)
(* Documents of a collection follow the table: inserted, replaced, or      *)
(* updated by a request that may change several rows, where the engine     *)
(* merges what it is sent. Documents of a search index (kind "index") are  *)
(* sent by the user.                                                       *)
(*                                                                         *)
(* A JSON value is a tuple that begins with its kind; an object holds a    *)
(* function from its keys. A flat document is a function from paths.       *)
(***************************************************************************)
EXTENDS Naturals, Sequences, FiniteSets, TLC

CONSTANTS SDFields,    \* queryable fields: [name, type, strings, pack, indexed, whole]
          SDIds,       \* the rows of the table, or the ids of the index
          SDDocs,      \* documents: functions from keys to values
          SDUpdates,   \* updates: [set, unset]
          SDIdFields,  \* the field of an index marked as its id, <<>> for none
          MaxSDWrites

VARIABLES sdKind,    \* "collection" or "index"
          idField,   \* the field marked as the id
          sdStored,  \* the documents of the table, or as the user sent them
          sdEngine,  \* the flat documents of the engine
          excused,   \* ghost: names an update removed that the engine may keep
          sdWrites

sdvars == <<sdKind, idField, sdStored, sdEngine, excused, sdWrites>>

Null == <<"null">>
Marker == <<"marker">>
Packed(v) == <<"packed", v>>
UnixNano(v) == <<"nanos", v[2]>>
ObjectWith(f) == <<"object", f>>
NoCopy == <<>>

SearchKeyName == <<"id">>
UserIdName == <<"_tigris_id">>
NullKeysName == <<"_tigris_null_keys">>
CreatedName == <<"_tigris_created_at">>
UpdatedName == <<"_tigris_updated_at">>
DateName(name) == <<"_tigris_date">> \o name

-----------------------------------------------------------------------------
(***************************************************************************)
(* FlatMap: the paths of a document with their values, except below the    *)
(* objects that are kept whole. An empty object leaves nothing.            *)
(***************************************************************************)
KeptWhole == {q.name : q \in {f \in SDFields : f.whole}}

RECURSIVE flatMap(_, _)
flatMap(path, obj) ==
    UNION {IF obj[k][1] = "object" /\ Append(path, k) \notin KeptWhole THEN flatMap(Append(path, k), obj[k][2])
           ELSE {<<Append(path, k), obj[k]>>} : k \in DOMAIN obj}

FlatMap(obj) ==
    LET pairs == flatMap(<<>>, obj)
    IN  [name \in {p[1] : p \in pairs} |-> (CHOOSE p \in pairs : p[1] = name)[2]]

\* UnFlatMap: a path makes the objects on its way even when its value is null.
RECURSIVE unFlat(_)
unFlat(pairs) ==
    LET under(k) == {p \in pairs : p[1][1] = k /\ Len(p[1]) > 1}
        leaves == {p \in pairs : Len(p[1]) = 1 /\ p[2] # Null}
        keys == {p[1][1] : p \in leaves} \cup {p[1][1] : p \in {o \in pairs : Len(o[1]) > 1}}
    IN  [k \in keys |->
            IF under(k) # {} THEN ObjectWith(unFlat({<<Tail(p[1]), p[2]>> : p \in under(k)}))
            ELSE (CHOOSE p \in leaves : p[1] = <<k>>)[2]]

UnFlatMap(flat) == unFlat({<<name, flat[name]>> : name \in DOMAIN flat})

Without(flat, names) == [name \in DOMAIN flat \ names |-> flat[name]]
Value(flat, name) == IF name \in DOMAIN flat THEN flat[name] ELSE Null

-----------------------------------------------------------------------------
(***************************************************************************)
(* Packing, the same for documents of a collection and of an index.        *)
(***************************************************************************)
Mark(v) == IF v[1] # "array" THEN v ELSE <<"array", [i \in DOMAIN v[2] |-> IF v[2][i] = Null THEN Marker ELSE v[2][i]]>>
Unmark(v) == IF v[1] # "array" THEN v ELSE <<"array", [i \in DOMAIN v[2] |-> IF v[2][i] = Marker THEN Null ELSE v[2][i]]>>

PackValue(q, v) ==
    CASE v = Null -> v
      [] q.strings -> Mark(v)
      [] q.pack /\ q.type = "datetime" /\ v[1] = "string" -> UnixNano(v)
      [] q.pack /\ q.type # "datetime" -> Packed(v)
      [] OTHER -> v

Dates(flat) ==
    LET of == {q \in SDFields : q.pack /\ q.type = "datetime" /\ Value(flat, q.name)[1] = "string"}
    IN  [name \in {DateName(q.name) : q \in of} |-> flat[(CHOOSE q \in of : DateName(q.name) = name).name]]

PackFields(flat) ==
    LET known == {q \in SDFields : q.name \in DOMAIN flat}
    IN  [name \in {q.name : q \in known} |-> PackValue(CHOOSE q \in known : q.name = name, flat[name])] @@ Dates(flat) @@ flat

NullKeys(flat, mustBeIndexed) ==
    {q.name : q \in {f \in SDFields : /\ f.type \in {"array", "object"}
                                      /\ (mustBeIndexed => f.indexed)
                                      /\ Value(flat, f.name) = Null}}

WithNullKeys(flat, nulls) ==
    IF nulls = {} THEN flat ELSE (NullKeysName :> <<"array", nulls>>) @@ Without(flat, nulls)

UnpackValue(q, flat) ==
    LET v == flat[q.name]
    IN  CASE q.strings -> Unmark(v)
          [] q.pack /\ q.type = "datetime" -> Value(flat, DateName(q.name))
          [] q.pack /\ v[1] = "packed" -> v[2]
          [] OTHER -> v

(***************************************************************************)
(* Reading: the texts of dates replace their numbers. The null keys come   *)
(* back from JSON as values of any type, so no key is set to null by them: *)
(* they are only taken out.                                                *)
(***************************************************************************)
UnpackFields(flat) ==
    LET known == {q \in SDFields : q.name \in DOMAIN flat}
        texts == {DateName(q.name) : q \in {f \in known : f.pack /\ f.type = "datetime"}}
    IN  Without([name \in {q.name : q \in known} |-> UnpackValue(CHOOSE q \in known : q.name = name, flat)] @@ flat,
                texts \cup {NullKeysName, CreatedName, UpdatedName})

-----------------------------------------------------------------------------
(***************************************************************************)
(* Documents of a collection. PackSearchFields is given the keys of the    *)
(* objects an update has replaced: those no longer in the document are     *)
(* sent as null.                                                           *)
(***************************************************************************)
Stamps(updated) == IF updated THEN CreatedName :> <<"time">> @@ UpdatedName :> <<"time">> ELSE CreatedName :> <<"time">>

PackSearchFields(r, doc, gone, updated) ==
    LET renamed == IF "id" \in DOMAIN doc THEN ("_tigris_id" :> doc["id"]) @@ doc ELSE doc
        flat == FlatMap(renamed)
        cleaned == flat @@ [name \in gone \ DOMAIN flat |-> Null]
    IN  (SearchKeyName :> <<"key", r>>) @@ Stamps(updated)
            @@ WithNullKeys(PackFields(cleaned), NullKeys(cleaned, FALSE))

UnpackSearchFields(flat) ==
    LET tree == UnFlatMap(UnpackFields(flat))
        rest == [k \in DOMAIN tree \ {"id", "_tigris_id"} |-> tree[k]]
    IN  IF "_tigris_id" \in DOMAIN tree THEN ("id" :> tree["_tigris_id"]) @@ rest ELSE rest

(***************************************************************************)
(* The engine: a document replaces the one of its id, or is merged into it *)
(* key by key; a null leaves the key out.                                  *)
(***************************************************************************)
Accepted(flat) == Without(flat, {name \in DOMAIN flat : flat[name] = Null})
MergedInto(old, flat) == Accepted(flat @@ old)

\* An update of the fields of one document: set, then unset.
RECURSIVE SetAt(_, _, _)
SetAt(obj, path, v) ==
    LET below == IF path[1] \in DOMAIN obj /\ obj[path[1]][1] = "object" THEN obj[path[1]][2] ELSE <<>>
    IN  (path[1] :> IF Len(path) = 1 THEN v ELSE ObjectWith(SetAt(below, Tail(path), v))) @@ obj

RECURSIVE Removed(_, _)
Removed(obj, path) ==
    IF path[1] \notin DOMAIN obj THEN obj
    ELSE IF Len(path) = 1 THEN [k \in DOMAIN obj \ {path[1]} |-> obj[k]]
    ELSE IF obj[path[1]][1] # "object" THEN obj
    ELSE [obj EXCEPT ![path[1]] = ObjectWith(Removed(obj[path[1]][2], Tail(path)))]

MergeAndGet(doc, u) ==
    LET set == IF u.set = <<>> THEN doc ELSE SetAt(doc, u.set[1], u.set[2])
    IN  IF u.unset = <<>> THEN set ELSE Removed(set, u.unset)

ObjectSet(u) == u.set # <<>> /\ u.set[2][1] = "object"

\* The keys of an object, those of the objects inside it written out.
RECURSIVE buildKeysForObjectsInternal(_, _)
buildKeysForObjectsInternal(path, obj) ==
    UNION {IF obj[k][1] = "object" THEN buildKeysForObjectsInternal(Append(path, k), obj[k][2])
           ELSE {Append(path, k)} : k \in DOMAIN obj}

\* Mutant: the keys of a replaced object are not collected.
buildKeysNone(doc, u) == {}

\* Only for a key at the top of the document that holds an object and is set to one.
buildKeysForObjects(doc, u) ==
    IF /\ ObjectSet(u)
       /\ Len(u.set[1]) = 1 /\ u.set[1][1] \in DOMAIN doc /\ doc[u.set[1][1]][1] = "object"
    THEN buildKeysForObjectsInternal(u.set[1], doc[u.set[1][1]][2])
    ELSE {}

\* The request keeps one list: that of the last row that had any.
TentativeKeys(rows, u) ==
    LET some == {i \in DOMAIN rows : buildKeysForObjects(sdStored[rows[i]], u) # {}}
    IN  IF some = {} THEN {} ELSE buildKeysForObjects(sdStored[rows[CHOOSE i \in some : \A j \in some : j <= i]], u)

Names(doc) == DOMAIN Accepted(FlatMap(doc))
Stuck(name) ==
    \E q \in SDFields : /\ q.name = name /\ q.type \in {"array", "object", "datetime"}
                        /\ (sdKind = "index" => q.indexed \/ q.type = "datetime")

InsertOrReplace(r) ==
    /\ sdKind = "collection" /\ sdWrites < MaxSDWrites
    /\ \E doc \in SDDocs :
           /\ sdStored' = [sdStored EXCEPT ![r] = doc]
           /\ sdEngine' = [sdEngine EXCEPT ![r] = Accepted(PackSearchFields(r, doc, {}, sdStored[r] # NoCopy))]
    /\ excused' = [excused EXCEPT ![r] = {}]
    /\ sdWrites' = sdWrites + 1
    /\ UNCHANGED <<sdKind, idField>>

(***************************************************************************)
(* One request updates the rows its filter matched, in order. The search   *)
(* engine hears of them after the commit, all with the same list of keys.  *)
(***************************************************************************)
UpdateRows ==
    /\ sdKind = "collection" /\ sdWrites < MaxSDWrites
    /\ \E rows \in {s \in {<<r>> : r \in SDIds} \cup {<<r, q>> : r, q \in SDIds} :
                       (\A i \in DOMAIN s : sdStored[s[i]] # NoCopy) /\ Cardinality({s[i] : i \in DOMAIN s}) = Len(s)},
          u \in SDUpdates :
           LET hit == {rows[i] : i \in DOMAIN rows}
               new == [r \in hit |-> MergeAndGet(sdStored[r], u)]
               gone == TentativeKeys(rows, u)
               lost(r) == Names(sdStored[r]) \ Names(new[r])
           IN  /\ sdStored' = [r \in SDIds |-> IF r \in hit THEN new[r] ELSE sdStored[r]]
               /\ sdEngine' = [r \in SDIds |-> IF r \in hit THEN MergedInto(sdEngine[r], PackSearchFields(r, new[r], gone, TRUE))
                                               ELSE sdEngine[r]]
               /\ excused' = [r \in SDIds |->
                     IF r \notin hit THEN excused[r]
                     ELSE (excused[r] \cup {name \in lost(r) :
                            \/ Stuck(name)
                            \/ name \notin DOMAIN FlatMap(new[r]) /\ ~(ObjectSet(u) /\ <<name[1]>> = u.set[1] /\ r = rows[Len(rows)])}) \ Names(new[r])]
    /\ sdWrites' = sdWrites + 1
    /\ UNCHANGED <<sdKind, idField>>

-----------------------------------------------------------------------------
(***************************************************************************)
(* Documents of a search index: the id comes from the field marked for it, *)
(* or is the top level "id", or is generated.                              *)
(***************************************************************************)
RECURSIVE At(_, _)
At(obj, path) ==
    IF path[1] \notin DOMAIN obj THEN Null
    ELSE IF Len(path) = 1 THEN obj[path[1]]
    ELSE IF obj[path[1]][1] # "object" THEN Null
    ELSE At(obj[path[1]][2], Tail(path))

IdElsewhere == idField \notin {<<>>, SearchKeyName}

\* The ids a document may get: none when its id is missing or no string.
getOrGenerateId(doc) ==
    LET v == At(doc, IF idField = <<>> THEN SearchKeyName ELSE idField)
    IN  CASE v[1] = "string" -> {v[2]} \cap SDIds
          [] idField = <<>> /\ "id" \notin DOMAIN doc -> {id \in SDIds : sdEngine[id] = NoCopy}
          [] OTHER -> {}

transformStart(id, doc) ==
    LET renamed == IF IdElsewhere /\ "id" \in DOMAIN doc THEN ("_tigris_id" :> doc["id"]) @@ doc ELSE doc
    IN  ("id" :> <<"string", id>>) @@ renamed

transformEnd(doc, isUpdate) ==
    LET flat == FlatMap(doc)
    IN  (IF isUpdate THEN UpdatedName ELSE CreatedName) :> <<"time">> @@ WithNullKeys(PackFields(flat), NullKeys(flat, TRUE))

toSearch(id, doc, isUpdate) == transformEnd(transformStart(id, doc), isUpdate)

inverseStart(flat) ==
    LET read == UnpackFields(flat)
    IN  UnFlatMap(IF IdElsewhere /\ UserIdName \in DOMAIN read THEN (SearchKeyName :> read[UserIdName]) @@ read ELSE read)

inverseEnd(tree) ==
    LET kept == IF IdElsewhere THEN [k \in DOMAIN tree \ {"id"} |-> tree[k]] ELSE tree
    IN  IF idField # <<>> /\ "_tigris_id" \in DOMAIN kept
        THEN ("id" :> kept["_tigris_id"]) @@ [k \in DOMAIN kept \ {"_tigris_id"} |-> kept[k]]
        ELSE kept

fromSearch(flat) == inverseEnd(inverseStart(flat))

CreateOrReplaceDocument ==
    /\ sdKind = "index" /\ sdWrites < MaxSDWrites
    /\ \E doc \in SDDocs : \E id \in getOrGenerateId(doc) :
           /\ sdStored' = [sdStored EXCEPT ![id] = doc]
           /\ sdEngine' = [sdEngine EXCEPT ![id] = Accepted(toSearch(id, doc, FALSE))]
           /\ excused' = [excused EXCEPT ![id] = {}]
    /\ sdWrites' = sdWrites + 1
    /\ UNCHANGED <<sdKind, idField>>

\* The user sends the fields to change; the document is the merge of what was sent.
UpdateDocument ==
    /\ sdKind = "index" /\ sdWrites < MaxSDWrites
    /\ \E doc \in SDDocs : \E id \in {i \in getOrGenerateId(doc) : sdEngine[i] # NoCopy} :
           LET merged == UnFlatMap(Accepted(FlatMap(doc) @@ FlatMap(sdStored[id])))
           IN  /\ sdStored' = [sdStored EXCEPT ![id] = merged]
               /\ sdEngine' = [sdEngine EXCEPT ![id] = MergedInto(@, toSearch(id, doc, TRUE))]
               /\ excused' = [excused EXCEPT ![id] =
                     (@ \cup {name \in Names(sdStored[id]) \ Names(merged) : Stuck(name)}) \ Names(merged)]
    /\ sdWrites' = sdWrites + 1
    /\ UNCHANGED <<sdKind, idField>>

SDInit ==
    /\ sdKind \in {"collection", "index"}
    /\ idField \in IF sdKind = "index" THEN SDIdFields ELSE {<<>>}
    /\ sdStored = [r \in SDIds |-> NoCopy]
    /\ sdEngine = [r \in SDIds |-> NoCopy]
    /\ excused = [r \in SDIds |-> {}]
    /\ sdWrites = 0

SDNext ==
    \/ \E r \in SDIds : InsertOrReplace(r)
    \/ UpdateRows
    \/ CreateOrReplaceDocument
    \/ UpdateDocument

SDSpec == SDInit /\ [][SDNext]_sdvars

-----------------------------------------------------------------------------
\* What the table holds of a row, nulls and empty objects left out, and what search returns.
Promised(r) ==
    LET flat == Accepted(FlatMap(sdStored[r]))
    IN  IF sdKind = "index" /\ ~IdElsewhere THEN (SearchKeyName :> <<"string", r>>) @@ flat ELSE flat
Returned(r) == FlatMap(IF sdKind = "index" THEN fromSearch(sdEngine[r]) ELSE UnpackSearchFields(sdEngine[r]))

(***************************************************************************)
(* Every field of a stored document comes back from the engine with its    *)
(* value, whatever was inserted, replaced and merged before: a user's own  *)
(* "id", dates, nulls in arrays, packed arrays, whole objects.             *)
(* (PackSearchFields and UnpackSearchFields, toSearch and fromSearch.)     *)
(***************************************************************************)
ReturnsStored ==
    \A r \in {i \in SDIds : sdEngine[i] # NoCopy} :
        \A name \in DOMAIN Promised(r) : name \in DOMAIN Returned(r) /\ Returned(r)[name] = Promised(r)[name]

(***************************************************************************)
(* Nothing else comes back, except what an update took away without the    *)
(* engine being told: arrays, objects and the texts of dates that became   *)
(* null or went with their object; fields removed by $unset; and, in an    *)
(* update of several rows that replaces an object, the keys of the rows    *)
(* before the last. A scalar inside a replaced object never comes back.    *)
(* (TentativeSearchKeysToRemove, the null keys.)                           *)
(***************************************************************************)
ReturnsNothingElse ==
    \A r \in {i \in SDIds : sdEngine[i] # NoCopy} :
        \A name \in DOMAIN Returned(r) \ DOMAIN Promised(r) :
            name \in excused[r] \cup {DateName(d) : d \in excused[r]}

SDTypeOK ==
    /\ sdKind \in {"collection", "index"} /\ idField \in SDIdFields
    /\ \A r \in SDIds : sdEngine[r] = NoCopy <=> sdStored[r] = NoCopy
    /\ sdWrites \in 0..MaxSDWrites
=============================================================================
