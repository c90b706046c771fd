------------------------------ MODULE Payloads ------------------------------
(***************************************************************************)
(* What happens to a document between a request and the table: strings of  *)
(* digits become integers where the schema has int64, fields left out get  *)
(* their defaults, and the result is validated against the JSON schema,    *)
(* which the server first changes to refuse unknown fields and to allow    *)
(* null (schema/collection.go, schema/default.go, database/mutator.go,     *)
(* common/converter.go).                                                   *)
(*                                                                         *)
(* A value is a tagged tuple: <<"num", k>>, <<"str", k>>, <<"bool", b>>,   *)
(* <<"null">>, <<"obj", members>> or <<"arr", elements>>, where k is the   *)
(* kind of number or string that matters to some type.                     *)
(***************************************************************************)
EXTENDS Integers, Sequences, FiniteSets, SequencesExt, TLC

CONSTANTS
    PSchemas,    \* the schemas of the collection that are tried
    PDocs,       \* the documents that are sent
    SignedDocs,  \* those also sent with the header that skips validation
    PSets        \* the payloads of a $set

VARIABLES
    psch,   \* the schema of the collection, or <<>>
    prow,   \* the stored document, or <<>>
    plast   \* the last request, what it sent if that was accepted, its answer

pvars == <<psch, prow, plast>>

NullValue == <<"null">>
Obj(members) == <<"obj", members>>
Arr(elements) == <<"arr", elements>>
NoMembers == [n \in {} |-> NullValue]
\* What a conversion that fails, or that panics, puts in the place of a value.
Broken == <<"broken">>

IsObj(v) == v[1] = "obj"
IsArr(v) == v[1] = "arr"
EachOf(s, Op(_)) == [i \in DOMAIN s |-> Op(s[i])]

\* A field: its type, the names it requires and the fields it has as an
\* object, its items as an array, and its createdAt, updatedAt and default.
PField(t) == [type |-> t, req |-> {}, kids |-> [n \in {} |-> {}], items |-> <<>>,
              createdAt |-> FALSE, updatedAt |-> FALSE, default |-> <<>>]

-----------------------------------------------------------------------------
(* The defaulter of a field. *)

Functions0 == {"uuid()", "cuid()", "now()"}
\* Any other name that ends in () is refused.
isSupportedDefaultFunction(s) == s \in Functions0 \/ s # "other()"

\* The value of a default that is the empty string.
getDefaultValue(type) ==
    CASE type = "bool" -> <<<<"bool", FALSE>>>>
      [] type \in {"int32", "int64", "double"} -> <<<<"num", "small">>>>
      [] OTHER -> <<>>

HasDefaulter(f) == f.createdAt \/ f.updatedAt \/ f.default # <<>>

\* The cases in which a schema is refused for its default value.
BadDefault(f) ==
    /\ ~f.createdAt /\ ~f.updatedAt /\ f.default # <<>>
    /\ f.default # <<<<"str", "">>>>
    /\ LET v == f.default[1]
       IN CASE v[1] = "bool" -> f.type # "bool"
            [] v[1] = "num" -> \/ f.type \in {"int32", "int64"} /\ v[2] \in {"frac", "huge"}
            [] v[1] = "str" -> \/ f.type \notin {"string", "datetime", "uuid", "byte"}
                               \/ v[2] = "now()" /\ f.type # "datetime"
                               \/ ~isSupportedDefaultFunction(v[2])
            [] v[1] = "arr" -> f.type # "array"
            [] OTHER -> TRUE

TaggedWithUpdatedAt(f) == ~f.createdAt /\ f.updatedAt
TaggedWithCreatedAt(f) == f.createdAt \/ (~f.updatedAt /\ f.default = <<<<"str", "now()">>>>)

\* The value of the default as a sequence of none or one.
GetValue(f) ==
    CASE f.createdAt \/ f.updatedAt -> <<>>
      [] f.default = <<>> -> <<>>
      [] f.default = <<<<"str", "">>>> -> getDefaultValue(f.type)
      [] f.default = <<<<"str", "now()">>>> -> <<>>
      [] f.default = <<<<"str", "uuid()">>>> -> <<<<"str", "uuid">>>>
      [] f.default = <<<<"str", "cuid()">>>> -> <<<<"str", "text">>>>
      [] OTHER -> f.default

-----------------------------------------------------------------------------
(* The paths a collection keeps of its int64 fields and of its defaults.   *)
(* The items of an array have no name and add nothing to the path.         *)

IsInt64(f) == f.type = "int64"
FilledOnInsert(f) == HasDefaulter(f) /\ ~TaggedWithUpdatedAt(f)
FilledOnUpdate(f) == HasDefaulter(f) /\ TaggedWithUpdatedAt(f)
HasBadDefault(f) == HasDefaulter(f) /\ BadDefault(f)

\* The fields below f with their paths.
RECURSIVE FieldsBelow(_, _)
FieldsBelow(f, parent) ==
    UNION {LET path == Append(parent, n) IN FieldsBelow(f.kids[n], path) \cup {<<path, f.kids[n]>>} : n \in DOMAIN f.kids}
    \cup UNION {FieldsBelow(f.items[i], parent) \cup {<<parent, f.items[i]>>} : i \in DOMAIN f.items}

buildInt64Path(s) == {p[1] : p \in {q \in FieldsBelow(s, <<>>) : IsInt64(q[2])}}
TaggedDefaultsForInsert(s) == {p[1] : p \in {q \in FieldsBelow(s, <<>>) : FilledOnInsert(q[2])}}
TaggedDefaultsForUpdate(s) == {p[1] : p \in {q \in FieldsBelow(s, <<>>) : FilledOnUpdate(q[2])}}

-----------------------------------------------------------------------------
(* Strings to int64. *)

\* strconv.ParseInt with 64 bits.
ParseInt(k) ==
    CASE k = "digits" -> <<"num", "small">>
      [] k = "longdigits" -> <<"num", "long">>
      [] OTHER -> Broken

Int64Of(v) == IF v[1] = "str" THEN ParseInt(v[2]) ELSE v

\* StringToInt64Converter.traverse: follows one path from a value down. An
\* element of an array of objects that is none makes it panic. A value that
\* has not the shape of its field is left to the validation.
RECURSIVE Traverse(_, _, _)
Traverse(f, v, keys) ==
    CASE f.type = "int64" -> Int64Of(v)
      [] f.type = "object" /\ IsObj(v) ->
           IF keys # <<>> /\ Head(keys) \in DOMAIN v[2]
           THEN Obj([v[2] EXCEPT ![Head(keys)] = Traverse(f.kids[Head(keys)], @, Tail(keys))])
           ELSE v
      [] f.type = "array" /\ IsArr(v) ->
           LET item == f.items[1]
               Element(e) == CASE item.type = "object" -> IF IsObj(e) THEN Traverse(item, e, keys) ELSE Broken
                               [] item.type = "int64" -> Int64Of(e)
                               [] OTHER -> e
           IN Arr(EachOf(v[2], Element))
      [] OTHER -> v

\* StringToInt64Converter.Convert: every path in turn.
Convert(s, doc) ==
    LET OnePath(d, path) == Traverse(s, d, path)
    IN FoldLeft(OnePath, doc, SetToSeq(buildInt64Path(s)))

-----------------------------------------------------------------------------
(* Defaults. *)

With(members, n, v) == [x \in DOMAIN members \cup {n} |-> IF x = n THEN v ELSE members[x]]

\* insertPayloadMutator.setDefaults, of a field that is not there.
setOnInsert(members, n, f) ==
    IF TaggedWithCreatedAt(f) THEN With(members, n, <<"str", "datetime">>)
    ELSE IF GetValue(f) # <<>> THEN With(members, n, GetValue(f)[1])
    ELSE members

\* updatePayloadMutator.setDefaults.
setOnUpdate(members, n, f) ==
    IF TaggedWithUpdatedAt(f) THEN With(members, n, <<"str", "datetime">>) ELSE members

\* setDefaultsInternal and traverseDefaults: follows one path through the
\* members of an object of field f. An object on the way that is missing is
\* added; arrays are entered where they are; a field with a default of its
\* own ends the path.
RECURSIVE FillPath(_, _, _, _)
FillPath(f, members, keys, insert) ==
    LET n == Head(keys)
        kid == f.kids[n]
        there == IF n \notin DOMAIN members /\ kid.type = "object" /\ Len(keys) > 1
                 THEN With(members, n, Obj(NoMembers)) ELSE members
        Element(e) == IF IsObj(e) THEN Obj(FillPath(kid.items[1], e[2], Tail(keys), insert)) ELSE Broken
    IN CASE HasDefaulter(kid) -> IF n \in DOMAIN there THEN there ELSE IF insert THEN setOnInsert(there, n, kid) ELSE setOnUpdate(there, n, kid)
         [] n \notin DOMAIN there -> there
         [] kid.type = "object" /\ IsObj(there[n]) ->
              With(there, n, Obj(FillPath(kid, there[n][2], Tail(keys), insert)))
         [] kid.type = "array" /\ IsArr(there[n]) -> With(there, n, Arr(EachOf(there[n][2], Element)))
         [] OTHER -> there

\* The paths are a Go map, which is walked in any order: one result for each.
setDefaultsInternal(s, doc, paths, insert) ==
    LET OnePath(d, path) == Obj(FillPath(s, d[2], path, insert))
    IN {FoldLeft(OnePath, doc, order) : order \in SetToSeqs(paths)}

\* The results on a payload that is inserted, and on a stored document that
\* is updated.
setDefaultsInIncomingPayload(s, doc) == setDefaultsInternal(s, doc, TaggedDefaultsForInsert(s), TRUE)
setDefaultsInStored(s, doc) == setDefaultsInternal(s, doc, TaggedDefaultsForUpdate(s), FALSE)

-----------------------------------------------------------------------------
(* Validation. *)

\* The formats the server adds, and those of the JSON schema library.
OfFormat(type, v) ==
    CASE type = "int32" -> v[1] = "num" /\ v[2] = "small"
      [] type = "int64" -> v[1] = "num" /\ v[2] \in {"small", "long"}
      [] type = "double" -> v[1] = "num"
      [] type = "bool" -> v[1] = "bool"
      [] type = "string" -> v[1] = "str"
      [] type = "byte" -> v[1] = "str" /\ v[2] \in {"byte", "digits"}
      [] type = "uuid" -> v[1] = "str" /\ v[2] = "uuid"
      [] type = "datetime" -> v[1] = "str" /\ v[2] = "datetime"
      [] OTHER -> FALSE

HasProps(f) == DOMAIN f.kids # {}

\* disableAdditionalPropertiesAndAllowNullable: how far the change reaches. A
\* field's mode is "strict" where the walk arrives, "item" for the objects of
\* an array, "open" where the walk does not go: below a required field and
\* below what an array's objects hold in arrays.
Nullable(f, n, mode) == mode = "item" \/ (mode = "strict" /\ n \notin f.req)
ModeOf(f, n, mode) ==
    CASE mode = "strict" /\ n \notin f.req -> "strict"
      [] mode = "item" /\ HasProps(f.kids[n]) -> "strict"
      [] OTHER -> "open"
ItemMode(item, mode) == IF mode = "strict" /\ HasProps(item) THEN "item" ELSE "open"
ItemNullable(item, mode) == mode = "strict" /\ ~HasProps(item)

\* The validator of the collection, on the value of a field.
RECURSIVE FitsField(_, _, _, _)
FitsField(f, v, nullable, mode) ==
    \/ nullable /\ v = NullValue
    \/ /\ f.type = "object" /\ IsObj(v)
       /\ f.req \subseteq DOMAIN v[2]
       /\ mode = "strict" /\ HasProps(f) => DOMAIN v[2] \subseteq DOMAIN f.kids
       /\ \A n \in DOMAIN v[2] \cap DOMAIN f.kids :
            FitsField(f.kids[n], v[2][n], Nullable(f, n, mode), ModeOf(f, n, mode))
    \/ /\ f.type = "array" /\ IsArr(v)
       /\ \A i \in DOMAIN v[2] :
            FitsField(f.items[1], v[2][i], ItemNullable(f.items[1], mode), ItemMode(f.items[1], mode))
    \/ /\ f.type \notin {"object", "array"}
       /\ OfFormat(f.type, v)

\* Mutant: the JSON schema of the collection is not made strict.
ValidateOpen(s, doc) == FitsField(s, doc, FALSE, "open")
Validate(s, doc) == FitsField(s, doc, FALSE, "strict")

-----------------------------------------------------------------------------
(* Requests. *)

RECURSIVE IsBroken(_)
IsBroken(v) ==
    CASE IsObj(v) -> \E n \in DOMAIN v[2] : IsBroken(v[2][n])
      [] IsArr(v) -> \E i \in DOMAIN v[2] : IsBroken(v[2][i])
      [] OTHER -> v = Broken

\* BaseQueryRunner.mutateAndValidatePayload: what is stored for a document,
\* or none where it is refused. (When nothing was mutated the original bytes
\* are kept, which are the same document.)
mutateAndValidatePayload(s, doc, insert, signed) ==
    LET converted == Convert(s, doc)
        filled == IF IsBroken(converted) THEN {}
                  ELSE IF insert THEN setDefaultsInIncomingPayload(s, converted) ELSE {converted}
    IN {d \in filled : ~IsBroken(d) /\ (signed \/ Validate(s, d))}

Request(op, doc, signed, ok) == [op |-> op, sent |-> doc, signed |-> signed, ok |-> ok]

PInit == psch = <<>> /\ prow = <<>> /\ plast = Request("start", NullValue, FALSE, TRUE)

\* The schema of the collection is built, or refused for a default in it.
BuildPayloadSchema(s) ==
    /\ psch = <<>>
    /\ LET bad == \E q \in FieldsBelow(s, <<>>) : HasBadDefault(q[2])
       IN /\ psch' = IF bad THEN <<>> ELSE <<s>>
          /\ plast' = Request("build", NullValue, FALSE, ~bad)
    /\ prow' = prow

\* InsertQueryRunner.Run for one document.
InsertPayload(d, signed) ==
    /\ psch # <<>> /\ prow = <<>>
    /\ LET out == mutateAndValidatePayload(psch[1], d, TRUE, signed)
       IN \/ /\ out = {}
             /\ prow' = prow /\ plast' = Request("insert", NullValue, FALSE, FALSE)
          \/ \E r \in out : prow' = <<r>> /\ plast' = Request("insert", d, signed, TRUE)
    /\ psch' = psch

\* UpdateQueryRunner.Run with $set: the payload goes the way of a document,
\* without defaults; the stored one gets its update times, then the values.
SetPayload(set) ==
    /\ psch # <<>> /\ prow # <<>>
    /\ LET out == mutateAndValidatePayload(psch[1], set, FALSE, FALSE)
       IN \/ /\ out = {}
             /\ prow' = prow /\ plast' = Request("update", NullValue, plast.signed, FALSE)
          \/ \E p \in out, old \in setDefaultsInStored(psch[1], prow[1]) :
               /\ prow' = <<Obj(p[2] @@ old[2])>>
               /\ plast' = Request("update", set, plast.signed, TRUE)
    /\ psch' = psch

PNext ==
    \/ \E s \in PSchemas : BuildPayloadSchema(s)
    \/ \E d \in PDocs : InsertPayload(d, FALSE)
    \/ \E d \in SignedDocs : InsertPayload(d, TRUE)
    \/ \E d \in PSets : SetPayload(d)

-----------------------------------------------------------------------------
(* What the stored documents are, said of the whole tree at once. *)

\* Type invariant: a request is answered, and a row has a schema.
PTypeOK ==
    /\ plast.ok \in BOOLEAN /\ Len(psch) <= 1 /\ Len(prow) <= 1
    /\ prow # <<>> => psch # <<>> /\ IsObj(prow[1])

\* A field below f, not within an array, that an insert fills.
RECURSIVE HoldsDefault(_)
HoldsDefault(f) == \E n \in DOMAIN f.kids : HoldsDefault(f.kids[n]) \/ FilledOnInsert(f.kids[n]) \/
                       (f.kids[n].items # <<>> /\ TaggedDefaultsForInsert(f.kids[n]) # {})

\* The document as it ought to be stored, by recursion on the document
\* instead of path by path.
RECURSIVE Ought(_, _)
Ought(f, v) ==
    CASE f.type = "int64" -> Int64Of(v)
      [] f.type = "object" /\ IsObj(v) ->
           LET Absent == {n \in DOMAIN f.kids \ DOMAIN v[2] :
                            \/ FilledOnInsert(f.kids[n]) /\ (TaggedWithCreatedAt(f.kids[n]) \/ GetValue(f.kids[n]) # <<>>)
                            \/ f.kids[n].type = "object" /\ HoldsDefault(f.kids[n])}
           IN Obj([n \in DOMAIN v[2] \cup Absent |->
                     IF n \in DOMAIN v[2]
                     THEN IF n \in DOMAIN f.kids THEN Ought(f.kids[n], v[2][n]) ELSE v[2][n]
                     ELSE IF f.kids[n].type = "object" THEN Ought(f.kids[n], Obj(NoMembers))
                     ELSE setOnInsert(NoMembers, n, f.kids[n])[n]])
      [] f.type = "array" /\ IsArr(v) ->
           LET Item(e) == IF f.items[1].type = "object" /\ HasDefaulter(f) THEN Convert(f.items[1], e)
                          ELSE IF f.items[1].type \in {"object", "int64"} THEN Ought(f.items[1], e) ELSE e
           IN Arr(EachOf(v[2], Item))
      [] OTHER -> v

(***************************************************************************)
(* An insert stores what the client sent, with digits turned to integers   *)
(* where the schema says int64 and defaults wherever an object lacks a     *)
(* field that has one, in whatever order the server walks its paths        *)
(* (setDefaultsInternal, Convert). Nothing else of the payload changes.    *)
(***************************************************************************)
StoredAsOught ==
    plast.op = "insert" /\ plast.ok => prow[1] = Ought(psch[1], plast.sent)

\* v has the types of f wherever the schema names it, null aside.
RECURSIVE Typed(_, _)
Typed(f, v) ==
    \/ v = NullValue
    \/ /\ f.type = "object" /\ IsObj(v)
       /\ \A n \in DOMAIN v[2] \cap DOMAIN f.kids : Typed(f.kids[n], v[2][n])
    \/ f.type = "array" /\ IsArr(v) /\ \A i \in DOMAIN v[2] : Typed(f.items[1], v[2][i])
    \/ f.type \notin {"object", "array"} /\ OfFormat(f.type, v)

(***************************************************************************)
(* A row written with validation holds, wherever the schema names a field, *)
(* a value of its type or null, has its required fields, and has no field  *)
(* at the top that the schema does not name; also after updates, which     *)
(* validate only their own payload (Validate, mutateAndValidatePayload).   *)
(***************************************************************************)
StoredTyped ==
    prow # <<>> /\ ~plast.signed =>
        /\ Typed(psch[1], prow[1])
        /\ psch[1].req \subseteq DOMAIN prow[1][2]
        /\ DOMAIN prow[1][2] \subseteq DOMAIN psch[1].kids

(***************************************************************************)
(* A document that was read can be written back: the row, sent again as a  *)
(* replacement, passes the validation (Validate after the mutations of     *)
(* mutateAndValidatePayload), and right after an insert it is stored as it *)
(* was, defaults and converted numbers included.                           *)
(***************************************************************************)
WritesBack ==
    prow # <<>> /\ ~plast.signed =>
        LET again == mutateAndValidatePayload(psch[1], prow[1], TRUE, FALSE)
        IN again # {} /\ (plast.op = "insert" => again = {prow[1]})

=============================================================================
