-------------------------- MODULE SchemaEvolution --------------------------
(***************************************************************************)
(* How the schema of a collection changes and how the rows written under   *)
(* earlier versions are read: the compatibility rules (schema/rules.go,    *)
(* IsCompatible in fields.go), the changes kept between versions, and the  *)
(* conversion of a row on its way out (schema/migration.go). A collection  *)
(* has a field f of a primitive type, an object o with one field x, and an *)
(* array l of primitive items; fields are named by their key paths.        *)
(***************************************************************************)
EXTENDS Integers, FiniteSets, Sequences, SequencesExt

CONSTANTS
    FieldChoices,  \* the schemas users give: sets of them, see Schema
    WordLengths,   \* the lengths of plain strings
    MaxVersions,
    EvRows         \* row identities

VARIABLES
    lenient,   \* config.DefaultConfig.Schema.AllowIncompatible
    versions,  \* the schemas of the collection, oldest first
    row,       \* the rows as written once: [ver, doc]
    fresh      \* the same rows, rewritten under every version

evvars == <<lenient, versions, row, fresh>>

Paths == {<<"f">>, <<"o">>, <<"o", "x">>, <<"l">>, <<"l", "">>}
Top == {"f", "o", "l"}
Child == [o |-> <<"o", "x">>, l |-> <<"l", "">>]

\* A field: its type ("none": no such field), maximal length (0: none), and
\* whether the object takes other properties too (IsMap).
SchemaField(t, max, map) == [t |-> t, max |-> max, map |-> map]
Primitive == {"bool", "int64", "double", "string", "byte", "uuid"}

----------------------------------------------------------------------------
(* Values. A number counts halves; the content of a string or of bytes is a *)
(* text: a word of some length, the text of a boolean or number, a UUID, or *)
(* the bytes of a boolean or of a number.                                   *)
Text(a, n) == [a |-> a, n |-> n]
Value(k, c, e) == [k |-> k, c |-> c, e |-> e]
Prim(k, c) == Value(k, c, <<>>)
Nil == Prim("nil", Text("none", 0))
Num(n) == Text("num", n)

\* The values of a type in a document as the client sends it.
ValuesOf(t) ==
    CASE t = "bool" -> {Prim("bool", Text("bool", 1))}
      [] t = "int64" -> {Prim("number", Num(2))}
      [] t = "double" -> {Prim("number", Num(3))}
      [] t = "string" -> {Prim("string", Text("word", n)) : n \in WordLengths}
                         \cup {Prim("string", Num(4)), Prim("string", Text("bool", 0))}
      [] t = "byte" -> {Prim("b64", Text("word", 2)), Prim("b64", Text("bit", 1))}
      [] t = "uuid" -> {Prim("string", Text("uuid", 0))}

TextLen(c) == CASE c.a = "word" -> c.n [] c.a = "bool" -> 4 [] c.a = "uuid" -> 16
                [] c.a \in {"be", "ieee"} -> 8 [] OTHER -> 1

\* The value as JSON writes it: what MapToJSON makes of a converted value.
Json(v) == IF v.k \in {"int", "int64", "float64"} THEN [v EXCEPT !.k = "number"]
           ELSE IF v.k = "bytes" THEN [v EXCEPT !.k = "b64"] ELSE v

----------------------------------------------------------------------------
(* Conversions (convertFromBool ... convertType). Nil: not convertible. *)

convertFromBool(to, c) ==
    CASE to = "bool" -> Prim("bool", c)
      [] to \in {"int64", "double"} -> Prim("int", Num(2 * c.n))
      [] to = "string" -> Prim("string", c)
      [] to = "byte" -> Prim("bytes", Text("bit", c.n))
      [] OTHER -> Nil

convertFromInt64(to, c) ==
    CASE to = "bool" -> Prim("bool", Text("bool", IF c.n = 0 THEN 0 ELSE 1))
      [] to = "int64" -> Prim("int64", c)
      [] to = "double" -> Prim("float64", c)
      [] to = "string" -> Prim("string", c)
      [] to = "byte" -> Prim("bytes", Text("be", c.n))
      [] OTHER -> Nil

convertFromDouble(to, c) ==
    CASE to = "bool" -> Prim("bool", Text("bool", IF c.n = 0 THEN 0 ELSE 1))
      [] to = "int64" -> Prim("int64", Num(2 * (c.n \div 2)))  \* math.Floor
      [] to = "double" -> Prim("float64", c)
      [] to = "string" -> Prim("string", c)
      [] to = "byte" -> Prim("bytes", Text("ieee", c.n))
      [] OTHER -> Nil

Cut(c, max) == IF max > 0 /\ TextLen(c) > max THEN Text("word", max) ELSE c

convertFromString(to, c, max) ==
    CASE to = "bool" /\ c.a = "bool" -> Prim("bool", c)
      [] to = "int64" /\ c.a = "num" /\ c.n % 2 = 0 -> Prim("int64", c)
      [] to = "double" /\ c.a = "num" -> Prim("float64", c)
      [] to = "string" -> Prim("string", Cut(c, max))
      [] to = "byte" -> Prim("bytes", Cut(c, max))
      [] to = "uuid" /\ c.a = "uuid" -> Prim("string", c)
      [] OTHER -> Nil

convertFromBytes(to, c, max) ==
    CASE to = "string" -> Prim("string", Cut(c, max))
      [] to = "byte" -> Prim("bytes", Cut(c, max))
      [] to = "uuid" /\ TextLen(c) = 16 -> Prim("string", Text("uuid", 0))
      [] to = "int64" /\ c.a = "be" -> Prim("int64", Num(c.n))
      [] to = "double" /\ c.a = "ieee" -> Prim("float64", Num(c.n))
      [] to = "bool" /\ c.a = "bit" -> Prim("bool", Text("bool", c.n))
      [] OTHER -> Nil

\* An int, which convertFromBool returns, and bytes have no case.
convertType(ch, v) ==
    CASE v.k = "bool" -> convertFromBool(ch.to, v.c)
      [] v.k \in {"string", "b64"} ->
            IF ch.from = "byte" THEN convertFromBytes(ch.to, v.c, ch.max)
            ELSE convertFromString(ch.to, v.c, ch.max)
      [] v.k = "number" /\ ch.from = "int64" -> convertFromInt64(ch.to, v.c)
      [] v.k = "number" /\ ch.from = "double" -> convertFromDouble(ch.to, v.c)
      [] v.k = "float64" -> convertFromDouble(ch.to, v.c)
      [] v.k = "int64" -> convertFromInt64(ch.to, v.c)
      [] OTHER -> Nil

----------------------------------------------------------------------------
(* The changes between two versions (buildSchemaDelta). *)

Change(p, a, b) == [path |-> p, from |-> a[p].t, to |-> b[p].t, max |-> b[p].max]

\* Mutant: a field that is gone is no change.
DiffersKept(a, b, p) == a[p].t # "none" /\ b[p].t # "none" /\ a[p].t # b[p].t

Differs(a, b, p) ==
    /\ a[p].t # "none"
    /\ \/ a[p].t # b[p].t
       \/ b[p].max # 0 /\ (a[p].max = 0 \/ a[p].max > b[p].max)

buildSchemaDelta(a, b) ==
    {Change(p, a, b) : p \in {q \in Paths :
        /\ Differs(a, b, q)
        /\ Len(q) = 2 => ~Differs(a, b, <<q[1]>>)}}

\* buildSchemaDeltas keeps the versions that change something.
buildSchemaDeltas(vs) ==
    SelectSeq([i \in 1..(Len(vs) - 1) |-> [ver |-> i + 1, changes |-> buildSchemaDelta(vs[i], vs[i + 1])]],
              LAMBDA d : d.changes # {})

CompatibleSchemaSince(deltas, ver) == deltas = <<>> \/ ver >= Last(deltas).ver

----------------------------------------------------------------------------
(* Applying the changes to a document (UpdateRowSchema). *)

\* applyPrimitiveFieldDelta: the field is deleted when its schema is gone or
\* its value does not convert.
applyPrimitiveFieldDelta(v, ch) == IF ch.to = "none" \/ v = Nil THEN Nil ELSE convertType(ch, v)

\* applyArrayFieldDelta: one item that does not convert removes the array.
applyArrayFieldDelta(v, ch) ==
    LET e == [i \in 1..Len(v.e) |-> convertType(ch, v.e[i])]
    IN  IF \E i \in 1..Len(v.e) : e[i] = Nil THEN Nil ELSE [v EXCEPT !.e = e]

applyObjectFieldDelta(doc, ch) ==
    LET top == ch.path[1]
        v == doc[top]
    IN  IF Len(ch.path) = 1 THEN [doc EXCEPT ![top] = applyPrimitiveFieldDelta(v, ch)]
        ELSE IF v.k = "array" THEN [doc EXCEPT ![top] = applyArrayFieldDelta(v, ch)]
        ELSE IF v.k = "object" THEN [doc EXCEPT ![top].e = <<applyPrimitiveFieldDelta(v.e[1], ch)>>]
        ELSE doc

applySchemaDelta(doc, d) == FoldLeft(applyObjectFieldDelta, doc, SetToSeq(d.changes))

UpdateRowSchema(deltas, doc, ver) ==
    FoldLeft(applySchemaDelta, doc, SelectSeq(deltas, LAMBDA d : d.ver > ver))

\* The document as a read returns it and as an update stores it again.
Migrated(vs, r) ==
    LET deltas == buildSchemaDeltas(vs)
        doc == UpdateRowSchema(deltas, r.doc, r.ver)
    IN  IF CompatibleSchemaSince(deltas, r.ver) THEN r.doc
        ELSE [t \in Top |-> [Json(doc[t]) EXCEPT !.e = [i \in 1..Len(@) |-> Json(@[i])]]]

----------------------------------------------------------------------------
(* The compatibility rules of an update of the collection. *)

IsCompatible(f, g) ==
    /\ f.t = g.t \/ lenient
    /\ f.max # 0 /\ g.max # 0 /\ f.max > g.max => lenient

\* FieldSchemaValidator.validateLow: a field may go only where incompatible
\* changes are allowed, or from an object that takes other properties.
ApplyBackwardCompatibilityRules(a, b) ==
    \A p \in Paths : a[p].t # "none" =>
        IF b[p].t = "none" THEN lenient \/ (Len(p) = 2 /\ b[<<p[1]>>].map)
        ELSE IsCompatible(a[p], b[p])

----------------------------------------------------------------------------
\* Documents that are valid under a schema. Every field is set, and all but
\* one of the top fields to a fixed value: fields are converted one by one.
FittingDocs(s) ==
    LET leaf(p) == IF s[p].t = "none" THEN {Nil} ELSE {v \in ValuesOf(s[p].t) : s[p].max = 0 \/ TextLen(v.c) <= s[p].max}
        at(t) == CASE s[<<t>>].t = "none" -> {Nil}
                   [] s[<<t>>].t = "object" -> {Value("object", Nil.c, <<v>>) : v \in leaf(Child[t])}
                   [] s[<<t>>].t = "array" -> {Value("array", Nil.c, <<v, w>>) : v, w \in leaf(Child[t])}
                   [] OTHER -> leaf(<<t>>)
        fixed == [t \in Top |-> CHOOSE v \in at(t) : TRUE]
    IN  UNION {{[fixed EXCEPT ![t] = v] : v \in at(t)} : t \in Top}

NoRowYet == [ver |-> 0, doc |-> [t \in Top |-> Nil]]

EvInit ==
    /\ lenient \in BOOLEAN
    /\ versions \in {<<s>> : s \in FieldChoices}
    /\ row = [r \in EvRows |-> NoRowYet] /\ fresh = row

\* updateCollection with a schema that differs: the next version. The rows
\* of fresh are updated under it at once.
Evolve(s) ==
    /\ Len(versions) < MaxVersions
    /\ s # Last(versions)
    /\ ApplyBackwardCompatibilityRules(Last(versions), s)
    /\ versions' = Append(versions, s)
    /\ fresh' = [r \in EvRows |->
                    IF fresh[r].ver = 0 THEN fresh[r]
                    ELSE [ver |-> Len(versions) + 1, doc |-> Migrated(Append(versions, s), fresh[r])]]
    /\ UNCHANGED <<lenient, row>>

\* A client inserts a row.
Insert(r, doc) ==
    /\ row[r].ver = 0 /\ \A q \in EvRows : q < r => row[q].ver # 0
    /\ row' = [row EXCEPT ![r] = [ver |-> Len(versions), doc |-> doc]]
    /\ fresh' = [fresh EXCEPT ![r] = row'[r]]
    /\ UNCHANGED <<lenient, versions>>

EvNext ==
    \/ \E s \in FieldChoices : Evolve(s)
    \/ \E r \in EvRows : \E doc \in FittingDocs(Last(versions)) : Insert(r, doc)

EvTypeOK ==
    /\ lenient \in BOOLEAN
    /\ Len(versions) \in 1..MaxVersions /\ ToSet(versions) \subseteq FieldChoices
    /\ \A r \in EvRows : row[r].ver \in 0..Len(versions) /\ fresh[r].ver \in {0, Len(versions)}

----------------------------------------------------------------------------
Written == {r \in EvRows : row[r].ver # 0}

Fits(v, f) ==
    \/ v = Nil
    \/ /\ CASE f.t = "bool" -> v.k = "bool"
            [] f.t = "int64" -> v.k = "number" /\ v.c.n % 2 = 0
            [] f.t = "double" -> v.k = "number"
            [] f.t = "string" -> v.k = "string"
            [] f.t = "byte" -> v.k = "b64"
            [] f.t = "uuid" -> v.k = "string" /\ v.c.a = "uuid"
            [] f.t \in {"object", "array"} -> v.k = f.t
            [] f.t = "none" -> FALSE
       /\ f.max # 0 /\ v.c.a = "word" => v.c.n <= f.max

\* A row of any age is read as a document of the latest schema: every field
\* it still has is in the schema and of its type, and strings are within the
\* maximal length (UpdateRowSchema, CompatibleSchemaSince). The conversions
\* of booleans and numbers to strings do not look at the length.
ReadFitsSchema ==
    \A r \in Written :
        LET doc == Migrated(versions, row[r])
            s == Last(versions)
        IN  \A t \in Top :
                /\ Fits(doc[t], s[<<t>>])
                /\ \A i \in 1..Len(doc[t].e) : Fits(doc[t].e[i], s[Child[t]])

\* The value read does not depend on when the row was last rewritten: a row
\* converted over several versions at once gives what it gives when it is
\* converted version by version, or has lost the field (convertType,
\* applyArrayFieldDelta).
LateConversionAgrees ==
    \A r \in Written :
        LET late == Migrated(versions, row[r])
            soon == Migrated(versions, fresh[r])
        IN  \A t \in Top : late[t] \in {soon[t], Nil}
                \/ (late[t].k = "object" /\ soon[t].k = "object" /\ late[t].e[1] \in {soon[t].e[1], Nil})

\* Where incompatible changes are refused, an update of the schema changes
\* no value that is stored, but for strings that a new maximal length cuts
\* and fields dropped from an object that takes any
\* (ApplyBackwardCompatibilityRules, buildSchemaDelta).
CompatibleKeepsRows ==
    ~lenient =>
        \A r \in Written :
            LET doc == Migrated(versions, row[r])
                since == {i \in 2..Len(versions) : i > row[r].ver}
                capped(q) == \E i \in since : versions[i][q].max # versions[i - 1][q].max
                map == \E i \in since : versions[i][<<"o">>].map
            IN  /\ capped(<<"f">>) \/ doc["f"] = row[r].doc["f"]
                /\ map \/ doc["o"] = row[r].doc["o"]
                /\ doc["l"] = row[r].doc["l"]

=============================================================================
