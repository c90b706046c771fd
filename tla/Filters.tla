------------------------------ MODULE Filters ------------------------------
(***************************************************************************)
(* Query filters: how the JSON of a filter is parsed, which documents it   *)
(* matches, and the filter it becomes in the search engine (query/filter   *)
(* and value).                                                             *)
(*                                                                         *)
(* A JSON object is a sequence of pairs [key, lit, ops, arr]: a condition  *)
(* with a literal, one with operators, or, under "$and" and "$or", an      *)
(* array of objects. Strings are numbers in collation order.               *)
(***************************************************************************)
EXTENDS Integers, Sequences, SequencesExt, FiniteSets

CONSTANT FSchema  \* [field -> [type, sub]], the queryable fields

-----------------------------------------------------------------------------
(* Values (value/value.go, value/eval.go). *)

Null == [t |-> "null", n |-> 0, a |-> <<>>]
Missing == [t |-> "missing", n |-> 0, a |-> <<>>]
MaxVal == [t |-> "max", n |-> 255, a |-> <<>>]
BadValue == [t |-> "error", n |-> 0, a |-> <<>>]

isNull(type, lit) == type = "null" \/ lit.j = "null"

\* Numbers parse from the text of numbers, strings from anything.
NewValue(type, lit) ==
    IF isNull(type, lit) THEN Null
    ELSE CASE type \in {"int", "double"} /\ lit.j = "num" -> [t |-> type, n |-> lit.n, a |-> <<>>]
           [] type = "bool" /\ lit.j = "bool" -> [t |-> "bool", n |-> lit.n, a |-> <<>>]
           [] type = "string" /\ lit.j \in {"str", "num", "bool"} ->
                [t |-> "string", n |-> lit.n, a |-> <<>>]
           [] type = "array" /\ lit.j = "arr" -> [t |-> "array", n |-> 0, a |-> lit.a]
           [] OTHER -> BadValue

Sign(x) == IF x = 0 THEN 0 ELSE IF x < 0 THEN -1 ELSE 1

\* bytes.Compare on the text of two arrays, here on their elements.
CompareArrays(x, y) ==
    IF x = y THEN 0
    ELSE LET common == {i \in 1..Len(x) : i <= Len(y) /\ x[i] # y[i]}
         IN  IF common = {} THEN Sign(Len(x) - Len(y))
             ELSE LET i == CHOOSE i \in common : \A k \in common : i <= k IN Sign(x[i] - y[i])

\* -2 when the types differ; null is below everything.
CompareTo(x, y) ==
    CASE x.t = "null" -> IF y.t = "null" THEN 0 ELSE -1
      [] x.t # "null" /\ y.t = "null" -> IF x.t = "array" THEN -2 ELSE 1
      [] x.t # y.t -> -2
      [] x.t = "array" -> CompareArrays(x.a, y.a)
      [] OTHER -> Sign(x.n - y.n)

\* An element of an array, a number here, against the value of a condition.
AnyCompare(e, v) ==
    CASE v.t \in {"int", "double"} -> Sign(e - v.n)
      [] v.t = "null" -> -1
      [] OTHER -> -2

-----------------------------------------------------------------------------
(* Parsing (query/filter/filter.go). *)

Bad == [k |-> "error", field |-> "", op |-> "", val |-> Null, subs |-> <<>>]
Sel(f, op, v) == [k |-> "sel", field |-> f, op |-> op, val |-> v, subs |-> <<>>]
LikeF(f, op, v) == [k |-> "like", field |-> f, op |-> op, val |-> v, subs |-> <<>>]
Logical(op, fs) == [k |-> op, field |-> "", op |-> "", val |-> Null, subs |-> fs]
Failed(fs) == \E i \in 1..Len(fs) : fs[i].k = "error"

toTigrisType(field, lit) ==
    IF FSchema[field].type # "array" THEN FSchema[field].type
    ELSE IF lit.j = "arr" THEN "array" ELSE FSchema[field].sub

\* The operators of one condition: the last one is the one that is kept.
buildValueMatcher(field, ops) ==
    LET one(o) ==
            IF o.op \in {"$eq", "$gt", "$gte", "$lt", "$lte"}
            THEN LET v == NewValue(toTigrisType(field, o.lit), o.lit)
                 IN  IF v = BadValue THEN Bad ELSE Sel(field, o.op, v)
            ELSE IF o.lit.j = "str" /\ "string" \in {FSchema[field].type, FSchema[field].sub}
                 THEN LikeF(field, o.op, NewValue("string", o.lit))
                 ELSE Bad
        fs == [i \in 1..Len(ops) |-> one(ops[i])]
        likes == SelectSeq(fs, LAMBDA f : f.k = "like")
    IN  IF Failed(fs) THEN Bad
        ELSE IF likes # <<>> THEN Last(likes) ELSE Last(fs)

ParseSelector(pair) ==
    IF pair.key \notin DOMAIN FSchema THEN Bad
    ELSE IF pair.ops # <<>> THEN buildValueMatcher(pair.key, pair.ops)
    ELSE LET v == NewValue(toTigrisType(pair.key, pair.lit), pair.lit)
         IN  IF v = BadValue THEN Bad ELSE Sel(pair.key, "$eq", v)

RECURSIVE ParsePair(_)
\* An object inside "$and" or "$or" keeps the last of its pairs.
UnmarshalFilter(object) ==
    LET fs == [i \in 1..Len(object) |-> ParsePair(object[i])]
    IN  IF Failed(fs) THEN Bad ELSE Last(fs)

\* UnmarshalAnd and UnmarshalOr: at least two filters.
UnmarshalLogical(op, objects) ==
    LET fs == [i \in 1..Len(objects) |-> UnmarshalFilter(objects[i])]
    IN  IF Len(objects) < 2 \/ Failed(fs) THEN Bad ELSE Logical(op, fs)

ParsePair(pair) ==
    CASE pair.key = "$and" -> UnmarshalLogical("and", pair.arr)
      [] pair.key = "$or" -> UnmarshalLogical("or", pair.arr)
      [] OTHER -> ParseSelector(pair)

Factorize(raw) == [i \in 1..Len(raw) |-> ParsePair(raw[i])]

\* NewWrappedFilter: all the pairs of the outermost object must hold.
Wrapped(fs) == IF Len(fs) = 1 THEN fs[1] ELSE Logical("and", fs)

-----------------------------------------------------------------------------
(* Matching documents (selector.go, comparison.go, logical.go, like.go). *)

OpHolds(op, cmp) ==
    CASE op = "$eq" -> cmp = 0
      [] op = "$gt" -> cmp > 0
      [] op = "$gte" -> cmp >= 0
      [] op = "$lt" -> cmp < 0
      [] op = "$lte" -> cmp <= 0

ArrMatches(op, arr, v) == \E i \in 1..Len(arr) : OpHolds(op, AnyCompare(arr[i], v))

\* Selector.Matches, on the stored document.
SelectorMatches(f, doc) ==
    LET v == doc[f.field]
    IN  IF FSchema[f.field].type = "array" /\ f.val.t # "array"
        THEN v.t = "array" /\ ArrMatches(f.op, v.a, f.val)
        ELSE v.t # "missing" /\ OpHolds(f.op, CompareTo(v, f.val))

\* $contains and $not of one text, where a text contains the lower ones.
LikeMatches(f, doc) ==
    LET v == doc[f.field]
    IN  /\ v.t = "string"
        /\ IF f.op = "$not" THEN v.n < f.val.n ELSE v.n >= f.val.n

\* Selector.MatchesDoc, on a document that the search engine returned.
SelectorMatchesDoc(f, doc) ==
    \/ doc[f.field].t \in {"missing", "null"}
    \/ FSchema[f.field].type \notin {"string", "double"}
    \/ OpHolds(f.op, CompareTo(doc[f.field], f.val))

RECURSIVE Matches(_, _)
Matches(f, doc) ==
    CASE f.k = "sel" -> SelectorMatches(f, doc)
      [] f.k = "like" -> LikeMatches(f, doc)
      [] f.k = "and" -> \A i \in 1..Len(f.subs) : Matches(f.subs[i], doc)
      [] f.k = "or" -> \E i \in 1..Len(f.subs) : Matches(f.subs[i], doc)

RECURSIVE MatchesDoc(_, _)
MatchesDoc(f, doc) ==
    CASE f.k = "sel" -> SelectorMatchesDoc(f, doc)
      [] f.k = "like" -> doc[f.field].t = "missing" \/ LikeMatches(f, doc)
      [] f.k = "and" -> \A i \in 1..Len(f.subs) : MatchesDoc(f.subs[i], doc)
      [] f.k = "or" -> \E i \in 1..Len(f.subs) : MatchesDoc(f.subs[i], doc)

-----------------------------------------------------------------------------
(* The filter for the search engine (logical.go, selector.go): tokens.     *)

Tok(s) == [tok |-> s, f |-> Bad]
Cond(f) == [tok |-> "cond", f |-> f]

\* An array literal becomes one condition for each element.
SelectorToSearch(f) ==
    IF f.val.t # "array" THEN <<Cond(f)>>
    ELSE FoldLeft(LAMBDA acc, e : (IF acc = <<>> THEN <<>> ELSE acc \o <<Tok("&&")>>)
                      \o <<Cond([f EXCEPT !.val = [t |-> FSchema[f.field].sub, n |-> e, a |-> <<>>]])>>,
                  <<>>, f.val.a)

RECURSIVE ToSearchFilter(_)
\* The conditions first, then each logical filter in parentheses, except
\* that the first one has none when no condition comes before it.
serialize(token, fs) ==
    LET sels == SelectSeq(fs, LAMBDA f : f.k = "sel")
        logical == SelectSeq(fs, LAMBDA f : f.k \in {"and", "or"})
        joined == FoldLeft(LAMBDA acc, f : (IF acc = <<>> THEN <<>> ELSE acc \o <<Tok(token)>>)
                               \o SelectorToSearch(f), <<>>, sels)
    IN  FoldLeft(LAMBDA acc, f : IF acc = <<>> THEN ToSearchFilter(f)
                     ELSE acc \o <<Tok(token), Tok("(")>> \o ToSearchFilter(f) \o <<Tok(")")>>,
                 joined, logical)

ToSearchFilter(f) ==
    CASE f.k = "sel" -> SelectorToSearch(f)
      [] f.k = "like" -> <<>>
      [] f.k = "and" -> serialize("&&", f.subs)
      [] f.k = "or" -> serialize("||", f.subs)

\* Mutant: conditions that the engine cannot evaluate count as indexed.
IsSearchIndexedAlways(f) == TRUE

RECURSIVE IsSearchIndexed(_)
IsSearchIndexed(f) ==
    CASE f.k = "sel" -> f.val.t # "null"
      [] f.k = "like" -> FALSE
      [] OTHER -> \A i \in 1..Len(f.subs) : IsSearchIndexed(f.subs[i])

\* How the engine reads a filter: && binds tighter than ||, a condition on
\* an array holds for one element of it, and null is not indexed.
Depth(toks, i) ==
    Cardinality({j \in 1..(i - 1) : toks[j].tok = "("}) - Cardinality({j \in 1..(i - 1) : toks[j].tok = ")"})

SplitAt(toks, op) ==
    LET cuts == {0, Len(toks) + 1} \cup {i \in 1..Len(toks) : toks[i].tok = op /\ Depth(toks, i) = 0}
        next(c) == CHOOSE d \in cuts : d > c /\ \A e \in cuts : e > c => d <= e
    IN  {SubSeq(toks, c + 1, next(c) - 1) : c \in cuts \ {Len(toks) + 1}}

EngineCond(f, doc) ==
    LET v == doc[f.field]
    IN  CASE v.t \in {"missing", "null"} -> FALSE
          [] v.t = "array" -> \E i \in 1..Len(v.a) : OpHolds(f.op, Sign(v.a[i] - f.val.n))
          [] OTHER -> OpHolds(f.op, Sign(v.n - f.val.n))

RECURSIVE EngineHolds(_, _)
EngineHolds(toks, doc) ==
    \E disjunct \in SplitAt(toks, "||") :
        \A part \in SplitAt(disjunct, "&&") :
            IF Len(part) = 1 THEN EngineCond(part[1].f, doc)
            ELSE EngineHolds(SubSeq(part, 2, Len(part) - 1), doc)

=============================================================================
