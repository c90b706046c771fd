---------------------------- MODULE Projections ----------------------------
(***************************************************************************)
(* The fields a read or a search returns (query/read/fields.go). A request *)
(* lists fields to include and to exclude; the factory built from the list *)
(* is applied to every document the read finds, one after the other, and   *)
(* keeps the values it fetched from a document in a field of its own.      *)
(***************************************************************************)
EXTENDS Naturals, Sequences, FiniteSets, SequencesExt

CONSTANTS PjKeys,    \* fields
          PjKinds,   \* what a list may say of a field
          PjDocs,    \* documents: functions from their fields to values
          MaxListed, \* fields a request lists
          MaxPjDocs  \* documents a read finds

VARIABLES pjFields,  \* the list of the request: a sequence of <<field, what it says>>
          factory,   \* Include, Exclude and FetchedValues, or the error
          pjDoc,     \* the document read last
          pjRow,     \* and what was returned of it
          pjRead     \* documents read

pjvars == <<pjFields, factory, pjDoc, pjRow, pjRead>>

NoValues == [k \in {} |-> 0]
EmptyFactory == [built |-> TRUE, Include |-> [k \in {} |-> ""], Exclude |-> {}, FetchedValues |-> NoValues]
NoFactory == [EmptyFactory EXCEPT !.built = FALSE]

\* An integer other than 1 excludes, as 0 does; other numbers, and expressions that are none, are errors.
Includes(kind) == kind \in {"true", "1", "expression"}
Readable(kind) == kind \in {"true", "false", "0", "1", "2", "expression"}

\* A field listed twice is what it was listed as last, among the included or the excluded; it may be both.
AddField(f, key, kind) ==
    IF Includes(kind) THEN [f EXCEPT !.Include = [k \in DOMAIN @ \cup {key} |-> IF k = key THEN kind ELSE @[k]]]
    ELSE [f EXCEPT !.Exclude = @ \cup {key}]

BuildFields(fields) ==
    FoldLeft(LAMBDA f, e : IF f.built /\ Readable(e[2]) THEN AddField(f, e[1], e[2]) ELSE NoFactory, EmptyFactory, fields)

FetchValues(f, doc) == [k \in DOMAIN doc \ f.Exclude |-> doc[k]]

\* SimpleField.Apply gives the value that was fetched; ExprField.Apply gives none.
applyIncludeOnly(f) ==
    LET has == {k \in DOMAIN f.Include : f.Include[k] # "expression" /\ k \in DOMAIN f.FetchedValues}
    IN  [k \in has |-> f.FetchedValues[k]]

applyExcludeOnly(f) == [k \in DOMAIN f.FetchedValues \ f.Exclude |-> f.FetchedValues[k]]

-----------------------------------------------------------------------------
\* A request arrives with its list.
BuildProjection ==
    /\ pjRead = 0 /\ factory = EmptyFactory /\ pjFields = <<>>
    /\ \E n \in 0..MaxListed : pjFields' \in [1..n -> PjKeys \X PjKinds]
    /\ factory' = BuildFields(pjFields')
    /\ UNCHANGED <<pjDoc, pjRow, pjRead>>

\* A document is read; with nothing listed it is returned as it is.
Apply(doc) ==
    /\ factory.built /\ pjRead < MaxPjDocs
    /\ LET bare == DOMAIN factory.Include = {} /\ factory.Exclude = {}
           f == [factory EXCEPT !.FetchedValues = FetchValues(factory, doc)]
       IN  /\ factory' = IF bare THEN factory ELSE f
           /\ pjRow' = IF bare THEN doc ELSE IF DOMAIN f.Include = {} THEN applyExcludeOnly(f) ELSE applyIncludeOnly(f)
    /\ pjDoc' = doc /\ pjRead' = pjRead + 1
    /\ UNCHANGED pjFields

PjInit == pjFields = <<>> /\ factory = EmptyFactory /\ pjDoc = NoValues /\ pjRow = NoValues /\ pjRead = 0

PjNext == BuildProjection \/ \E doc \in PjDocs : Apply(doc)

-----------------------------------------------------------------------------
\* The last time a list includes a field, by its name and not by an expression.
IncludedLast(fields, key) ==
    \E i \in DOMAIN fields :
        /\ fields[i][1] = key /\ fields[i][2] \in {"true", "1"}
        /\ \A j \in DOMAIN fields : j > i /\ fields[j][1] = key => fields[j][2] # "expression"

(***************************************************************************)
(* What is returned of a document is that document's, whatever was read    *)
(* before: the fields the list does not exclude and, if it includes any,   *)
(* only those it includes, with their values. A field both included and    *)
(* excluded is left out. (FieldFactory.Apply.)                             *)
(***************************************************************************)
RowIsProjection ==
    factory.built /\ pjRead > 0 =>
        LET listed == {pjFields[i] : i \in DOMAIN pjFields}
            out == {k \in DOMAIN pjDoc : \E e \in listed : e[1] = k /\ ~Includes(e[2])}
            selects == \E e \in listed : Includes(e[2])
        IN  pjRow = [k \in {x \in DOMAIN pjDoc \ out : selects => IncludedLast(pjFields, x)} |-> pjDoc[k]]

(***************************************************************************)
(* A list with an entry that cannot be read is refused, wherever it stands *)
(* and whatever follows it: no document is read with part of the list.     *)
(* (BuildFields.)                                                          *)
(***************************************************************************)
BadListRefused ==
    (\E i \in DOMAIN pjFields : ~Readable(pjFields[i][2])) => ~factory.built /\ pjRead = 0
=============================================================================
