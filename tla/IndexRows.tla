------------------------------ MODULE IndexRows ------------------------------
(***************************************************************************)
(* The entries a document has in the secondary index: one for each indexed *)
(* field and for its two timestamps. A write does not build them anew, it  *)
(* compares the rows of the old document with those of the new one and     *)
(* touches what differs (database/secondary_indexer.go). Rows are compared *)
(* by their values (value/value.go), stored under keys made of a shortened *)
(* or rounded form of them, so that neither equality is the other.         *)
(***************************************************************************)
EXTENDS Integers, FiniteSets

CONSTANTS
    IrTypes,  \* types of the indexed field that are tried
    IrRanks,  \* type -> its values in their order, as numbers
    IrForms   \* type -> rank -> the rank of the form that is put in a key

VARIABLES
    irType,  \* the type of the field
    irDoc,   \* the document: {} or one [f, created, updated]
    irKeys,  \* the entries of the index that name the document
    irBlank  \* an update has changed a null into an empty string or back

irvars == <<irType, irDoc, irKeys, irBlank>>

\* What a field is in the document: absent, null, the empty string, or the
\* value of some rank.
Blank == 0
Raws(type) == {[j |-> "absent", n |-> 0], [j |-> "null", n |-> 0]}
              \cup {[j |-> "value", n |-> n] : n \in IrRanks[type]}
              \cup (IF type = "string" THEN {[j |-> "value", n |-> Blank]} ELSE {})

NoTime == 0

-----------------------------------------------------------------------------
(* Values. *)

NullVal == [type |-> "null", n |-> 0, form |-> 0]

\* Strings are cut before their sort key is made, decimals are kept with all
\* their digits beside the double that goes into the key.
NewStringValue(n) == [type |-> "string", n |-> n, form |-> IrForms["string"][n]]
NewDoubleValue(n) == [type |-> "double", n |-> n, form |-> IrForms["double"][n]]
NewOther(type, n) == [type |-> type, n |-> n, form |-> n]

\* NewValueUsingCollation of a raw value, where no bytes are null.
ValueFrom(type, n) ==
    CASE type = "null" \/ (type = "string" /\ n = Blank) -> NullVal
      [] type = "string" -> NewStringValue(n)
      [] type = "double" -> NewDoubleValue(n)
      [] OTHER -> NewOther(type, n)

\* CompareTo of each type, of two values of it; "error" is none of these.
Order(n) == IF n < 0 THEN -1 ELSE IF n > 0 THEN 1 ELSE 0
CompareNull(b) == IF b = NullVal THEN 0 ELSE -1
CompareBool(a, b) == IF a.n < b.n THEN -1 ELSE IF a.n > b.n THEN 1 ELSE 0
CompareDouble(a, b) == Order(a.n - b.n)
CompareString(a, b) == Order(a.n - b.n)
CompareDateTime(a, b) == IF a.n = b.n THEN 0 ELSE IF a.n < b.n THEN -1 ELSE 1
CompareVals(a, b) ==
    CASE a = NullVal -> CompareNull(b)
      [] b = NullVal -> 1
      [] a.type # b.type -> -2
      [] a.type = "bool" -> CompareBool(a, b)
      [] a.type = "double" -> CompareDouble(a, b)
      [] a.type = "string" -> CompareString(a, b)
      [] OTHER -> CompareDateTime(a, b)

-----------------------------------------------------------------------------
(* Rows and keys. *)

IndexRow(name, type, n) == [name |-> name, value |-> ValueFrom(type, n), type |-> type, null |-> FALSE]
newMissingRow(name) == [name |-> name, value |-> NullVal, type |-> "null", null |-> TRUE]
newNullRow(name) == [name |-> name, value |-> NullVal, type |-> "null", null |-> TRUE]

\* indexField; the index is not sparse.
indexField(type, raw) ==
    CASE raw.j = "absent" -> newMissingRow("f")
      [] raw.j = "null" -> newNullRow("f")
      [] OTHER -> IndexRow("f", type, raw.n)

buildTSRows(doc) ==
    {IndexRow(name, IF t = NoTime THEN "null" ELSE "datetime", t) :
        <<name, t>> \in {<<"_tigris_created_at", doc.created>>, <<"_tigris_updated_at", doc.updated>>}}

\* buildTableRows of none or one document.
RowsFrom(docs) == UNION {buildTSRows(d) \cup {indexField(irType, d.f)} : d \in docs}

\* ToSecondaryOrder.
TypeOrder(type, v) ==
    CASE type = "null" -> 5
      [] type \in {"double", "int64"} -> 10
      [] type = "string" -> 15
      [] type = "bool" -> 25 + v.n
      [] OTHER -> 30
buildIndexKey(row) == <<row.name, IF row.null THEN 5 ELSE TypeOrder(row.type, row.value), row.value.form>>

RowsEqual(a, b) == CompareVals(a.value, b.value) = 0 /\ a.name = b.name
containsIndexRow(rows, row) == \E r \in rows : RowsEqual(r, row)
\* Those of removes that are not among rows.
removeDuplicateRows(rows, removes) == {r \in removes : ~containsIndexRow(rows, r)}
IndexKeysOf(rows) == {buildIndexKey(r) : r \in rows}

\* The keys to remove and to add: those of the rows only one of the two documents has.
buildAddAndRemoveKVs(new, old) ==
    [removeKeys |-> IndexKeysOf(removeDuplicateRows(RowsFrom(new), RowsFrom(old))),
     addKeys |-> IndexKeysOf(removeDuplicateRows(RowsFrom(old), RowsFrom(new)))]

\* Update: entries are removed before the others are added, under keys that
\* may be the same.
UpdateEntries(keys, new, old) ==
    LET set == buildAddAndRemoveKVs(new, old) IN (keys \ set.removeKeys) \cup set.addKeys

ReadDocAndDelete(keys, docs) == UpdateEntries(keys, {}, docs)

-----------------------------------------------------------------------------
(* Writes. *)

IrInit == irType \in IrTypes /\ irDoc = {} /\ irKeys = {} /\ irBlank = FALSE

NewDoc(raw) == [f |-> raw, created |-> 1, updated |-> NoTime]

InsertIndexed(raw) ==
    /\ irDoc = {}
    /\ irDoc' = {NewDoc(raw)}
    /\ irKeys' = UpdateEntries(irKeys, irDoc', {})
    /\ UNCHANGED <<irType, irBlank>>

\* insertOrReplace: ReadDocAndDelete, then the new document is indexed.
ReplaceIndexed(raw) ==
    /\ irDoc' = {NewDoc(raw)}
    /\ irKeys' = UpdateEntries(ReadDocAndDelete(irKeys, irDoc), irDoc', {})
    /\ UNCHANGED <<irType, irBlank>>

\* UpdateQueryRunner.Run; a later update has a later time.
IsBlank(raw) == raw = [j |-> "value", n |-> Blank]
UpdateIndexed(raw) ==
    /\ \E d \in irDoc :
         /\ irDoc' = {[d EXCEPT !.f = raw, !.updated = IF @ = 1 THEN 2 ELSE 1]}
         /\ irBlank' = (irBlank \/ (irType = "string" /\ raw # d.f /\ (IsBlank(raw) \/ IsBlank(d.f))
                                    /\ ValueFrom("string", raw.n) = ValueFrom("string", d.f.n)))
    /\ irKeys' = UpdateEntries(irKeys, irDoc', irDoc)
    /\ UNCHANGED irType

\* DeleteQueryRunner.Run.
DeleteIndexed ==
    /\ irDoc # {}
    /\ irDoc' = {} /\ irKeys' = UpdateEntries(irKeys, {}, irDoc)
    /\ UNCHANGED <<irType, irBlank>>

\* BuildCollection comes to the document.
BuildIndexed ==
    /\ irDoc # {}
    /\ irKeys' = UpdateEntries(irKeys, irDoc, {})
    /\ UNCHANGED <<irType, irDoc, irBlank>>

IrNext ==
    \/ \E raw \in Raws(irType) : InsertIndexed(raw) \/ ReplaceIndexed(raw) \/ UpdateIndexed(raw)
    \/ DeleteIndexed
    \/ BuildIndexed

-----------------------------------------------------------------------------

(***************************************************************************)
(* Whatever the writes, the index has exactly the entries that indexing    *)
(* the document from nothing gives, and none when it is deleted            *)
(* (removeDuplicateRows compares values, Update writes keys). An update    *)
(* between null and the empty string is apart: the two are equal as values *)
(* and have different keys.                                                *)
(***************************************************************************)
EntriesAsBuilt == ~irBlank => irKeys = IndexKeysOf(RowsFrom(irDoc))

(***************************************************************************)
(* Even so no entry is lost: every field of the document is found in the   *)
(* index under its value (Update).                                         *)
(***************************************************************************)
NoEntryLost ==
    \A r \in RowsFrom(irDoc) : \E k \in irKeys : k[1] = r.name /\ k[3] = r.value.form
                                                  /\ (r.value # NullVal => k = buildIndexKey(r))

(***************************************************************************)
(* Entries are in the order of the values: a value before another one has  *)
(* no later key (CompareTo of each type against ToSecondaryOrder and the   *)
(* forms that are put in keys).                                            *)
(***************************************************************************)
EntriesInOrder ==
    \A a, b \in {indexField(irType, raw) : raw \in Raws(irType)} :
        LET ka == buildIndexKey(a)
            kb == buildIndexKey(b)
        IN CompareVals(a.value, b.value) = -1 => ka[2] < kb[2] \/ (ka[2] = kb[2] /\ ka[3] <= kb[3])

=============================================================================
