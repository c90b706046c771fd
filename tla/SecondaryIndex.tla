--------------------------- MODULE SecondaryIndex ---------------------------
(***************************************************************************)
(* A secondary index of a collection: the rows that writes keep beside     *)
(* their documents, the background build that catches up with documents    *)
(* older than the index, and the reads that trust it once it is active.    *)
(*                                                                         *)
(* Writers and the build run in FoundationDB transactions: they read a     *)
(* snapshot, buffer their writes, and commit unless a key they have read   *)
(* was written since.  A transaction therefore carries the values of its   *)
(* snapshot and the set of keys written after it (dirty).                  *)
(*                                                                         *)
(* A writer runs on a schema that is at least as new as its snapshot       *)
(* (MetadataCache!DmlSeesItsSnapshotSchema): the schema of its snapshot,   *)
(* or the one at the moment it runs.                                       *)
(***************************************************************************)
EXTENDS Integers, FiniteSets

CONSTANTS
    MaxKey,      \* bound: the primary keys are 1 .. MaxKey, in table order
    Values,      \* what the indexed field can hold
    None,        \* no document
    Writers,     \* concurrent writing sessions
    Ops,         \* the operations they use
    DocFetch,    \* BuildCollection's first batch size (500 in the code)
    Grace,       \* does a build wait for writes older than the index?
    Drops,       \* is the index also dropped and added again?
    MaxWrites,   \* bound: write transactions of a behaviour
    MaxFailures, \* bound: commits of a build that fail for other reasons
    MaxBuilds    \* bound: builds requested

AllOps == {"insert", "replace", "update", "delete", "move"}

ASSUME SizesAssumption ==
    /\ MaxKey \in Nat /\ DocFetch \in Nat
    /\ MaxWrites \in Nat /\ MaxFailures \in Nat /\ MaxBuilds \in Nat
ASSUME ValuesAssumption == Values \subseteq Int /\ None \notin Values
ASSUME KindsAssumption == Ops \subseteq AllOps /\ Grace \in BOOLEAN /\ Drops \in BOOLEAN

Keys == 1 .. MaxKey
Docs == [Keys -> Values \cup {None}]
Rows == Keys \X Values
Puts == UNION {[S -> Values \cup {None}] : S \in SUBSET Keys}

VARIABLES
    docs,      \* the table of the collection
    rows,      \* the index rows: <<primary key, value of the field>>
    field,     \* does the schema say the field is indexed?
    state,     \* the state of the index in the collection's metadata
    writes,    \* write transactions begun
    \* Of each writer.
    wpc, wdocs, wdirty, wfield, wreads, wputs, wadds, wdels,
    \* Of the build.
    bpc, bdirty, breads, bbatch, count, first, last, docFetch, failures, builds

wvars == <<wpc, wdocs, wfield, wreads, wputs, wadds, wdels>>
bvars == <<bpc, breads, bbatch, count, first, last, docFetch, failures, builds>>
vars == <<docs, rows, field, state, writes, wdirty, bdirty, wvars, bvars>>

TypeOK ==
    /\ docs \in Docs /\ rows \subseteq Rows
    /\ field \in BOOLEAN /\ state \in {"none", "write", "active"}
    /\ writes \in Nat
    /\ wpc \in [Writers -> {"idle", "begun", "ran"}]
    /\ wdocs \in [Writers -> Docs] /\ wfield \in [Writers -> BOOLEAN]
    /\ wdirty \in [Writers -> SUBSET Keys] /\ wreads \in [Writers -> SUBSET Keys]
    /\ wputs \in [Writers -> Puts]
    /\ wadds \in [Writers -> SUBSET Rows] /\ wdels \in [Writers -> SUBSET Rows]
    /\ bpc \in {"idle", "build", "commit", "built"}
    /\ bdirty \subseteq Keys /\ breads \subseteq Keys /\ bbatch \subseteq Rows
    /\ first \in 0 .. MaxKey /\ last \in 0 .. MaxKey
    /\ count \in Nat /\ docFetch \in Nat /\ failures \in Nat /\ builds \in Nat

\* The collection exists, without the index, and holds some documents.
Init ==
    /\ docs \in Docs /\ rows = {}
    /\ field = FALSE /\ state = "none" /\ writes = 0
    /\ wpc = [w \in Writers |-> "idle"]
    /\ wdocs = [w \in Writers |-> [k \in Keys |-> None]]
    /\ wfield = [w \in Writers |-> FALSE]
    /\ wdirty = [w \in Writers |-> {}] /\ wreads = [w \in Writers |-> {}]
    /\ wputs = [w \in Writers |-> [k \in {} |-> None]]
    /\ wadds = [w \in Writers |-> {}] /\ wdels = [w \in Writers |-> {}]
    /\ bpc = "idle" /\ bdirty = {} /\ breads = {} /\ bbatch = {} /\ count = 0
    /\ first = 0 /\ last = 0 /\ docFetch = DocFetch /\ failures = 0 /\ builds = 0

-----------------------------------------------------------------------------
(* Schema changes.                                                          *)

\* Mutant: the index is active at once, as for a new collection.
AddIndexActive ==
    /\ ~field
    /\ field' = TRUE /\ state' = "active"
    /\ UNCHANGED <<docs, rows, writes, wdirty, bdirty, wvars, bvars>>

\* An update of the collection whose schema indexes the field.  An index the
\* metadata does not know starts in write mode; a known one keeps its state.
AddIndex ==
    /\ ~field
    /\ field' = TRUE
    /\ state' = IF state = "none" THEN "write" ELSE state
    /\ UNCHANGED <<docs, rows, writes, wdirty, bdirty, wvars, bvars>>

\* An update whose schema no longer indexes it: the entry leaves the metadata.
\* createOrUpdate deletes the rows of removed indexes only for a collection
\* that is not in the cached database, so the rows of this one stay.
DropIndex ==
    /\ Drops /\ field
    /\ field' = FALSE /\ state' = "none"
    /\ UNCHANGED <<docs, rows, writes, wdirty, bdirty, wvars, bvars>>

-----------------------------------------------------------------------------
(* Writers.                                                                 *)

\* A session starts its transaction, which fixes its snapshot.
Begin(w) ==
    /\ wpc[w] = "idle" /\ writes < MaxWrites
    /\ wpc' = [wpc EXCEPT ![w] = "begun"]
    /\ wdocs' = [wdocs EXCEPT ![w] = docs]
    /\ wfield' = [wfield EXCEPT ![w] = field]
    /\ wdirty' = [wdirty EXCEPT ![w] = {}]
    /\ writes' = writes + 1
    /\ UNCHANGED <<docs, rows, field, state, bdirty, wreads, wputs, wadds, wdels, bvars>>

\* buildAddAndRemoveKVs: the index row of one document on a given schema.
TableRows(indexed, k, v) == IF indexed /\ v # None THEN {<<k, v>>} ELSE {}

\* SecondaryIndexer.Update: rows both documents have are neither removed nor
\* added.
AddKeys(indexed, k, old, new) == TableRows(indexed, k, new) \ TableRows(indexed, k, old)
RemoveKeys(indexed, k, old, new) == TableRows(indexed, k, old) \ TableRows(indexed, k, new)

\* What a runner leaves in the transaction.
Buffer(w, reads, puts, adds, dels) ==
    /\ wpc' = [wpc EXCEPT ![w] = "ran"]
    /\ wreads' = [wreads EXCEPT ![w] = reads]
    /\ wputs' = [wputs EXCEPT ![w] = puts]
    /\ wadds' = [wadds EXCEPT ![w] = adds]
    /\ wdels' = [wdels EXCEPT ![w] = dels]
    /\ UNCHANGED <<docs, rows, field, state, writes, wdirty, bdirty, wdocs, wfield, bvars>>

\* A runner that fails or finds nothing to do: the transaction changes nothing.
Nothing(w) ==
    /\ wpc' = [wpc EXCEPT ![w] = "idle"]
    /\ UNCHANGED <<docs, rows, field, state, writes, wdirty, bdirty, wdocs, wfield,
                   wreads, wputs, wadds, wdels, bvars>>

\* The schema a writer sees: that of its snapshot, or the one of now.
Schemas(w) == {wfield[w], field}

\* insertOrReplace with Insert: a duplicate key is an error.
Insert(w, k, v) ==
    /\ "insert" \in Ops /\ wpc[w] = "begun"
    /\ \E indexed \in Schemas(w) :
          IF wdocs[w][k] # None THEN Nothing(w)
          ELSE Buffer(w, {k}, [j \in {k} |-> v], TableRows(indexed, k, v), {})

\* Mutant: the rows of the replaced document are not deleted.
ReplaceBlind(w, k, v) ==
    /\ "replace" \in Ops /\ wpc[w] = "begun"
    /\ \E indexed \in Schemas(w) :
          Buffer(w, {k}, [j \in {k} |-> v], TableRows(indexed, k, v), {})

\* insertOrReplace with Replace: ReadDocAndDelete, then Index.
Replace(w, k, v) ==
    /\ "replace" \in Ops /\ wpc[w] = "begun"
    /\ \E indexed \in Schemas(w) :
          Buffer(w, {k}, [j \in {k} |-> v], TableRows(indexed, k, v),
                 TableRows(indexed, k, wdocs[w][k]))

\* UpdateQueryRunner on the document with this key.
Update(w, k, v) ==
    /\ "update" \in Ops /\ wpc[w] = "begun"
    /\ \E indexed \in Schemas(w) :
          IF wdocs[w][k] = None THEN Nothing(w)
          ELSE Buffer(w, {k}, [j \in {k} |-> v], AddKeys(indexed, k, wdocs[w][k], v),
                      RemoveKeys(indexed, k, wdocs[w][k], v))

\* UpdateQueryRunner when the update changes the primary key: the old document
\* and its rows are deleted, and the new key is replaced without being read.
Move(w, k, n) ==
    /\ "move" \in Ops /\ wpc[w] = "begun" /\ k # n
    /\ \E indexed \in Schemas(w) :
          LET v == wdocs[w][k]
          IN  IF v = None THEN Nothing(w)
              ELSE Buffer(w, {k}, [j \in {k, n} |-> IF j = k THEN None ELSE v], TableRows(indexed, n, v),
                          TableRows(indexed, k, v))

\* DeleteQueryRunner on the document with this key.
Delete(w, k) ==
    /\ "delete" \in Ops /\ wpc[w] = "begun"
    /\ \E indexed \in Schemas(w) :
          IF wdocs[w][k] = None THEN Nothing(w)
          ELSE Buffer(w, {k}, [j \in {k} |-> None], {}, TableRows(indexed, k, wdocs[w][k]))

Run(w) ==
    \E k \in Keys :
        \/ Delete(w, k)
        \/ \E v \in Values : Insert(w, k, v) \/ Replace(w, k, v) \/ Update(w, k, v)
        \/ \E n \in Keys : Move(w, k, n)

Put(puts) == [k \in Keys |-> IF k \in DOMAIN puts THEN puts[k] ELSE docs[k]]

\* The writes take effect, deletions of rows first, and the keys written are
\* marked in every open transaction.
Commit(w) ==
    /\ wpc[w] = "ran" /\ wreads[w] \cap wdirty[w] = {}
    /\ docs' = Put(wputs[w])
    /\ rows' = (rows \ wdels[w]) \cup wadds[w]
    /\ wdirty' = [u \in Writers |-> wdirty[u] \cup DOMAIN wputs[w]]
    /\ bdirty' = bdirty \cup DOMAIN wputs[w]
    /\ wpc' = [wpc EXCEPT ![w] = "idle"]
    /\ UNCHANGED <<field, state, writes, wdocs, wfield, wreads, wputs, wadds, wdels, bvars>>

\* A conflict: executeWithRetry starts over, as another write.
Conflict(w) ==
    /\ wpc[w] = "ran" /\ wreads[w] \cap wdirty[w] # {}
    /\ Nothing(w)

-----------------------------------------------------------------------------
(* BuildCollection.                                                         *)

\* BuildCollectionIndex on a schema that has the index.  With Grace the caller
\* waits out the transactions that began before the index was added (at most
\* five seconds in FoundationDB).
StartBuild ==
    /\ bpc = "idle" /\ field /\ builds < MaxBuilds
    /\ Grace => \A w \in Writers : wpc[w] # "idle" => wfield[w]
    /\ bpc' = "build" /\ first' = 0 /\ last' = 0 /\ docFetch' = DocFetch
    /\ builds' = builds + 1
    /\ UNCHANGED <<docs, rows, field, state, writes, wdirty, bdirty, wvars, breads, bbatch, count, failures>>

\* Mutant: a failed batch is not started again from its first document.
FromLast == IF last # 0 THEN last ELSE 1

\* createBulkDocsReader: where the next batch starts.
From == IF first # 0 THEN first ELSE IF last # 0 THEN last ELSE 1

\* The documents from a key on, and the first of them a batch consists of: the
\* loop stops at the end of the table or after docFetch + 1 documents.
Rest(from) == {k \in Keys : k >= from /\ docs[k] # None}
IsBatch(batch, from) ==
    /\ \A k \in batch, j \in Rest(from) \ batch : k < j
    /\ \/ batch = Rest(from) /\ Cardinality(batch) <= docFetch + 1
       \/ Cardinality(batch) = docFetch + 1

\* What the scan has read: up to the document after the batch, or to the end.
Scanned(batch, from) ==
    {k \in Keys : k >= from /\ \A j \in Rest(from) \ batch : k <= j}

\* One transaction of the build, up to its commit.
BuildBatch ==
    /\ bpc = "build"
    /\ \E batch \in SUBSET Rest(From) :
           /\ IsBatch(batch, From)
           /\ bbatch' = {<<k, docs[k]>> : k \in batch}
           /\ breads' = Scanned(batch, From)
           /\ count' = Cardinality(batch)
           /\ IF batch = {} THEN UNCHANGED <<first, last>>
              ELSE /\ first' \in batch /\ last' \in batch
                   /\ \A j \in batch : first' <= j /\ j <= last'
    /\ bdirty' = {} /\ bpc' = "commit"
    /\ UNCHANGED <<docs, rows, field, state, writes, wdirty, wvars, docFetch, failures, builds>>

\* Mutant: the build goes on until a batch is empty.
BuildCommitUntilEmpty ==
    /\ bpc = "commit" /\ breads \cap bdirty = {}
    /\ rows' = rows \cup bbatch
    /\ first' = 0
    /\ bpc' = IF count = 0 THEN "built" ELSE "build"
    /\ UNCHANGED <<docs, field, state, writes, wdirty, bdirty, wvars, breads, bbatch, count,
                   last, docFetch, failures, builds>>

\* The batch commits.  A batch below docFetch is the last one.
BuildCommit ==
    /\ bpc = "commit" /\ breads \cap bdirty = {}
    /\ rows' = rows \cup bbatch
    /\ first' = 0
    /\ bpc' = IF count < docFetch THEN "built" ELSE "build"
    /\ UNCHANGED <<docs, field, state, writes, wdirty, bdirty, wvars, breads, bbatch, count,
                   last, docFetch, failures, builds>>

\* shouldRetryBulkIndex: a conflict, or a transaction too large or too slow;
\* half the batch is tried again from its first document.
BuildRetry ==
    /\ bpc = "commit"
    /\ \/ breads \cap bdirty # {} /\ UNCHANGED failures
       \/ failures < MaxFailures /\ failures' = failures + 1
    /\ docFetch' = docFetch \div 2
    /\ bpc' = "build"
    /\ UNCHANGED <<docs, rows, field, state, writes, wdirty, bdirty, wvars, breads, bbatch, count,
                   first, last, builds>>

\* Any other error ends the request; the index stays in write mode.
BuildFails ==
    /\ bpc = "commit" /\ failures < MaxFailures
    /\ failures' = failures + 1 /\ bpc' = "idle"
    /\ UNCHANGED <<docs, rows, field, state, writes, wdirty, bdirty, wvars, breads, bbatch, count,
                   first, last, docFetch, builds>>

\* UpdateCollectionIndexes with the index list the build started from: an
\* index the metadata no longer knows starts in write mode again.
MarkActive ==
    /\ bpc = "built"
    /\ state' = IF state = "none" THEN "write" ELSE "active"
    /\ bpc' = "idle"
    /\ UNCHANGED <<docs, rows, field, writes, wdirty, bdirty, wvars, breads, bbatch, count,
                   first, last, docFetch, failures, builds>>

Build == BuildBatch \/ BuildCommit \/ BuildRetry \/ BuildFails \/ MarkActive

Next ==
    \/ AddIndex \/ DropIndex \/ StartBuild \/ Build
    \/ \E w \in Writers : Begin(w) \/ Run(w) \/ Commit(w) \/ Conflict(w)

Spec == Init /\ [][Next]_vars

\* The build is one goroutine of a request: it goes on while it can.
FairSpec == Spec /\ WF_vars(BuildBatch) /\ WF_vars(BuildCommit \/ BuildRetry) /\ WF_vars(MarkActive)

-----------------------------------------------------------------------------
(* Properties.                                                              *)

\* The rows an index of the present documents consists of.
Exact == {<<k, docs[k]>> : k \in {j \in Keys : docs[j] # None}}

\* The RFC's promise: an index that queries may use (INDEX_ACTIVE) is consistent
\* with the documents, whatever was written while it was built.
IndexConsistent == (field /\ state = "active") => rows = Exact

\* No row outlives its document: a row always belongs to the document that is
\* stored, in write mode too.
RowsAreLive == rows \subseteq Exact

\* A build that restarts, after a commit or a failed one, leaves no document
\* behind it without its row.
BuildLeavesNoGap ==
    bpc \in {"build", "commit"} => \A r \in Exact : r[1] < From => r \in rows

\* BuildCollection comes to an end.
BuildEnds == (bpc # "idle") ~> (bpc = "idle")

-----------------------------------------------------------------------------
(* The inductive invariant behind IndexConsistent.                          *)

Row(k) == TableRows(TRUE, k, docs[k])
Indexed(k) == Row(k) \subseteq rows

\* A writer's snapshot differs from the table only where others have written.
SnapshotInv ==
    \A w \in Writers : wpc[w] # "idle" =>
        \A k \in Keys \ wdirty[w] : wdocs[w][k] = docs[k]

\* A writer older than the index finds no row of a document it has not lost to
\* another writer, and no build has started.
OldWriterInv ==
    \A w \in Writers : (wpc[w] # "idle" /\ ~wfield[w]) =>
        /\ builds = 0
        /\ \A r \in rows : r[1] \in wdirty[w]

\* What a runner has buffered: the new state of one document it has read, and
\* on an indexed schema the rows that follow from it.
Buffered(w) ==
    \E k \in Keys, indexed \in BOOLEAN :
        LET old == TableRows(indexed, k, wdocs[w][k])
            new == TableRows(indexed, k, wputs[w][k])
        IN  /\ wfield[w] => indexed
            /\ indexed => field
            /\ wreads[w] = {k} /\ DOMAIN wputs[w] = {k}
            /\ wdels[w] \subseteq old /\ old \ new \subseteq wdels[w]
            /\ wadds[w] \subseteq new /\ (new \ old) \cup (new \cap wdels[w]) \subseteq wadds[w]
BufferInv == \A w \in Writers : wpc[w] = "ran" => Buffered(w)

\* The index is known before anything writes to it or builds it.
FieldInv ==
    /\ \A w \in Writers : (wpc[w] # "idle" /\ wfield[w]) => field
    /\ ~field => rows = {} /\ builds = 0
    /\ field <=> state # "none"
    /\ builds = 0 => bpc = "idle" /\ state # "active"

\* What a batch has read and not lost to a writer is what the table holds; the
\* documents among it are in the batch, but for the one after it.
BatchInv ==
    bpc = "commit" =>
        /\ \A r \in bbatch : r[1] \in breads
        /\ \A r \in bbatch : r[1] \notin bdirty => r \in Row(r[1])
        /\ \A k \in breads \ bdirty :
              Row(k) \subseteq bbatch \/ (count >= docFetch /\ k > last)
        /\ \A k \in Keys : (k >= From /\ (k <= last \/ count < docFetch)) => k \in breads
        /\ first = 0 => bbatch = {}

\* Every document the build is past has its row, and all have in the end.
CoveredInv ==
    /\ bpc \in {"build", "commit"} => \A k \in Keys : k < From => Indexed(k)
    /\ (bpc = "built" \/ state = "active") => \A k \in Keys : Indexed(k)

IndexInv ==
    /\ TypeOK /\ SnapshotInv /\ OldWriterInv /\ BufferInv /\ FieldInv
    /\ RowsAreLive /\ BatchInv /\ CoveredInv

=============================================================================
