------------------------ MODULE SecondaryIndexProofs ------------------------
(***************************************************************************)
(* An active index agrees with its documents, for every table, number of   *)
(* writers and batch size, provided that builds wait for writes older than *)
(* the index, that no index is dropped and that no write changes a primary *)
(* key.                                                                    *)
(***************************************************************************)
EXTENDS SecondaryIndex, FiniteSetTheorems, TLAPS

\* The conditions under which the index is kept.
Kept == Grace /\ ~Drops /\ "move" \notin Ops

-----------------------------------------------------------------------------
(* Types.                                                                   *)

\* An index row is a row, and only a stored document has one.
LEMMA TableRowsType ==
    ASSUME NEW i \in BOOLEAN, NEW k \in Keys, NEW v \in Values \cup {None}
    PROVE  /\ TableRows(i, k, v) \subseteq Rows
           /\ TableRows(i, k, v) \subseteq TableRows(TRUE, k, v)
           /\ \A r \in TableRows(i, k, v) : r[1] = k /\ r[2] = v
           /\ i => TableRows(i, k, v) = TableRows(TRUE, k, v)
  BY DEF TableRows, Rows

\* What a runner may do: give up, or buffer a change of one document.
Change(w, k, v, indexed, adds, dels) ==
    /\ indexed \in Schemas(w)
    /\ Buffer(w, {k}, [j \in {k} |-> v], adds, dels)
    /\ LET old == TableRows(indexed, k, wdocs[w][k])
           new == TableRows(indexed, k, v)
       IN  /\ dels \subseteq old /\ old \ new \subseteq dels
           /\ adds \subseteq new /\ (new \ old) \cup (new \cap dels) \subseteq adds

\* Without changes of primary keys a runner changes one document at most.
LEMMA RunEffect ==
    ASSUME Kept, TypeOK, NEW w \in Writers, Run(w)
    PROVE  /\ wpc[w] = "begun"
           /\ \/ Nothing(w)
              \/ \E k \in Keys, v \in Values \cup {None}, indexed \in BOOLEAN :
                    \E adds, dels \in SUBSET Rows : Change(w, k, v, indexed, adds, dels)
PROOF
  <1>1. PICK k \in Keys :
           \/ Delete(w, k)
           \/ \E v \in Values : Insert(w, k, v) \/ Replace(w, k, v) \/ Update(w, k, v)
    BY Zenon DEF Run, Kept, Move
  <1>2. wdocs[w][k] \in Values \cup {None}
    BY Zenon DEF TypeOK, Docs
  <1>3. Schemas(w) \subseteq BOOLEAN
    BY Zenon DEF Schemas, TypeOK
  <1>4. \A i \in BOOLEAN, v \in Values \cup {None} : TableRows(i, k, v) \in SUBSET Rows
    BY TableRowsType, Zenon
  <1>5. \A i \in BOOLEAN : TableRows(i, k, None) = {}
    BY Zenon DEF TableRows
  <1>6. CASE Delete(w, k)
    <2>1. PICK indexed \in Schemas(w) :
             IF wdocs[w][k] = None THEN Nothing(w)
             ELSE Buffer(w, {k}, [j \in {k} |-> None], {}, TableRows(indexed, k, wdocs[w][k]))
      BY <1>6, Zenon DEF Delete
    <2>2. CASE Nothing(w)
      BY <1>6, <2>2, Zenon DEF Delete
    <2>3. CASE Buffer(w, {k}, [j \in {k} |-> None], {}, TableRows(indexed, k, wdocs[w][k]))
      <3>1. indexed \in BOOLEAN
        BY <1>3, Zenon
      <3>2. Change(w, k, None, indexed, {}, TableRows(indexed, k, wdocs[w][k]))
        BY <2>3, <3>1, <1>5, Zenon DEF Change
      <3> QED
        BY <1>6, <3>1, <3>2, <1>2, <1>4, Zenon DEF Delete
    <2> QED
      BY <2>1, <2>2, <2>3, Zenon
  <1>7. ASSUME NEW v \in Values, Insert(w, k, v)
        PROVE  /\ wpc[w] = "begun"
               /\ \/ Nothing(w)
                  \/ \E indexed \in BOOLEAN : \E adds, dels \in SUBSET Rows :
                        Change(w, k, v, indexed, adds, dels)
    <2>1. PICK indexed \in Schemas(w) :
             IF wdocs[w][k] # None THEN Nothing(w)
             ELSE Buffer(w, {k}, [j \in {k} |-> v], TableRows(indexed, k, v), {})
      BY <1>7, Zenon DEF Insert
    <2>2. CASE wdocs[w][k] # None
      BY <1>7, <2>1, <2>2, Zenon DEF Insert
    <2>3. CASE wdocs[w][k] = None
      <3>1. indexed \in BOOLEAN
        BY <1>3, Zenon
      <3>2. Change(w, k, v, indexed, TableRows(indexed, k, v), {})
        BY <2>1, <2>3, <3>1, <1>5, Zenon DEF Change
      <3> QED
        BY <1>7, <3>1, <3>2, <1>4, Zenon DEF Insert
    <2> QED
      BY <2>2, <2>3, Zenon
  <1>8. ASSUME NEW v \in Values, Replace(w, k, v)
        PROVE  /\ wpc[w] = "begun"
               /\ \E indexed \in BOOLEAN : \E adds, dels \in SUBSET Rows :
                     Change(w, k, v, indexed, adds, dels)
    <2>1. PICK indexed \in Schemas(w) :
             Buffer(w, {k}, [j \in {k} |-> v], TableRows(indexed, k, v),
                    TableRows(indexed, k, wdocs[w][k]))
      BY <1>8, Zenon DEF Replace
    <2>2. indexed \in BOOLEAN
      BY <1>3, Zenon
    <2>3. Change(w, k, v, indexed, TableRows(indexed, k, v), TableRows(indexed, k, wdocs[w][k]))
      BY <2>1, Zenon DEF Change
    <2> QED
      BY <1>8, <2>2, <2>3, <1>2, <1>4, Zenon DEF Replace
  <1>9. ASSUME NEW v \in Values, Update(w, k, v)
        PROVE  /\ wpc[w] = "begun"
               /\ \/ Nothing(w)
                  \/ \E indexed \in BOOLEAN : \E adds, dels \in SUBSET Rows :
                        Change(w, k, v, indexed, adds, dels)
    <2>1. PICK indexed \in Schemas(w) :
             IF wdocs[w][k] = None THEN Nothing(w)
             ELSE Buffer(w, {k}, [j \in {k} |-> v], AddKeys(indexed, k, wdocs[w][k], v),
                         RemoveKeys(indexed, k, wdocs[w][k], v))
      BY <1>9, Zenon DEF Update
    <2>2. CASE wdocs[w][k] = None
      BY <1>9, <2>1, <2>2, Zenon DEF Update
    <2>3. CASE wdocs[w][k] # None
      <3>1. indexed \in BOOLEAN
        BY <1>3, Zenon
      <3>2. Change(w, k, v, indexed, AddKeys(indexed, k, wdocs[w][k], v),
                   RemoveKeys(indexed, k, wdocs[w][k], v))
        BY <2>1, <2>3, Zenon DEF Change, AddKeys, RemoveKeys
      <3>3. /\ AddKeys(indexed, k, wdocs[w][k], v) \in SUBSET Rows
            /\ RemoveKeys(indexed, k, wdocs[w][k], v) \in SUBSET Rows
        BY <3>1, <1>2, <1>4, Zenon DEF AddKeys, RemoveKeys
      <3> QED
        BY <1>9, <3>1, <3>2, <3>3, Zenon DEF Update
    <2> QED
      BY <2>2, <2>3, Zenon
  <1> QED
    BY <1>1, <1>6, <1>7, <1>8, <1>9, Zenon

\* Next, one disjunct per action.
LEMMA NextSplit ==
    ASSUME Next
    PROVE  \/ AddIndex \/ DropIndex \/ StartBuild \/ BuildBatch \/ BuildCommit \/ BuildRetry
           \/ BuildFails \/ MarkActive
           \/ \E w \in Writers : Begin(w) \/ Run(w) \/ Commit(w) \/ Conflict(w)
  BY Zenon DEF Next, Build

\* Every step keeps the types.
LEMMA TypeStep ==
    ASSUME Kept, TypeOK, Next
    PROVE  TypeOK'
PROOF
  <1> USE SizesAssumption
  <1>1. CASE AddIndex
    BY <1>1, Zenon DEF AddIndex, TypeOK, wvars, bvars
  <1>2. CASE DropIndex
    BY <1>2, Zenon DEF DropIndex, Kept
  <1>3. CASE StartBuild
    BY <1>3 DEF StartBuild, TypeOK, wvars
  <1>4. CASE BuildBatch
    <2>1. PICK batch \in SUBSET Rest(From) :
             /\ IsBatch(batch, From)
             /\ bbatch' = {<<k, docs[k]>> : k \in batch}
             /\ breads' = Scanned(batch, From)
             /\ count' = Cardinality(batch)
             /\ IF batch = {} THEN UNCHANGED <<first, last>>
                ELSE /\ first' \in batch /\ last' \in batch
                     /\ \A j \in batch : first' <= j /\ j <= last'
      BY <1>4, Zenon DEF BuildBatch
    <2>2. batch \subseteq Keys /\ \A k \in batch : docs[k] \in Values
      BY Zenon DEF Rest, TypeOK, Docs
    <2>3. bbatch' \subseteq Rows /\ breads' \subseteq Keys
      BY <2>1, <2>2 DEF Rows, Scanned
    <2>4. IsFiniteSet(batch) /\ count' \in Nat
      <3>1. IsFiniteSet(Keys)
        BY FS_Interval DEF Keys
      <3> QED
        BY <3>1, <2>1, <2>2, FS_Subset, FS_CardinalityType, Zenon
    <2>5. first' \in 0 .. MaxKey /\ last' \in 0 .. MaxKey
      <3>1. CASE batch = {}
        BY <2>1, <3>1, Zenon DEF TypeOK
      <3>2. CASE batch # {}
        <4>1. first' \in batch /\ last' \in batch
          BY <2>1, <3>2, Zenon
        <4> QED
          BY <4>1, <2>2 DEF Keys
      <3> QED
        BY <3>1, <3>2, Zenon
    <2>6. bdirty' \subseteq Keys /\ bpc' = "commit"
      BY <1>4, Zenon DEF BuildBatch
    <2>7. UNCHANGED <<docs, rows, field, state, writes, wdirty, wvars, docFetch, failures, builds>>
      BY <1>4, Zenon DEF BuildBatch
    <2> QED
      BY <2>3, <2>4, <2>5, <2>6, <2>7, Zenon DEF TypeOK, wvars
  <1>5. CASE BuildCommit
    BY <1>5 DEF BuildCommit, TypeOK, wvars, Rows
  <1>6. CASE BuildRetry
    BY <1>6 DEF BuildRetry, TypeOK, wvars
  <1>7. CASE BuildFails
    BY <1>7 DEF BuildFails, TypeOK, wvars
  <1>8. CASE MarkActive
    BY <1>8, Zenon DEF MarkActive, TypeOK, wvars
  <1>9. ASSUME NEW w \in Writers, Begin(w)
        PROVE  TypeOK'
    BY <1>9 DEF Begin, TypeOK, bvars
  <1>10. ASSUME NEW w \in Writers, Run(w)
         PROVE  TypeOK'
    <2>1. CASE Nothing(w)
      BY <2>1, Zenon DEF Nothing, TypeOK, bvars
    <2>2. ASSUME NEW k \in Keys, NEW v \in Values \cup {None}, NEW indexed \in BOOLEAN,
                 NEW adds \in SUBSET Rows, NEW dels \in SUBSET Rows,
                 Change(w, k, v, indexed, adds, dels)
          PROVE  TypeOK'
      <3>1. [j \in {k} |-> v] \in Puts
        <4>1. [j \in {k} |-> v] \in [{k} -> Values \cup {None}] /\ {k} \in SUBSET Keys
          BY Zenon
        <4> QED
          BY <4>1, Zenon DEF Puts
      <3> QED
        BY <2>2, <3>1, Zenon DEF Change, Buffer, TypeOK, bvars
    <2> QED
      BY <1>10, <2>1, <2>2, RunEffect, Zenon
  <1>11. ASSUME NEW w \in Writers, Commit(w)
         PROVE  TypeOK'
    <2>1. PICK S \in SUBSET Keys : wputs[w] \in [S -> Values \cup {None}]
      BY DEF TypeOK, Puts
    <2>2. docs' \in Docs
      BY <1>11, <2>1, Zenon DEF Commit, Put, TypeOK, Docs
    <2>3. DOMAIN wputs[w] \subseteq Keys
      BY <2>1, Zenon
    <2> QED
      BY <1>11, <2>2, <2>3, Zenon DEF Commit, TypeOK, bvars, Rows
  <1>12. ASSUME NEW w \in Writers, Conflict(w)
         PROVE  TypeOK'
    BY <1>12, Zenon DEF Conflict, Nothing, TypeOK, bvars
  <1> QED
    BY <1>1, <1>2, <1>3, <1>4, <1>5, <1>6, <1>7, <1>8, <1>9, <1>10, <1>11, <1>12, NextSplit, Zenon

-----------------------------------------------------------------------------
(* The commit of a write.                                                   *)

\* Rows of documents that are stored, one for each document.
LEMMA RowShape ==
    ASSUME TypeOK, NEW k \in Keys
    PROVE  /\ docs[k] \in Values \cup {None}
           /\ Row(k) \subseteq Exact
           /\ \A r \in Exact : r[1] \in Keys /\ (r[1] = k => r \in Row(k))
           /\ docs[k] = None => Row(k) = {}
PROOF
  <1>1. docs[k] \in Values \cup {None}
    BY Zenon DEF TypeOK, Docs
  <1> QED
    BY <1>1 DEF Row, TableRows, Exact

\* A write changes one document; the rows of the others stay, its own become
\* those of the new document, and a writer that knows the index leaves no gap.
Written(w, k, v) ==
    /\ docs' = [docs EXCEPT ![k] = v]
    /\ wdirty' = [u \in Writers |-> wdirty[u] \cup {k}]
    /\ bdirty' = bdirty \cup {k}
    /\ \A r \in Rows : r[1] # k => (r \in rows' <=> r \in rows)
    /\ \A r \in rows' : r[1] = k => r \in TableRows(TRUE, k, v)
    /\ (wfield[w] /\ Indexed(k)) => TableRows(TRUE, k, v) \subseteq rows'
    /\ (~field /\ rows = {}) => rows' = {}

\* That is what a commit does.
LEMMA CommitEffect ==
    ASSUME Kept, IndexInv, NEW w \in Writers, Commit(w)
    PROVE  \E k \in Keys, v \in Values \cup {None} : Written(w, k, v)
PROOF
  <1>1. PICK k \in Keys, indexed \in BOOLEAN :
           /\ wfield[w] => indexed
           /\ indexed => field
           /\ wreads[w] = {k} /\ DOMAIN wputs[w] = {k}
           /\ wdels[w] \subseteq TableRows(indexed, k, wdocs[w][k])
           /\ TableRows(indexed, k, wdocs[w][k]) \ TableRows(indexed, k, wputs[w][k]) \subseteq wdels[w]
           /\ wadds[w] \subseteq TableRows(indexed, k, wputs[w][k])
           /\ (TableRows(indexed, k, wputs[w][k]) \ TableRows(indexed, k, wdocs[w][k]))
                \cup (TableRows(indexed, k, wputs[w][k]) \cap wdels[w]) \subseteq wadds[w]
    BY Zenon DEF Commit, IndexInv, BufferInv, Buffered
  <1> DEFINE v == wputs[w][k]
             old == TableRows(indexed, k, docs[k])
             new == TableRows(indexed, k, v)
  <1>2. v \in Values \cup {None}
    <2>1. PICK S \in SUBSET Keys : wputs[w] \in [S -> Values \cup {None}]
      BY DEF IndexInv, TypeOK, Puts
    <2> QED
      BY <2>1, <1>1, Zenon
  <1>3. k \notin wdirty[w] /\ wdocs[w][k] = docs[k]
    BY <1>1, Zenon DEF Commit, IndexInv, SnapshotInv
  <1>4. docs[k] \in Values \cup {None} /\ docs \in Docs
    BY Zenon DEF IndexInv, TypeOK, Docs
  <1>5. /\ wdels[w] \subseteq old /\ old \ new \subseteq wdels[w]
        /\ wadds[w] \subseteq new /\ (new \ old) \cup (new \cap wdels[w]) \subseteq wadds[w]
    BY <1>1, <1>3, Zenon
  <1>6. rows' = (rows \ wdels[w]) \cup wadds[w]
    BY Zenon DEF Commit
  <1>7. /\ \A r \in old : r[1] = k
        /\ \A r \in new : r[1] = k /\ r \in TableRows(TRUE, k, v)
        /\ indexed => old = TableRows(TRUE, k, docs[k]) /\ new = TableRows(TRUE, k, v)
        /\ ~indexed => new = {}
    BY <1>2, <1>4, TableRowsType DEF TableRows
  <1>8. docs' = [docs EXCEPT ![k] = v]
    BY <1>1, <1>4, Zenon DEF Commit, Put, Docs
  <1>9. wdirty' = [u \in Writers |-> wdirty[u] \cup {k}] /\ bdirty' = bdirty \cup {k}
    BY <1>1, Zenon DEF Commit
  <1>10. \A r \in Rows : r[1] # k => (r \in rows' <=> r \in rows)
    BY <1>5, <1>6, <1>7, Zenon
  <1>11. ASSUME NEW r \in rows', r[1] = k
         PROVE  r \in TableRows(TRUE, k, v)
    <2>1. CASE r \in wadds[w]
      BY <2>1, <1>5, <1>7, Zenon
    <2>2. CASE r \in rows /\ r \notin wdels[w]
      <3>1. indexed
        BY <2>2, <1>1, <1>3, <1>11, Zenon DEF IndexInv, OldWriterInv, Commit
      <3>2. r \in old
        <4>1. r \in Row(k)
          BY <2>2, <1>11, RowShape, Zenon DEF IndexInv, RowsAreLive
        <4> QED
          BY <4>1, <3>1, <1>7, Zenon DEF Row
      <3> QED
        BY <2>2, <3>1, <3>2, <1>5, <1>7, Zenon
    <2> QED
      BY <1>6, <2>1, <2>2, Zenon
  <1>12. ASSUME wfield[w], Indexed(k)
         PROVE  TableRows(TRUE, k, v) \subseteq rows'
    <2>1. indexed
      BY <1>12, <1>1, Zenon
    <2>2. old \subseteq rows
      BY <2>1, <1>12, <1>7, Zenon DEF Indexed, Row
    <2> QED
      BY <2>1, <2>2, <1>5, <1>6, <1>7, Zenon
  <1>13. (~field /\ rows = {}) => rows' = {}
    BY <1>1, <1>5, <1>6, <1>7, Zenon
  <1> QED
    BY <1>2, <1>8, <1>9, <1>10, <1>11, <1>12, <1>13, Zenon DEF Written

-----------------------------------------------------------------------------
(* The writers' part of the invariant.                                      *)

\* What the steps of the schema and of the build leave alone.
LEMMA QuietStep ==
    ASSUME AddIndex \/ StartBuild \/ BuildBatch \/ BuildCommit \/ BuildRetry \/ BuildFails \/ MarkActive
    PROVE  /\ docs' = docs /\ wdirty' = wdirty /\ wpc' = wpc /\ wdocs' = wdocs /\ wfield' = wfield
           /\ wreads' = wreads /\ wputs' = wputs /\ wadds' = wadds /\ wdels' = wdels
           /\ field => field'
PROOF
  <1>1. CASE AddIndex
    BY <1>1, Zenon DEF AddIndex, wvars
  <1>2. CASE StartBuild
    BY <1>2, Zenon DEF StartBuild, wvars
  <1>3. CASE BuildBatch
    <2>1. UNCHANGED <<docs, rows, field, state, writes, wdirty, wvars, docFetch, failures, builds>>
      BY <1>3, Zenon DEF BuildBatch
    <2> QED
      BY <2>1, Zenon DEF wvars
  <1>4. CASE BuildCommit
    BY <1>4, Zenon DEF BuildCommit, wvars
  <1>5. CASE BuildRetry
    BY <1>5, Zenon DEF BuildRetry, wvars
  <1>6. CASE BuildFails
    BY <1>6, Zenon DEF BuildFails, wvars
  <1>7. CASE MarkActive
    BY <1>7, Zenon DEF MarkActive, wvars
  <1> QED
    BY <1>1, <1>2, <1>3, <1>4, <1>5, <1>6, <1>7, Zenon

\* What the steps of a writer other than its commit leave alone.
LEMMA PrivateStep ==
    ASSUME Kept, TypeOK, NEW u \in Writers, Begin(u) \/ Run(u) \/ Conflict(u)
    PROVE  /\ docs' = docs /\ rows' = rows /\ field' = field /\ state' = state
           /\ bdirty' = bdirty /\ bpc' = bpc /\ breads' = breads /\ bbatch' = bbatch
           /\ count' = count /\ first' = first /\ last' = last /\ docFetch' = docFetch
           /\ builds' = builds
           /\ \A w \in Writers \ {u} :
                 /\ wdirty'[w] = wdirty[w] /\ wpc'[w] = wpc[w] /\ wdocs'[w] = wdocs[w]
                 /\ wfield'[w] = wfield[w] /\ wreads'[w] = wreads[w] /\ wputs'[w] = wputs[w]
                 /\ wadds'[w] = wadds[w] /\ wdels'[w] = wdels[w]
           /\ ~Begin(u) => /\ wdirty' = wdirty /\ wdocs' = wdocs /\ wfield' = wfield
                           /\ wpc'[u] # "idle" => wpc[u] # "idle"
PROOF
  <1>1. CASE Begin(u)
    BY <1>1, Zenon DEF Begin, bvars, TypeOK
  <1>2. CASE Nothing(u) /\ wpc[u] # "idle"
    BY <1>2, Zenon DEF Nothing, bvars, TypeOK
  <1>3. ASSUME NEW k, NEW v, NEW indexed, NEW adds, NEW dels, Change(u, k, v, indexed, adds, dels),
               wpc[u] = "begun"
        PROVE  /\ UNCHANGED <<docs, rows, field, state, writes, wdirty, bdirty, wdocs, wfield, bvars>>
               /\ \A w \in Writers \ {u} :
                     /\ wpc'[w] = wpc[w] /\ wreads'[w] = wreads[w] /\ wputs'[w] = wputs[w]
                     /\ wadds'[w] = wadds[w] /\ wdels'[w] = wdels[w]
    BY <1>3, Zenon DEF Change, Buffer, TypeOK
  <1>4. CASE Run(u)
    <2>1. CASE Nothing(u)
      BY <1>4, <2>1, <1>2, RunEffect, Zenon
    <2>2. CASE ~Nothing(u)
      BY <1>4, <2>2, <1>3, RunEffect, Zenon DEF bvars
    <2> QED
      BY <2>1, <2>2, Zenon
  <1>5. CASE Conflict(u)
    BY <1>5, <1>2, Zenon DEF Conflict
  <1> QED
    BY <1>1, <1>4, <1>5, Zenon

\* A writer's snapshot differs from the table only where others have written.
LEMMA SnapshotStep ==
    ASSUME Kept, IndexInv, Next
    PROVE  SnapshotInv'
PROOF
  <1> SUFFICES ASSUME NEW w \in Writers, wpc'[w] # "idle", NEW k \in Keys, k \notin wdirty'[w]
               PROVE  wdocs'[w][k] = docs'[k]
    BY Zenon DEF SnapshotInv
  <1>1. wpc[w] # "idle" /\ k \notin wdirty[w] => wdocs[w][k] = docs[k]
    BY Zenon DEF IndexInv, SnapshotInv
  <1>2. TypeOK
    BY Zenon DEF IndexInv
  <1>3. CASE AddIndex \/ StartBuild \/ BuildBatch \/ BuildCommit \/ BuildRetry \/ BuildFails \/ MarkActive
    BY <1>1, <1>3, QuietStep, Zenon
  <1>4. ASSUME NEW u \in Writers, Begin(u) \/ Run(u) \/ Conflict(u)
        PROVE  wdocs'[w][k] = docs'[k]
    <2>1. CASE u # w
      BY <1>1, <1>2, <1>4, <2>1, PrivateStep, Zenon
    <2>2. CASE u = w /\ Begin(w)
      BY <1>2, <2>2, Zenon DEF Begin, TypeOK
    <2>3. CASE u = w /\ ~Begin(w)
      BY <1>1, <1>2, <1>4, <2>3, PrivateStep, Zenon
    <2> QED
      BY <2>1, <2>2, <2>3, Zenon
  <1>5. ASSUME NEW u \in Writers, Commit(u)
        PROVE  wdocs'[w][k] = docs'[k]
    <2>1. PICK j \in Keys, v \in Values \cup {None} : Written(u, j, v)
      BY <1>5, CommitEffect, Zenon
    <2>2. k # j /\ k \notin wdirty[w]
      BY <2>1, Zenon DEF Written
    <2>3. docs'[k] = docs[k]
      BY <2>1, <2>2, <1>2, Zenon DEF TypeOK, Docs, Written
    <2>4. wpc[w] # "idle" /\ wdocs' = wdocs
      BY <1>2, <1>5, Zenon DEF Commit, TypeOK
    <2> QED
      BY <1>1, <2>2, <2>3, <2>4, Zenon
  <1> QED
    BY <1>3, <1>4, <1>5, NextSplit, Zenon DEF DropIndex, Kept

\* A writer older than the index meets no build and no row it could miss.
LEMMA OldWriterStep ==
    ASSUME Kept, IndexInv, Next
    PROVE  OldWriterInv'
PROOF
  <1> SUFFICES ASSUME NEW w \in Writers, wpc'[w] # "idle", ~wfield'[w]
               PROVE  builds' = 0 /\ \A r \in rows' : r[1] \in wdirty'[w]
    BY Zenon DEF OldWriterInv
  <1>1. wpc[w] # "idle" /\ ~wfield[w] => builds = 0 /\ \A r \in rows : r[1] \in wdirty[w]
    BY Zenon DEF IndexInv, OldWriterInv
  <1>2. TypeOK /\ FieldInv
    BY Zenon DEF IndexInv
  <1>3. CASE AddIndex
    BY <1>1, <1>3, Zenon DEF AddIndex, wvars, bvars
  <1>4. CASE StartBuild
    BY <1>1, <1>4, QuietStep, Zenon DEF StartBuild, Kept
  <1>5. CASE BuildBatch \/ BuildCommit \/ BuildRetry \/ BuildFails \/ MarkActive
    <2>1. builds = 0
      BY <1>1, <1>5, QuietStep, Zenon
    <2>2. bpc # "idle"
      BY <1>5, Zenon DEF BuildBatch, BuildCommit, BuildRetry, BuildFails, MarkActive
    <2> QED
      BY <1>2, <2>1, <2>2, Zenon DEF FieldInv
  <1>6. ASSUME NEW u \in Writers, Begin(u) \/ Run(u) \/ Conflict(u)
        PROVE  builds' = 0 /\ \A r \in rows' : r[1] \in wdirty'[w]
    <2>1. CASE u = w /\ Begin(w)
      <3>1. ~field
        BY <1>2, <2>1, Zenon DEF Begin, TypeOK
      <3> QED
        BY <1>2, <1>6, <3>1, PrivateStep, Zenon DEF FieldInv
    <2>2. CASE ~(u = w /\ Begin(w))
      BY <1>1, <1>2, <1>6, <2>2, PrivateStep, Zenon
    <2> QED
      BY <2>1, <2>2, Zenon
  <1>7. ASSUME NEW u \in Writers, Commit(u)
        PROVE  builds' = 0 /\ \A r \in rows' : r[1] \in wdirty'[w]
    <2>1. PICK j \in Keys, v \in Values \cup {None} : Written(u, j, v)
      BY <1>7, CommitEffect, Zenon
    <2>2. wpc[w] # "idle" /\ wfield' = wfield /\ builds' = builds
      BY <1>2, <1>7, Zenon DEF Commit, TypeOK, bvars
    <2>3. rows' \subseteq Rows
      BY TypeStep, <1>2, Zenon DEF TypeOK
    <2> QED
      BY <1>1, <2>1, <2>2, <2>3, Zenon DEF Written
  <1> QED
    BY <1>3, <1>4, <1>5, <1>6, <1>7, NextSplit, Zenon DEF DropIndex, Kept

\* What a runner has buffered stays true of its transaction.
LEMMA BufferStep ==
    ASSUME Kept, IndexInv, Next
    PROVE  BufferInv'
PROOF
  <1> SUFFICES ASSUME NEW w \in Writers, wpc'[w] = "ran"
               PROVE  Buffered(w)'
    BY Zenon DEF BufferInv
  <1>1. wpc[w] = "ran" => Buffered(w)
    BY Zenon DEF IndexInv, BufferInv
  <1>2. TypeOK /\ FieldInv
    BY Zenon DEF IndexInv
  <1>3. ASSUME wpc[w] = "ran", field => field', wdocs'[w] = wdocs[w], wfield'[w] = wfield[w],
               wreads'[w] = wreads[w], wputs'[w] = wputs[w], wadds'[w] = wadds[w],
               wdels'[w] = wdels[w]
        PROVE  Buffered(w)'
    BY <1>1, <1>3, Zenon DEF Buffered
  <1>4. CASE AddIndex \/ StartBuild \/ BuildBatch \/ BuildCommit \/ BuildRetry \/ BuildFails \/ MarkActive
    BY <1>3, <1>4, QuietStep, Zenon
  <1>5. ASSUME NEW u \in Writers, Begin(u) \/ Run(u) \/ Conflict(u), u # w
        PROVE  Buffered(w)'
    BY <1>2, <1>3, <1>5, PrivateStep, Zenon
  <1>6. ASSUME Begin(w) \/ Conflict(w)
        PROVE  FALSE
    BY <1>2, <1>6, Zenon DEF Begin, Conflict, Nothing, TypeOK
  <1>7. CASE Run(w)
    <2>1. ~Nothing(w)
      BY <1>2, Zenon DEF Nothing, TypeOK
    <2>2. PICK k \in Keys, v \in Values \cup {None}, indexed \in BOOLEAN :
             \E adds, dels \in SUBSET Rows : Change(w, k, v, indexed, adds, dels)
      BY <1>2, <1>7, <2>1, RunEffect, Zenon
    <2>3. PICK adds, dels \in SUBSET Rows : Change(w, k, v, indexed, adds, dels)
      BY <2>2, Zenon
    <2>4. /\ field' = field /\ wdocs' = wdocs /\ wfield' = wfield
          /\ wreads'[w] = {k} /\ wputs'[w] = [j \in {k} |-> v]
          /\ wadds'[w] = adds /\ wdels'[w] = dels
      BY <1>2, <2>3, Zenon DEF Change, Buffer, TypeOK
    <2>5. (wfield[w] => indexed) /\ (indexed => field)
      <3>1. wfield[w] => field
        BY <1>2, <1>7, RunEffect, Zenon DEF FieldInv
      <3> QED
        BY <3>1, <2>3 DEF Change, Schemas
    <2>6. DOMAIN wputs'[w] = {k} /\ wputs'[w][k] = v
      BY <2>4, Zenon
    <2> QED
      BY <2>3, <2>4, <2>5, <2>6, Zenon DEF Change, Buffered
  <1>8. ASSUME NEW u \in Writers, Commit(u)
        PROVE  Buffered(w)'
    BY <1>2, <1>3, <1>8, Zenon DEF Commit, TypeOK
  <1> QED
    BY <1>4, <1>5, <1>6, <1>7, <1>8, NextSplit, Zenon DEF DropIndex, Kept

-----------------------------------------------------------------------------

\* The index is known before anything writes to it or builds it.
LEMMA FieldStep ==
    ASSUME Kept, IndexInv, Next
    PROVE  FieldInv'
PROOF
  <1>1. TypeOK /\ FieldInv
    BY Zenon DEF IndexInv
  <1>2. CASE AddIndex
    BY <1>1, <1>2, Zenon DEF AddIndex, FieldInv, wvars, bvars
  <1>3. CASE StartBuild
    BY <1>1, <1>3 DEF StartBuild, FieldInv, wvars, TypeOK
  <1>4. CASE BuildBatch \/ BuildCommit \/ BuildRetry \/ BuildFails \/ MarkActive
    <2>1. builds # 0 /\ field
      BY <1>1, <1>4, Zenon DEF FieldInv, BuildBatch, BuildCommit, BuildRetry, BuildFails, MarkActive
    <2>2. builds' = builds /\ field' = field /\ state' # "none"
      BY <1>1, <1>4, <2>1, Zenon
      DEF FieldInv, BuildBatch, BuildCommit, BuildRetry, BuildFails, MarkActive
    <2> QED
      BY <2>1, <2>2, Zenon DEF FieldInv
  <1>5. ASSUME NEW u \in Writers, Begin(u) \/ Run(u) \/ Conflict(u)
        PROVE  FieldInv'
    <2>1. ASSUME NEW w \in Writers, wpc'[w] # "idle", wfield'[w]
          PROVE  field'
      <3>1. CASE Begin(u)
        BY <1>1, <2>1, <3>1, Zenon DEF Begin, FieldInv, TypeOK
      <3>2. CASE ~Begin(u)
        BY <1>1, <1>5, <2>1, <3>2, PrivateStep, ZenonT(40) DEF FieldInv
      <3> QED
        BY <3>1, <3>2, Zenon
    <2>2. rows' = rows /\ field' = field /\ state' = state /\ bpc' = bpc /\ builds' = builds
      BY <1>1, <1>5, PrivateStep, Zenon
    <2> QED
      BY <1>1, <2>1, <2>2, Zenon DEF FieldInv
  <1>6. ASSUME NEW u \in Writers, Commit(u)
        PROVE  FieldInv'
    <2>1. PICK j \in Keys, v \in Values \cup {None} : Written(u, j, v)
      BY <1>6, CommitEffect, Zenon
    <2>2. (~field /\ rows = {}) => rows' = {}
      BY <2>1, Zenon DEF Written
    <2>3. /\ field' = field /\ state' = state /\ bpc' = bpc /\ builds' = builds /\ wfield' = wfield
          /\ \A w \in Writers : wpc'[w] # "idle" => wpc[w] # "idle"
      BY <1>1, <1>6, Zenon DEF Commit, TypeOK, bvars
    <2> QED
      BY <1>1, <2>2, <2>3, Zenon DEF FieldInv
  <1> QED
    BY <1>2, <1>3, <1>4, <1>5, <1>6, NextSplit, Zenon DEF DropIndex, Kept

\* The other keys keep their documents and rows when one is written.
LEMMA WrittenFrame ==
    ASSUME TypeOK, NEW w \in Writers, NEW j \in Keys, NEW v \in Values \cup {None}, Written(w, j, v)
    PROVE  /\ Row(j)' = TableRows(TRUE, j, v)
           /\ \A k \in Keys \ {j} : Row(k)' = Row(k) /\ (Indexed(k) => Indexed(k)')
PROOF
  <1>1. docs' = [docs EXCEPT ![j] = v] /\ docs \in Docs
    BY Zenon DEF Written, TypeOK
  <1>2. docs'[j] = v /\ \A k \in Keys \ {j} : docs'[k] = docs[k]
    BY <1>1, Zenon DEF Docs
  <1>3. \A k \in Keys \ {j} : Row(k)' = Row(k)
    BY <1>2, Zenon DEF Row, TableRows
  <1>4. ASSUME NEW k \in Keys
        PROVE  \A r \in Row(k) : r \in Rows /\ r[1] = k
    <2>1. docs[k] \in Values \cup {None}
      BY <1>1, Zenon DEF Docs
    <2> QED
      BY <2>1, TableRowsType, ZenonT(40) DEF Row
  <1>5. ASSUME NEW k \in Keys \ {j}, Indexed(k)
        PROVE  Indexed(k)'
    BY <1>3, <1>4, <1>5 DEF Indexed, Written
  <1> QED
    BY <1>2, <1>3, <1>5, Zenon DEF Row, TableRows

\* No row outlives its document.
LEMMA LiveStep ==
    ASSUME Kept, IndexInv, Next
    PROVE  RowsAreLive'
PROOF
  <1>1. TypeOK /\ TypeOK' /\ RowsAreLive
    BY TypeStep, Zenon DEF IndexInv
  <1>2. CASE UNCHANGED <<docs, rows>>
    BY <1>1, <1>2, Zenon DEF RowsAreLive, Exact
  <1>3. CASE BuildCommit
    <2>1. ASSUME NEW r \in bbatch
          PROVE  r \in Exact
      <3>1. r[1] \in Keys /\ r \in Row(r[1])
        BY <1>1, <1>3, Zenon DEF BuildCommit, IndexInv, BatchInv, TypeOK
      <3> QED
        BY <1>1, <3>1, RowShape, Zenon
    <2>2. docs' = docs /\ rows' = rows \cup bbatch
      BY <1>3, Zenon DEF BuildCommit
    <2>3. Exact' = Exact
      BY <2>2, Zenon DEF Exact
    <2> QED
      BY <1>1, <2>1, <2>2, <2>3, Zenon DEF RowsAreLive
  <1>4. ASSUME NEW u \in Writers, Commit(u)
        PROVE  RowsAreLive'
    <2>1. PICK j \in Keys, v \in Values \cup {None} : Written(u, j, v)
      BY <1>4, CommitEffect, Zenon
    <2>2. ASSUME NEW r \in rows'
          PROVE  r[1] \in Keys /\ r \in Row(r[1])'
      <3>1. r \in Rows /\ r[1] \in Keys
        BY <1>1, Zenon DEF TypeOK, Rows
      <3>2. CASE r[1] = j
        BY <1>1, <2>1, <3>2, WrittenFrame, Zenon DEF Written
      <3>3. CASE r[1] # j
        <4>1. r \in Row(r[1])
          BY <1>1, <2>1, <3>1, <3>3, RowShape, Zenon DEF Written, RowsAreLive
        <4> QED
          BY <1>1, <2>1, <3>1, <3>3, <4>1, WrittenFrame, ZenonT(40)
      <3> QED
        BY <3>1, <3>2, <3>3, Zenon
    <2>3. \A k \in Keys : Row(k)' \subseteq Exact'
      BY Zenon DEF Row, TableRows, Exact
    <2> QED
      BY <2>2, <2>3, Zenon DEF RowsAreLive
  <1>5. ASSUME NEW u \in Writers, Begin(u) \/ Run(u) \/ Conflict(u)
        PROVE  RowsAreLive'
    BY <1>1, <1>2, <1>5, PrivateStep, Zenon
  <1> QED
    BY <1>2, <1>3, <1>4, <1>5, NextSplit, Zenon
    DEF AddIndex, DropIndex, StartBuild, BuildBatch, BuildRetry, BuildFails, MarkActive, Kept

-----------------------------------------------------------------------------
(* The build.                                                               *)

\* What a batch consists of: the first documents from From on.  When documents
\* are left over the batch is full, and they come after it.
Batched(batch) ==
    /\ batch \subseteq Rest(From) /\ bbatch' = {<<k, docs[k]>> : k \in batch}
    /\ breads' = Scanned(batch, From)
    /\ \A k \in batch, j \in Rest(From) \ batch : k < j
    /\ batch # Rest(From) => batch # {} /\ count' = docFetch + 1
    /\ batch = {} => first' = first /\ last' = last
    /\ batch # {} => /\ first' \in batch /\ last' \in batch
                     /\ \A j \in batch : first' <= j /\ j <= last'

\* That is what one transaction of the build reads.
LEMMA BatchEffect ==
    ASSUME TypeOK, BuildBatch
    PROVE  \E batch \in SUBSET Keys : Batched(batch)
PROOF
  <1>1. PICK batch \in SUBSET Rest(From) :
           /\ IsBatch(batch, From)
           /\ bbatch' = {<<k, docs[k]>> : k \in batch}
           /\ breads' = Scanned(batch, From)
           /\ count' = Cardinality(batch)
           /\ IF batch = {} THEN UNCHANGED <<first, last>>
              ELSE /\ first' \in batch /\ last' \in batch
                   /\ \A j \in batch : first' <= j /\ j <= last'
    BY Zenon DEF BuildBatch
  <1>2. docFetch \in Nat /\ Cardinality({}) = 0
    BY FS_EmptySet, Zenon DEF TypeOK
  <1>3. batch # Rest(From) => batch # {} /\ count' = docFetch + 1
    BY <1>1, <1>2 DEF IsBatch
  <1>4. \A k \in batch, j \in Rest(From) \ batch : k < j
    BY <1>1, Zenon DEF IsBatch
  <1>5. batch \subseteq Keys
    BY Zenon DEF Rest
  <1> QED
    BY <1>1, <1>3, <1>4, <1>5, Zenon DEF Batched

\* A batch that is not lost to a writer holds what the table holds.
LEMMA BatchStep ==
    ASSUME Kept, IndexInv, Next
    PROVE  BatchInv'
PROOF
  <1> SUFFICES ASSUME bpc' = "commit" PROVE BatchInv'
    BY Zenon DEF BatchInv
  <1>1. TypeOK /\ BatchInv
    BY Zenon DEF IndexInv
  <1>2. CASE AddIndex
    BY <1>1, <1>2, Zenon DEF AddIndex, bvars, BatchInv, Row, From
  <1>3. ASSUME NEW u \in Writers, Begin(u) \/ Run(u) \/ Conflict(u)
        PROVE  BatchInv'
    BY <1>1, <1>3, PrivateStep, Zenon DEF BatchInv, Row, From
  <1>4. ASSUME StartBuild \/ BuildCommit \/ BuildRetry \/ BuildFails \/ MarkActive
        PROVE  FALSE
    BY <1>4, Zenon DEF StartBuild, BuildCommit, BuildRetry, BuildFails, MarkActive
  <1>5. ASSUME NEW u \in Writers, Commit(u)
        PROVE  BatchInv'
    <2>1. PICK j \in Keys, v \in Values \cup {None} : Written(u, j, v)
      BY <1>5, CommitEffect, Zenon
    <2>2. /\ bpc' = bpc /\ breads' = breads /\ bbatch' = bbatch /\ count' = count
          /\ first' = first /\ last' = last /\ docFetch' = docFetch /\ From' = From
      BY <1>5, ZenonT(40) DEF Commit, bvars, From
    <2>3. bdirty' = bdirty \cup {j} /\ breads \subseteq Keys
      BY <1>1, <2>1, Zenon DEF Written, TypeOK
    <2>4. \A k \in Keys : k \notin bdirty' => k \notin bdirty /\ Row(k)' = Row(k)
      BY <1>1, <2>1, <2>3, WrittenFrame, Zenon
    <2>5. /\ \A r \in bbatch : r[1] \in breads
          /\ \A r \in bbatch : r[1] \notin bdirty => r \in Row(r[1])
          /\ \A k \in breads \ bdirty : Row(k) \subseteq bbatch \/ (count >= docFetch /\ k > last)
          /\ \A k \in Keys : (k >= From /\ (k <= last \/ count < docFetch)) => k \in breads
          /\ first = 0 => bbatch = {}
      BY <1>1, <2>2, Zenon DEF BatchInv
    <2>6. \A r \in bbatch' : r[1] \notin bdirty' => r \in Row(r[1])'
      BY <2>2, <2>3, <2>4, <2>5, Zenon
    <2>7. \A k \in breads' \ bdirty' : Row(k)' \subseteq bbatch' \/ (count' >= docFetch' /\ k > last')
      BY <2>2, <2>3, <2>4, <2>5, Zenon
    <2> QED
      BY <2>2, <2>5, <2>6, <2>7, Zenon DEF BatchInv
  <1>6. CASE BuildBatch
    <2>1. PICK batch \in SUBSET Keys : Batched(batch)
      BY <1>1, <1>6, BatchEffect, Zenon
    <2>2. docs' = docs /\ docFetch' = docFetch /\ docFetch \in Nat /\ Keys \subseteq Int
      BY <1>1, <1>6 DEF BuildBatch, TypeOK, Keys
    <2>3. first \in Nat /\ last \in Nat /\ From \in Nat /\ \A k \in Keys : k # 0
      BY <1>1 DEF TypeOK, From, Keys
    <2>4. \A k \in Keys : Row(k)' = IF docs[k] # None THEN {<<k, docs[k]>>} ELSE {}
      BY <2>2, Zenon DEF Row, TableRows
    <2>5. \A k \in batch : k >= From /\ docs[k] # None
      BY <2>1, Zenon DEF Batched, Rest
    <2>6. \A r \in bbatch' : r[1] \in batch /\ r \in Row(r[1])'
      BY <2>1, <2>4, <2>5 DEF Batched
    <2>7. batch \subseteq breads'
      BY <2>1, <2>2, <2>5 DEF Batched, Scanned, Rest
    <2>8. ASSUME NEW k \in breads'
          PROVE  Row(k)' \subseteq bbatch' \/ (count' >= docFetch' /\ k > last')
      <3>1. k \in Keys /\ k >= From
        BY <2>1, Zenon DEF Batched, Scanned
      <3>2. CASE docs[k] = None \/ k \in batch
        BY <2>1, <2>4, <3>1, <3>2, Zenon DEF Batched
      <3>3. CASE docs[k] # None /\ k \notin batch
        <4>1. k \in Rest(From) \ batch
          BY <3>1, <3>3, Zenon DEF Rest
        <4>2. count' = docFetch + 1 /\ last' \in batch
          BY <2>1, <4>1, Zenon DEF Batched
        <4>3. last' < k /\ last' \in Int /\ k \in Int
          BY <2>1, <2>2, <3>1, <4>1, <4>2, Zenon DEF Batched
        <4> QED
          BY <2>2, <4>2, <4>3
      <3> QED
        BY <3>2, <3>3, Zenon
    <2>9. ASSUME NEW k \in Keys, k >= From', k <= last' \/ count' < docFetch'
          PROVE  k \in breads'
      <3>1. CASE batch = {}
        <4>1. Rest(From) = {} /\ From' = From
          BY <2>1, <3>1, Zenon DEF Batched, From
        <4> QED
          BY <2>1, <2>9, <3>1, <4>1, Zenon DEF Batched, Scanned
      <3>2. CASE batch # {}
        <4>1. From' = first' /\ first' \in batch /\ last' \in batch
          BY <2>1, <2>3, <3>2, Zenon DEF Batched, From
        <4>2. k >= From
          BY <2>2, <2>3, <2>5, <2>9, <4>1
        <4>3. ASSUME NEW j \in Rest(From) \ batch
              PROVE  k <= j
          <5>1. count' = docFetch' + 1 /\ last' < j /\ j \in Int
            BY <2>1, <2>2, <4>1, Zenon DEF Batched, Rest
          <5> QED
            BY <2>2, <2>9, <4>1, <5>1
        <4> QED
          BY <2>1, <4>2, <4>3, Zenon DEF Batched, Scanned
      <3> QED
        BY <3>1, <3>2, Zenon
    <2>10. first' = 0 => bbatch' = {}
      BY <2>1, <2>3, Zenon DEF Batched
    <2> QED
      BY <2>6, <2>7, <2>8, <2>9, <2>10, Zenon DEF BatchInv
  <1> QED
    BY <1>2, <1>3, <1>4, <1>5, <1>6, NextSplit, Zenon DEF DropIndex, Kept

\* The rows of the documents the build is past are in the index.
LEMMA CoveredStep ==
    ASSUME Kept, IndexInv, Next
    PROVE  CoveredInv'
PROOF
  <1>1. TypeOK /\ FieldInv /\ BatchInv /\ CoveredInv
    BY Zenon DEF IndexInv
  <1>2. ASSUME docs' = docs, rows \subseteq rows'
        PROVE  \A k \in Keys : Row(k)' = Row(k) /\ (Indexed(k) => Indexed(k)')
    BY <1>2, Zenon DEF Row, Indexed
  <1>3. CASE AddIndex
    BY <1>1, <1>2, <1>3, Zenon DEF AddIndex, bvars, CoveredInv, From
  <1>4. CASE StartBuild
    <2>1. docs' = docs /\ rows' = rows /\ state' = state /\ bpc' = "build" /\ From' = 1
      BY <1>4, Zenon DEF StartBuild, From
    <2>2. \A k \in Keys : ~(k < 1)
      BY DEF Keys
    <2> QED
      BY <1>1, <1>2, <2>1, <2>2, Zenon DEF CoveredInv
  <1>5. CASE BuildBatch
    <2>1. /\ docs' = docs /\ rows' = rows /\ state' = state /\ bpc = "build" /\ bpc' = "commit"
          /\ Keys \subseteq Int
      BY <1>5 DEF BuildBatch, Keys
    <2>2. PICK batch \in SUBSET Keys : Batched(batch)
      BY <1>1, <1>5, BatchEffect, Zenon
    <2>3. ASSUME NEW k \in Keys, k < From'
          PROVE  Indexed(k)
      <3>1. CASE k < From
        BY <1>1, <2>1, <3>1, Zenon DEF CoveredInv
      <3>2. CASE k \in Rest(From)
        <4>1. batch # {} /\ From' = first'
          <5>1. CASE batch = {}
            BY <2>2, <3>2, <5>1, Zenon DEF Batched
          <5>2. CASE batch # {}
            <6>1. first' \in batch /\ first' # 0
              BY <2>2, <5>2 DEF Batched, Keys
            <6> QED
              BY <5>2, <6>1, Zenon DEF From
          <5> QED
            BY <5>1, <5>2, Zenon
        <4>2. first' \in batch /\ first' \in Int /\ k \in Int
          BY <2>1, <2>2, <4>1, Zenon DEF Batched
        <4>3. first' <= k
          <5>1. CASE k \in batch
            BY <2>2, <4>1, <5>1, Zenon DEF Batched
          <5>2. CASE k \notin batch
            BY <2>2, <3>2, <4>2, <5>2 DEF Batched
          <5> QED
            BY <5>1, <5>2, Zenon
        <4> QED
          BY <2>3, <4>1, <4>2, <4>3
      <3>3. CASE ~(k < From) /\ k \notin Rest(From)
        <4>1. From \in Int
          BY <1>1 DEF TypeOK, From
        <4>2. docs[k] = None
          BY <2>1, <3>3, <4>1 DEF Rest
        <4> QED
          BY <1>1, <4>2, RowShape, Zenon DEF Indexed
      <3> QED
        BY <3>1, <3>2, <3>3, Zenon
    <2> QED
      BY <1>1, <1>2, <2>1, <2>3, Zenon DEF CoveredInv
  <1>6. CASE BuildCommit
    <2>1. /\ docs' = docs /\ rows' = rows \cup bbatch /\ state' = state /\ bpc = "commit"
          /\ bpc' = (IF count < docFetch THEN "built" ELSE "build")
          /\ From' = IF last # 0 THEN last ELSE 1
          /\ breads \cap bdirty = {}
      BY <1>6, Zenon DEF BuildCommit, From
    <2>2. ASSUME NEW k \in Keys, k < From \/ k < last \/ count < docFetch
          PROVE  Indexed(k)'
      <3>1. k \in Int /\ From \in Int /\ last \in Int /\ count \in Nat /\ docFetch \in Nat
        BY <1>1 DEF TypeOK, From, Keys
      <3>2. CASE k < From
        BY <1>1, <1>2, <2>1, <3>2, Zenon DEF CoveredInv
      <3>3. CASE ~(k < From)
        <4>1. k \in breads
          BY <1>1, <2>1, <2>2, <3>1, <3>3 DEF BatchInv
        <4>2. Row(k) \subseteq bbatch
          BY <1>1, <2>1, <2>2, <3>1, <3>3, <4>1 DEF BatchInv
        <4> QED
          BY <1>2, <2>1, <4>2, Zenon DEF Indexed
      <3> QED
        BY <3>2, <3>3, Zenon
    <2>3. \A k \in Keys : ~(k < 1)
      BY DEF Keys
    <2>4. bpc' = "build" => \A k \in Keys : k < From' => Indexed(k)'
      BY <2>1, <2>2, <2>3, Zenon
    <2>5. bpc' = "built" => \A k \in Keys : Indexed(k)'
      BY <2>1, <2>2, Zenon
    <2>6. state' = "active" => \A k \in Keys : Indexed(k)'
      BY <1>1, <1>2, <2>1, Zenon DEF CoveredInv
    <2> QED
      BY <2>1, <2>4, <2>5, <2>6, Zenon DEF CoveredInv
  <1>7. CASE BuildRetry \/ BuildFails \/ MarkActive
    <2>1. docs' = docs /\ rows' = rows /\ From' = From
      BY <1>7, Zenon DEF BuildRetry, BuildFails, MarkActive, From
    <2> QED
      BY <1>1, <1>2, <1>7, <2>1, Zenon DEF CoveredInv, BuildRetry, BuildFails, MarkActive
  <1>8. ASSUME NEW u \in Writers, Begin(u) \/ Run(u) \/ Conflict(u)
        PROVE  CoveredInv'
    BY <1>1, <1>2, <1>8, PrivateStep, Zenon DEF CoveredInv, From
  <1>9. ASSUME NEW u \in Writers, Commit(u)
        PROVE  CoveredInv'
    <2>1. PICK j \in Keys, v \in Values \cup {None} : Written(u, j, v)
      BY <1>9, CommitEffect, Zenon
    <2>2. bpc' = bpc /\ state' = state /\ From' = From /\ wpc[u] # "idle"
      BY <1>9, Zenon DEF Commit, bvars, From
    <2>3. ASSUME bpc # "idle" \/ state = "active", NEW k \in Keys, Indexed(k)
          PROVE  Indexed(k)'
      <3>1. wfield[u]
        BY <1>1, <2>2, <2>3, Zenon DEF IndexInv, OldWriterInv, FieldInv
      <3>2. CASE k = j
        <4>1. Row(j)' = TableRows(TRUE, j, v)
          BY <1>1, <2>1, WrittenFrame, Zenon
        <4>2. TableRows(TRUE, j, v) \subseteq rows'
          BY <2>1, <2>3, <3>1, <3>2, Zenon DEF Written
        <4> QED
          BY <3>2, <4>1, <4>2, Zenon DEF Indexed
      <3>3. CASE k # j
        BY <1>1, <2>1, <2>3, <3>3, WrittenFrame, Zenon
      <3> QED
        BY <3>2, <3>3, Zenon
    <2> QED
      BY <1>1, <2>2, <2>3, Zenon DEF CoveredInv
  <1> QED
    BY <1>3, <1>4, <1>5, <1>6, <1>7, <1>8, <1>9, NextSplit, Zenon DEF DropIndex, Kept

-----------------------------------------------------------------------------
(* The theorems.                                                            *)

\* The first state has an empty index, no writer and no build.
LEMMA InitIndexInv == Init => IndexInv
PROOF
  <1> SUFFICES ASSUME Init PROVE IndexInv
    BY Zenon
  <1>1. TypeOK
    <2>1. [k \in {} |-> None] \in Puts
      <3>1. [k \in {} |-> None] \in [{} -> Values \cup {None}] /\ {} \in SUBSET Keys
        BY Zenon
      <3> QED
        BY <3>1, Zenon DEF Puts
    <2>2. [k \in Keys |-> None] \in Docs
      BY Zenon DEF Docs
    <2>3. wputs \in [Writers -> Puts] /\ wdocs \in [Writers -> Docs]
      BY <2>1, <2>2, Zenon DEF Init
    <2>4. first \in 0 .. MaxKey /\ last \in 0 .. MaxKey /\ docFetch \in Nat
      BY SizesAssumption, SMTT(40) DEF Init
    <2> QED
      BY <2>3, <2>4, Zenon DEF Init, TypeOK
  <1>2. SnapshotInv /\ OldWriterInv /\ BufferInv
    BY Zenon DEF Init, SnapshotInv, OldWriterInv, BufferInv
  <1>3. FieldInv /\ RowsAreLive /\ BatchInv /\ CoveredInv
    BY Zenon DEF Init, FieldInv, RowsAreLive, BatchInv, CoveredInv
  <1> QED
    BY <1>1, <1>2, <1>3, Zenon DEF IndexInv

\* Every step keeps the invariant, and so does stuttering.
LEMMA StepIndexInv ==
    ASSUME Kept, IndexInv, [Next]_vars
    PROVE  IndexInv'
PROOF
  <1>1. CASE Next
    <2>1. TypeOK'
      BY <1>1, TypeStep, Zenon DEF IndexInv
    <2> QED
      BY <1>1, <2>1, SnapshotStep, OldWriterStep, BufferStep, FieldStep, LiveStep, BatchStep,
         CoveredStep, Zenon DEF IndexInv
  <1>2. CASE UNCHANGED vars
    <2> USE <1>2 DEF vars, wvars, bvars
    <2>1. TypeOK' /\ SnapshotInv' /\ OldWriterInv'
      BY ZenonT(40) DEF IndexInv, TypeOK, SnapshotInv, OldWriterInv
    <2>2. BufferInv'
      <3>1. ASSUME NEW w \in Writers, Buffered(w)
            PROVE  Buffered(w)'
        BY <3>1, ZenonT(40) DEF Buffered
      <3> QED BY <3>1, ZenonT(40) DEF IndexInv, BufferInv
    <2>3. FieldInv' /\ RowsAreLive'
      BY Zenon DEF IndexInv, FieldInv, RowsAreLive, Exact
    <2>4. BatchInv'
      BY Zenon DEF IndexInv, BatchInv, Row, From
    <2>5. CoveredInv'
      BY Zenon DEF IndexInv, CoveredInv, Indexed, Row, From
    <2> QED
      BY <2>1, <2>2, <2>3, <2>4, <2>5, Zenon DEF IndexInv
  <1> QED
    BY <1>1, <1>2, Zenon

\* The invariant holds in every reachable state.
THEOREM IndexHolds == Kept => (Spec => []IndexInv)
PROOF
  <1>1. Init => IndexInv
    BY InitIndexInv, Zenon
  <1>2. Kept /\ IndexInv /\ [Next]_vars => IndexInv'
    BY StepIndexInv, Zenon
  <1>3. Kept => []Kept
    <2>1. Kept => Kept'
      BY Zenon DEF Kept
    <2> QED
      BY <2>1, PTL
  <1> QED
    BY <1>1, <1>2, <1>3, PTL DEF Spec

\* When builds wait for older writes, no index is dropped and no write changes a
\* primary key, every row belongs to the document that is stored.
THEOREM RowsStayLive == Kept => (Spec => []RowsAreLive)
PROOF
  <1>1. IndexInv => RowsAreLive
    BY Zenon DEF IndexInv
  <1> QED
    BY <1>1, IndexHolds, PTL

\* Under the same conditions an active index has exactly the rows of the stored
\* documents, whatever writers and failing batches did while it was built.
THEOREM ActiveIndexConsistent == Kept => (Spec => []IndexConsistent)
PROOF
  <1>1. IndexInv => IndexConsistent
    <2> SUFFICES ASSUME IndexInv, field, state = "active" PROVE rows = Exact
      BY Zenon DEF IndexConsistent
    <2>1. TypeOK /\ rows \subseteq Exact /\ \A k \in Keys : Row(k) \subseteq rows
      BY Zenon DEF IndexInv, RowsAreLive, CoveredInv, Indexed
    <2>2. \A r \in Exact : r[1] \in Keys /\ r \in Row(r[1])
      BY DEF Exact, Row, TableRows
    <2> QED
      BY <2>1, <2>2, Zenon
  <1> QED
    BY <1>1, IndexHolds, PTL

\* Under the same conditions a build that goes on after a commit or a failed
\* batch has left no document behind it without its row.
THEOREM BuildCovers == Kept => (Spec => []BuildLeavesNoGap)
PROOF
  <1>1. IndexInv => BuildLeavesNoGap
    <2> SUFFICES ASSUME IndexInv, bpc \in {"build", "commit"}, NEW r \in Exact, r[1] < From
                 PROVE  r \in rows
      BY Zenon DEF BuildLeavesNoGap
    <2>1. r[1] \in Keys /\ r \in Row(r[1])
      BY DEF Exact, Row, TableRows
    <2>2. Row(r[1]) \subseteq rows
      BY <2>1, Zenon DEF IndexInv, CoveredInv, Indexed
    <2> QED
      BY <2>1, <2>2, Zenon
  <1> QED
    BY <1>1, IndexHolds, PTL

=============================================================================
