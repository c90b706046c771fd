------------------------------ MODULE Projects ------------------------------
(***************************************************************************)
(* Projects, branches, collections, search indexes and caches of a tenant: *)
(* the rows of the encoding, namespace and search schema subspaces that    *)
(* Tenant's operations read and write, the collections they make and drop  *)
(* in the search store before the transaction commits, and the cached      *)
(* tenant they look things up in. Requests overlap; each one tracks the    *)
(* version of the cache, runs in a transaction and commits or not.         *)
(***************************************************************************)
EXTENDS Integers, Sequences, FiniteSets, FiniteSetsExt, TLC

CONSTANTS
    DdlReqs,      \* requests that overlap
    Projs,        \* names of projects
    Branches,     \* names of branches other than main
    Colls,        \* names of collections
    Indexes,      \* names of search indexes
    Caches,       \* names of caches
    NoRow,        \* no row, no request
    DropOverlaps, \* a project or branch may be deleted while others work on it
    MaxDdl        \* bound on the requests

VARIABLES
    store,        \* the rows of the metadata store
    searchStore,  \* the names of the collections of the search store
    ddl,          \* the requests that run
    asked,        \* requests so far
    undone        \* search collections were dropped by a request that did not commit,
                  \* or when another one had run

pvars == <<store, searchStore, ddl, asked, undone>>

(***************************************************************************)
(* Rows. A database is named by its project and its branch; a row that was *)
(* created has a twin under which it is kept when it is dropped.           *)
(***************************************************************************)
Main == "main"
DbNames == Projs \X ({Main} \cup Branches)
Counter == <<"counter">>
DbRow(n) == <<"db", n>>
DbDropped(n) == <<"db dropped", n>>
CollRow(id, c) == <<"coll", id, c>>
CollDropped(id, c) == <<"coll dropped", id, c>>
PkeyRow(id) == <<"pkey", id>>
PkeyDropped(id) == <<"pkey dropped", id>>
ProjRow(p) == <<"project", p>>
SchemaRow(id, i) == <<"schema", id, i>>

RowOf(rows, k) == IF k \in DOMAIN rows THEN rows[k] ELSE NoRow

ImplicitIndex(n, c) == <<"implicit", n, c>>

SearchTable(id, i) == <<"search", id, i>>

(***************************************************************************)
(* A tenant that was loaded from rows: its databases, collections and      *)
(* search indexes. NewProject takes the id of the main database.           *)
(***************************************************************************)
Dbs(rows) == {n \in DbNames : DbRow(n) \in DOMAIN rows}
DbId(rows, n) == rows[DbRow(n)].id
CollsOf(rows, n) == {c \in Colls : CollRow(DbId(rows, n), c) \in DOMAIN rows}
IndexesOf(rows, p) == IF ProjRow(p) \in DOMAIN rows THEN rows[ProjRow(p)].indexes ELSE {}

PInit ==
    /\ store = <<>>
    /\ searchStore = {}
    /\ ddl = [r \in DdlReqs |-> NoRow]
    /\ asked = 0
    /\ undone = FALSE

-----------------------------------------------------------------------------
(***************************************************************************)
(* The transaction of a request: rows read, rows written (NoRow when the   *)
(* row is deleted), collections of the search store made and dropped. An   *)
(* operation that failed leaves the rest undone.                           *)
(***************************************************************************)
Row(t, k) == IF k \in DOMAIN t.buf THEN t.buf[k] ELSE RowOf(t.snap, k)
Fail(t) == [t EXCEPT !.err = TRUE]
ReadRow(t, k) == [t EXCEPT !.reads = @ \cup {k}]
WriteRow(t, k, v) == IF t.err THEN t ELSE [t EXCEPT !.buf = (k :> v) @@ @]

InsertRow(t, k, v) ==
    IF t.err \/ Row(t, k) # NoRow THEN Fail(ReadRow(t, k)) ELSE WriteRow(ReadRow(t, k), k, v)

SoftDelete(t, k, dropped) ==
    IF t.err \/ Row(t, k) = NoRow THEN ReadRow(t, k)
    ELSE WriteRow(WriteRow(ReadRow(t, k), dropped, Row(t, k)), k, NoRow)

\* allocateToken: the value after the counter's, from 1 on.
NextToken(t) == IF Row(t, Counter) = NoRow THEN 1 ELSE Row(t, Counter) + 1

\* Mutant: the counter is read without a read conflict.
AllocateBlind(t) == WriteRow(t, Counter, NextToken(t))

Allocate(t) == WriteRow(ReadRow(t, Counter), Counter, NextToken(t))

SearchCreate(t, name) == IF t.err THEN t ELSE [t EXCEPT !.ext = @ \cup {name}]
SearchDrop(t, name) == IF t.err THEN t ELSE [t EXCEPT !.ext = @ \ {name}, !.drops = TRUE]

-----------------------------------------------------------------------------
CreateDatabase(t, n) == InsertRow(Allocate(t), DbRow(n), [id |-> NextToken(t)])

CreateProject(t, p) ==
    LET n == <<p, Main>>
    IN  IF n \in Dbs(t.cache) THEN Fail(t)
        ELSE InsertRow(CreateDatabase(t, n), ProjRow(p), [indexes |-> {}, caches |-> {}])

\* The rows of a collection and of its primary key, each with a code of its own.
InsertCollection(t, id, c) == InsertRow(Allocate(t), CollRow(id, c), [id |-> NextToken(t)])
CreatePrimaryIndex(t, coll) == InsertRow(Allocate(t), PkeyRow(coll), [id |-> NextToken(t)])
RemoveCollection(t, id, c) == SoftDelete(t, CollRow(id, c), CollDropped(id, c))
DropPrimaryIndex(t, coll) == SoftDelete(t, PkeyRow(coll), PkeyDropped(coll))

\* A collection has a row, a row for its primary key and an implicit search index.
createCollection(t, n, id, c) ==
    SearchCreate(CreatePrimaryIndex(InsertCollection(t, id, c), NextToken(t)), ImplicitIndex(n, c))

(***************************************************************************)
(* CreateOrUpdateCollection of a collection the cache does not have:       *)
(* UpdateSchemaVersion reads the row of the database, and takes a missing  *)
(* row for a database without versions.                                    *)
(***************************************************************************)
CreateCollection(t, n, c) ==
    IF n \notin Dbs(t.cache) \/ c \in CollsOf(t.cache, n) THEN Fail(t)
    ELSE createCollection(ReadRow(t, DbRow(n)), n, DbId(t.cache, n), c)

dropCollection(t, n, c) ==
    LET id == DbId(t.cache, n)
        coll == t.cache[CollRow(id, c)].id
    IN  SearchDrop(DropPrimaryIndex(RemoveCollection(t, id, c), coll), ImplicitIndex(n, c))

DropCollection(t, n, c) ==
    IF n \notin Dbs(t.cache) THEN Fail(t)
    ELSE IF c \notin CollsOf(t.cache, n) THEN Fail(t) ELSE dropCollection(t, n, c)

DropDatabase(t, n) ==
    FoldSet(LAMBDA c, u : dropCollection(u, n, c), SoftDelete(t, DbRow(n), DbDropped(n)), CollsOf(t.cache, n))

DeleteBranch(t, p, b) ==
    IF <<p, b>> \notin Dbs(t.cache) THEN Fail(t) ELSE DropDatabase(t, <<p, b>>)

(***************************************************************************)
(* CreateBranch reads the row of the project's database and copies the     *)
(* collections the cache has.                                              *)
(***************************************************************************)
CreateBranch(t, p, b) ==
    LET u == ReadRow(t, DbRow(<<p, Main>>))
        id == NextToken(u)
    IN  IF Row(u, DbRow(<<p, Main>>)) = NoRow \/ <<p, Main>> \notin Dbs(t.cache) \/ <<p, b>> \in Dbs(t.cache)
        THEN Fail(u)
        ELSE FoldSet(LAMBDA c, v : createCollection(v, <<p, b>>, id, c),
                     CreateDatabase(u, <<p, b>>), CollsOf(t.cache, <<p, Main>>))

(***************************************************************************)
(* Search indexes and caches are listed in the project's row. A search     *)
(* index the cache has is left as it is when its schema has not changed.   *)
(***************************************************************************)
ProjectMetadata(t, p) ==
    IF Row(t, ProjRow(p)) = NoRow THEN [indexes |-> {}, caches |-> {}] ELSE Row(t, ProjRow(p))

CreateSearchIndex(t, p, i) ==
    LET id == DbId(t.cache, <<p, Main>>)
        u == ReadRow(t, ProjRow(p))
        listed == [ProjectMetadata(u, p) EXCEPT !.indexes = @ \cup {i}]
    IN  IF <<p, Main>> \notin Dbs(t.cache) THEN Fail(t)
        ELSE IF i \in IndexesOf(t.cache, p) THEN t
        ELSE SearchCreate(InsertRow(WriteRow(u, ProjRow(p), listed), SchemaRow(id, i), [id |-> 0]), SearchTable(id, i))

deleteSearchIndex(t, p, i) ==
    LET id == DbId(t.cache, <<p, Main>>)
        u == ReadRow(t, ProjRow(p))
        listed == [ProjectMetadata(u, p) EXCEPT !.indexes = @ \ {i}]
    IN  IF i \notin ProjectMetadata(u, p).indexes THEN Fail(u)
        ELSE SearchDrop(WriteRow(WriteRow(u, ProjRow(p), listed), SchemaRow(id, i), NoRow), SearchTable(id, i))

DeleteSearchIndex(t, p, i) ==
    IF <<p, Main>> \notin Dbs(t.cache) THEN Fail(t)
    ELSE IF i \notin IndexesOf(t.cache, p) THEN Fail(t) ELSE deleteSearchIndex(t, p, i)

CreateCache(t, p, k) ==
    LET u == ReadRow(t, ProjRow(p))
        listed == [ProjectMetadata(u, p) EXCEPT !.caches = @ \cup {k}]
    IN  IF <<p, Main>> \notin Dbs(t.cache) \/ k \in ProjectMetadata(u, p).caches THEN Fail(u)
        ELSE WriteRow(u, ProjRow(p), listed)

DeleteCache(t, p, k) ==
    LET u == ReadRow(t, ProjRow(p))
        listed == [ProjectMetadata(u, p) EXCEPT !.caches = @ \ {k}]
    IN  IF <<p, Main>> \notin Dbs(t.cache) \/ k \notin ProjectMetadata(u, p).caches THEN Fail(u)
        ELSE WriteRow(u, ProjRow(p), listed)

\* Mutant: the branches of the project are left.
DeleteProjectOnly(t, p) ==
    IF <<p, Main>> \notin Dbs(t.cache) THEN Fail(t)
    ELSE WriteRow(FoldSet(LAMBDA i, u : deleteSearchIndex(u, p, i), DropDatabase(t, <<p, Main>>),
                          IndexesOf(t.cache, p)), ProjRow(p), NoRow)

\* The branches the cache has, then the main database, then the search indexes.
DeleteProject(t, p) ==
    LET branches == {n \in Dbs(t.cache) : n[1] = p /\ n[2] # Main}
        main == DropDatabase(FoldSet(LAMBDA n, u : DropDatabase(u, n), t, branches), <<p, Main>>)
        searches == FoldSet(LAMBDA i, u : deleteSearchIndex(u, p, i), main, IndexesOf(t.cache, p))
    IN  IF <<p, Main>> \notin Dbs(t.cache) THEN Fail(t)
        ELSE WriteRow(searches, ProjRow(p), NoRow)

-----------------------------------------------------------------------------
(***************************************************************************)
(* InstantTracking brings the cached tenant up to date in a transaction of *)
(* its own before the request's transaction reads anything.                *)
(***************************************************************************)
InstantTracking(r) ==
    /\ ddl[r] = NoRow
    /\ asked < MaxDdl
    /\ asked' = asked + 1
    /\ ddl' = [ddl EXCEPT ![r] = [pc |-> "tracked", cache |-> store]]
    /\ UNCHANGED <<store, searchStore, undone>>

Started(r) ==
    [cache |-> ddl[r].cache, snap |-> store, buf |-> <<>>, reads |-> {}, ext |-> searchStore,
     drops |-> FALSE, err |-> FALSE]

(***************************************************************************)
(* The request has run: what it did in the search store stays, the rows    *)
(* wait for the commit.                                                    *)
(***************************************************************************)
Ran(r, t) ==
    /\ ddl[r] # NoRow /\ ddl[r].pc = "tracked"
    /\ searchStore' = t.ext
    /\ undone' = (undone \/ (t.drops /\ (t.err \/ \E o \in DdlReqs \ {r} : ddl[o] # NoRow /\ ddl[o].pc = "ran")))
    /\ ddl' = [ddl EXCEPT ![r] =
                IF t.err THEN NoRow
                ELSE [pc |-> "ran", cache |-> t.cache, snap |-> t.snap, buf |-> t.buf, reads |-> t.reads, drops |-> t.drops]]
    /\ UNCHANGED <<store, asked>>

RunProject(r) ==
    /\ ddl[r] # NoRow /\ ddl[r].pc = "tracked"
    /\ \E p \in Projs : Ran(r, CreateProject(Started(r), p)) \/ Ran(r, DeleteProject(Started(r), p))

RunBranch(r) ==
    /\ ddl[r] # NoRow /\ ddl[r].pc = "tracked"
    /\ \E p \in Projs, b \in Branches :
        Ran(r, CreateBranch(Started(r), p, b)) \/ Ran(r, DeleteBranch(Started(r), p, b))

RunCollection(r) ==
    /\ ddl[r] # NoRow /\ ddl[r].pc = "tracked"
    /\ \E n \in DbNames, c \in Colls :
        Ran(r, CreateCollection(Started(r), n, c)) \/ Ran(r, DropCollection(Started(r), n, c))

RunSearch(r) ==
    /\ ddl[r] # NoRow /\ ddl[r].pc = "tracked"
    /\ \E p \in Projs, i \in Indexes :
        Ran(r, CreateSearchIndex(Started(r), p, i)) \/ Ran(r, DeleteSearchIndex(Started(r), p, i))

RunCache(r) ==
    /\ ddl[r] # NoRow /\ ddl[r].pc = "tracked"
    /\ \E p \in Projs, k \in Caches :
        Ran(r, CreateCache(Started(r), p, k)) \/ Ran(r, DeleteCache(Started(r), p, k))

(***************************************************************************)
(* FoundationDB commits when no row that was read has changed.             *)
(* DeleteProject and DeleteBranch drop what the cache has, and what is made in a project *)
(* does not look whether the project is still there: unless DropOverlaps,  *)
(* a request that drops a database overlaps none that commits.             *)
(***************************************************************************)
DdlConflict(t) == \E k \in t.reads : RowOf(t.snap, k) # RowOf(store, k)

DropsAlone(t) ==
    (\E n \in DbNames : \/ DbDropped(n) \in DOMAIN t.buf
                        \/ RowOf(t.cache, DbDropped(n)) # RowOf(store, DbDropped(n)))
        => t.cache = store

CommitDdl(r) ==
    /\ ddl[r] # NoRow /\ ddl[r].pc = "ran"
    /\ ~DdlConflict(ddl[r])
    /\ DropOverlaps \/ DropsAlone(ddl[r])
    /\ LET rows == ddl[r].buf @@ store
       IN  store' = [k \in {key \in DOMAIN rows : rows[key] # NoRow} |-> rows[k]]
    /\ ddl' = [ddl EXCEPT ![r] = NoRow]
    /\ UNCHANGED <<searchStore, asked, undone>>

RollbackDdl(r) ==
    /\ ddl[r] # NoRow /\ ddl[r].pc = "ran"
    /\ undone' = (undone \/ ddl[r].drops)
    /\ ddl' = [ddl EXCEPT ![r] = NoRow]
    /\ UNCHANGED <<store, searchStore, asked>>

PNext ==
    \E r \in DdlReqs :
        \/ InstantTracking(r)
        \/ RunProject(r) \/ RunBranch(r) \/ RunCollection(r) \/ RunSearch(r) \/ RunCache(r)
        \/ CommitDdl(r) \/ RollbackDdl(r)

-----------------------------------------------------------------------------
(***************************************************************************)
(* Type invariant of the projects.                                         *)
(***************************************************************************)
ProjTypeOK ==
    /\ \A k \in DOMAIN store : store[k] # NoRow
    /\ RowOf(store, Counter) \in Nat \cup {NoRow}
    /\ asked \in 0 .. MaxDdl
    /\ undone \in BOOLEAN

(***************************************************************************)
(* No two databases, collections or primary keys, dropped ones included,   *)
(* have the same code (allocateToken), so that no table is stored under    *)
(* the key of another.                                                     *)
(***************************************************************************)
CodesUnique ==
    LET Coded == {k \in DOMAIN store : k[1] \in {"db", "db dropped", "coll", "coll dropped", "pkey", "pkey dropped"}}
    IN  \A j, k \in Coded : store[j].id = store[k].id => j = k

(***************************************************************************)
(* The check DatabaseSubspace.list and CollectionSubspace.list make when a *)
(* tenant is loaded never fails: what was created has a larger code than   *)
(* what was dropped under the same name.                                   *)
(***************************************************************************)
NoRetrogression ==
    /\ \A n \in DbNames : DbRow(n) \in DOMAIN store /\ DbDropped(n) \in DOMAIN store =>
            store[DbRow(n)].id > store[DbDropped(n)].id
    /\ \A n \in Dbs(store), c \in Colls :
            LET id == DbId(store, n)
            IN  CollRow(id, c) \in DOMAIN store /\ CollDropped(id, c) \in DOMAIN store =>
                    store[CollRow(id, c)].id > store[CollDropped(id, c)].id

(***************************************************************************)
(* Every branch is a branch of a project that exists and every collection  *)
(* is in a database that exists: DeleteProject and DeleteBranch leave      *)
(* nothing behind. Tenant.reload takes the project of every branch it      *)
(* reads without looking whether there is one.                             *)
(***************************************************************************)
NothingLeftBehind ==
    /\ \A n \in Dbs(store) : <<n[1], Main>> \in Dbs(store) /\ ProjRow(n[1]) \in DOMAIN store
    /\ \A k \in DOMAIN store : k[1] = "coll" => \E n \in Dbs(store) : DbId(store, n) = k[2]

(***************************************************************************)
(* Every search index a project lists has its schema, without which        *)
(* reloadSearch fails for the tenant (createSearchIndex and                *)
(* deleteSearchIndex change both rows).                                    *)
(***************************************************************************)
ListedIndexHasSchema ==
    \A n \in Dbs(store) : n[2] = Main =>
        \A i \in IndexesOf(store, n[1]) : SchemaRow(DbId(store, n), i) \in DOMAIN store

(***************************************************************************)
(* Every collection has its collection in the search store, although that  *)
(* one is made and dropped outside the transaction, unless a request that  *)
(* dropped some is not done, was rolled back or ran after one that had not *)
(* committed (dropCollection).                                             *)
(***************************************************************************)
ImplicitIndexExists ==
    \/ undone \/ \E r \in DdlReqs : ddl[r] # NoRow /\ ddl[r].pc = "ran" /\ ddl[r].drops
    \/ \A n \in Dbs(store) : \A c \in CollsOf(store, n) : ImplicitIndex(n, c) \in searchStore

=============================================================================
