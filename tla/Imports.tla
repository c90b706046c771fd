------------------------------- MODULE Imports -------------------------------
(***************************************************************************)
(* Imports of documents that change the schema of their collection: the    *)
(* schema is inferred from the documents (schema/inference.go), stored as  *)
(* a new version in a transaction of its own, and put at once into the     *)
(* cache of the server, which other requests use; the documents are        *)
(* inserted in another transaction (database/import_runner.go,             *)
(* metadata/tenant.go). Values and validation are those of Payloads.       *)
(***************************************************************************)
EXTENDS Payloads

CONSTANTS
    ImServers,   \* servers
    ImReqs,      \* import requests
    ImFirst,     \* the schema of the collection, if it is there already
    ImBatches,   \* the documents of a request, a sequence
    MaxImFaults, \* commits that fail although nothing conflicts
    MaxImRuns    \* times a request runs

VARIABLES
    imStored,  \* version -> schema in the schema store
    imCache,   \* server -> the collection it has cached: [ver, sch]
    imRows,    \* the rows: [req, i, ver, under, doc]
    imReq,     \* request -> its state
    imFailed,  \* an evolution was not committed (the cache keeps it)
    imFaults   \* faults so far

imvars == <<imStored, imCache, imRows, imReq, imFailed, imFaults>>

-----------------------------------------------------------------------------
(* Inference. *)

\* translateType and translateStringType; null makes them panic.
translateType(v) ==
    CASE v[1] = "num" -> IF v[2] \in {"small", "long"} THEN "int64" ELSE "double"
      [] v[1] = "str" -> IF v[2] \in {"datetime", "uuid"} THEN v[2]
                         ELSE IF v[2] \in {"byte", "digits"} THEN "byte" ELSE "string"
      [] v[1] = "bool" -> "bool"
      [] IsObj(v) -> "object"
      [] IsArr(v) -> "array"
      [] OTHER -> "none"

\* extendedStringType and extendedType: the type that holds both, or none.
extendedType(old, new) ==
    CASE old = new /\ new # "none" -> new
      [] old = "int64" /\ new = "double" -> "double"
      [] old \in {"byte", "uuid", "datetime"} /\ new = "string" -> "string"
      [] old = "string" /\ new = "byte" -> "string"
      [] OTHER -> "none"

Incompatible == PField("none")
IsBad(f) == f.type = "none"

\* traverseFields puts in the field inferred from each value, with none of
\* the attributes an existing one had; traverseObject goes into the fields
\* of an existing object. Empty objects and arrays leave no trace.
RECURSIVE traverseFields(_, _)

\* The object that has these fields, unless one of them is incompatible.
WithKids(f, kids) ==
    IF \E n \in DOMAIN kids : IsBad(kids[n]) THEN Incompatible ELSE [f EXCEPT !.kids = kids]

traverseObject(existing, v) ==
    IF existing # <<>> /\ existing[1].type # "object" THEN Incompatible
    ELSE WithKids(PField("object"),
                  traverseFields(IF existing = <<>> THEN PField("object").kids ELSE existing[1].kids, v[2]))

\* The items extended with one element. A further element after objects
\* without fields makes the server panic.
ItemType(items, e) ==
    IF items = <<>> THEN PField(translateType(e))
    ELSE [items[1] EXCEPT !.type = extendedType(items[1].type, translateType(e))]
ItemFrom(item, e) ==
    IF item.type = "object" THEN WithKids(item, traverseFields(item.kids, e[2])) ELSE item
NoFields(f) == f.type = "object" /\ ~HasProps(f)
Checked(item, more) == <<IF more /\ NoFields(item) THEN Incompatible ELSE item>>

\* The items so far (none for a new array) extended with the elements.
traverseArray(items, elements) ==
    FoldLeft(LAMBDA acc, i :
                 IF acc # <<>> /\ IsBad(acc[1]) THEN acc
                 ELSE Checked(ItemFrom(ItemType(acc, elements[i]), elements[i]), i < Len(elements)),
             items, [i \in DOMAIN elements |-> i])
ArrayWith(items) ==
    IF items # <<>> /\ IsBad(items[1]) THEN Incompatible ELSE [PField("array") EXCEPT !.items = items]
ArrayField(existing, v) ==
    IF existing # <<>> /\ existing[1].type # "array" THEN Incompatible
    ELSE ArrayWith(traverseArray(IF existing = <<>> THEN <<>> ELSE existing[1].items, v[2]))

FieldFrom(existing, v) ==
    CASE IsObj(v) -> traverseObject(existing, v)
      [] IsArr(v) -> ArrayField(existing, v)
      [] OTHER -> PField(IF existing = <<>> THEN translateType(v) ELSE extendedType(existing[1].type, translateType(v)))

NoTrace(v, f) ==
    \/ IsObj(v) /\ NoFields(f)
    \/ IsArr(v) /\ v[2] = <<>>
    \/ IsArr(v) /\ f.items # <<>> /\ NoFields(f.items[1])
Merged(kids, members, new) ==
    LET seen == {n \in DOMAIN members : ~NoTrace(members[n], new[n])}
    IN [n \in DOMAIN kids \cup seen |-> IF n \in seen THEN new[n] ELSE kids[n]]
traverseFields(kids, members) ==
    Merged(kids, members,
           [n \in DOMAIN members |-> FieldFrom(IF n \in DOMAIN kids THEN <<kids[n]>> ELSE <<>>, members[n])])

\* docToSchema and Infer: the documents one after the other, from the fields
\* of the schema there is; the attributes of the top level stay.
Infer(base, docs) ==
    FoldLeft(LAMBDA s, d : IF IsBad(s) THEN s ELSE WithKids(s, traverseFields(s.kids, d[2])), base, docs)

-----------------------------------------------------------------------------
(* Storing a version. *)

\* FieldSchemaValidator.validateLow, IsCompatible: every field that was there
\* is there with its type.
RECURSIVE Compatible(_, _)
Compatible(f, g) ==
    /\ f.type = g.type
    /\ DOMAIN f.kids \subseteq DOMAIN g.kids
    /\ \A n \in DOMAIN f.kids : Compatible(f.kids[n], g.kids[n])
    /\ \A i \in DOMAIN f.items : Compatible(f.items[i], g.items[i])

NoVersion == [ver |-> 0, sch |-> PField("object")]
Idle == [pc |-> "idle", at |-> "", docs |-> <<>>, coll |-> NoVersion, new |-> NoVersion, seen |-> {}, runs |-> 0, ans |-> ""]

ImInit ==
    /\ \/ imStored = [v \in {} |-> NoVersion.sch] /\ imCache = [s \in ImServers |-> NoVersion]
       \/ imStored = <<ImFirst>> /\ imCache = [s \in ImServers |-> [ver |-> 1, sch |-> ImFirst]]
    /\ imRows = {}
    /\ imReq = [r \in ImReqs |-> Idle] /\ imFailed = FALSE /\ imFaults = 0

Reply(r, a) == imReq' = [imReq EXCEPT ![r] = [Idle EXCEPT !.pc = "done", !.docs = imReq[r].docs, !.ans = a]]
Goto(r, pc) == imReq' = [imReq EXCEPT ![r].pc = pc]

\* ImportQueryRunner.Run looks the collection up in the cache of its server.
Lookup(q, pc) == [q EXCEPT !.pc = pc, !.coll = imCache[q.at]]

\* Without the collection, a request that may not create it is refused.
ImportBegin(r, s, docs, create) ==
    /\ imReq[r] = Idle
    /\ LET q == [Idle EXCEPT !.at = s, !.docs = docs, !.runs = 1]
       IN imReq' = [imReq EXCEPT ![r] =
                      IF imCache[s] # NoVersion THEN Lookup(q, "insert")
                      ELSE IF create THEN Lookup(q, "create")
                      ELSE [Idle EXCEPT !.pc = "done", !.docs = docs, !.ans = "not found"]]
    /\ UNCHANGED <<imStored, imCache, imRows, imFailed, imFaults>>

\* updateCollection, createCollection: the schema is compatible with the
\* cached one.
MayFollow(c, sch) == c = NoVersion \/ Compatible(c.sch, sch)
\* Mutant: Put replaces.
VersionTakenNever(ver) == FALSE
\* SchemaSubspace.Put inserts: a version that is there is an error.
VersionTaken(ver) == ver \in DOMAIN imStored

\* createCollection, which changes the cached database.
PutEvolved(r, c, sch) ==
    LET pc == "commit " \o imReq[r].pc
        new == [ver |-> c.ver + 1, sch |-> sch]
    IN IF IsBad(sch) \/ (sch # c.sch /\ ~MayFollow(c, sch))
       THEN Reply(r, "invalid") /\ imCache' = imCache
       ELSE IF c # NoVersion /\ sch = c.sch  \* the schemas are equal
       THEN imReq' = [imReq EXCEPT ![r].pc = pc, ![r].new = NoVersion] /\ imCache' = imCache
       ELSE IF VersionTaken(c.ver + 1)
       THEN Reply(r, "aborted") /\ imCache' = imCache
       ELSE /\ imReq' = [imReq EXCEPT ![r].pc = pc, ![r].new = new, ![r].seen = DOMAIN imStored]
            /\ imCache' = [imCache EXCEPT ![imReq[r].at] = new]

\* evolveSchema up to its commit: Infer, and the rest under the tenant's lock.
evolveSchema(r) ==
    /\ imReq[r].pc \in {"create", "evolve"}
    /\ PutEvolved(r, imCache[imReq[r].at], Infer(imReq[r].coll.sch, imReq[r].docs))
    /\ UNCHANGED <<imStored, imRows, imFailed, imFaults>>

Committing(r) == imReq[r].pc \in {"commit create", "commit evolve"}
NextOf(r) == IF imReq[r].pc = "commit create" THEN "again" ELSE "retry"

\* The commit of evolveSchema, which has read all versions: it conflicts if
\* one appeared meanwhile, and the cache is not put back.
CommitEvolved(r) ==
    /\ Committing(r)
    /\ LET q == imReq[r]
       IN IF q.new # NoVersion /\ DOMAIN imStored # q.seen
          THEN Reply(r, "aborted") /\ imFailed' = TRUE /\ UNCHANGED imStored
          ELSE /\ imStored' = IF q.new = NoVersion THEN imStored ELSE imStored @@ (q.new.ver :> q.new.sch)
               /\ Goto(r, NextOf(r)) /\ UNCHANGED imFailed
    /\ UNCHANGED <<imCache, imRows, imFaults>>

\* It fails for another reason.
EvolveFails(r) ==
    /\ Committing(r) /\ imFaults < MaxImFaults
    /\ imFaults' = imFaults + 1
    /\ imFailed' = (imFailed \/ imReq[r].new # NoVersion)
    /\ Reply(r, "aborted")
    /\ UNCHANGED <<imStored, imCache, imRows>>

\* After creating the collection it is looked up again.
LookAgain(r) ==
    /\ imReq[r].pc = "again"
    /\ imReq' = [imReq EXCEPT ![r] = Lookup(@, "insert")]
    /\ UNCHANGED <<imStored, imCache, imRows, imFailed, imFaults>>

\* insertOrReplace of the documents with the schema that was looked up.
StoredFor(q, i) == mutateAndValidatePayload(q.coll.sch, q.docs[i], TRUE, FALSE)
AllValid(q) == \A i \in DOMAIN q.docs : StoredFor(q, i) # {}
ImportedRows(r) ==
    LET q == imReq[r]
    IN {[req |-> r, i |-> i, ver |-> q.coll.ver, under |-> q.coll.sch, doc |-> CHOOSE d \in StoredFor(q, i) : TRUE]
          : i \in DOMAIN q.docs}

\* A document that is not valid rolls the batch back and evolves the schema.
InsertBatch(r) ==
    /\ imReq[r].pc = "insert"
    /\ Goto(r, IF AllValid(imReq[r]) THEN "commit" ELSE "evolve")
    /\ UNCHANGED <<imStored, imCache, imRows, imFailed, imFaults>>

\* The documents are committed.
CommitBatch(r) ==
    /\ imReq[r].pc = "commit"
    /\ imRows' = imRows \cup ImportedRows(r)
    /\ Reply(r, "ok")
    /\ UNCHANGED <<imStored, imCache, imFailed, imFaults>>

BatchFails(r) ==
    /\ imReq[r].pc = "commit" /\ imFaults < MaxImFaults
    /\ imFaults' = imFaults + 1
    /\ Reply(r, "aborted")
    /\ UNCHANGED <<imStored, imCache, imRows, imFailed>>

\* The insert is tried again in a new transaction, with the collection that
\* was looked up before the schema changed; it fails as before.
RetryInsert(r) ==
    /\ imReq[r].pc = "retry"
    /\ IF AllValid(imReq[r]) THEN Goto(r, "commit") ELSE Reply(r, "invalid")
    /\ UNCHANGED <<imStored, imCache, imRows, imFailed, imFaults>>

\* ... unless the session, stopping its version tracker on the transaction
\* that was rolled back, gets an error and runs the request once more.
RunAgain(r) ==
    /\ imReq[r].pc = "retry" /\ ~AllValid(imReq[r]) /\ imReq[r].runs < MaxImRuns
    /\ imReq' = [imReq EXCEPT ![r] = [Lookup(@, "insert") EXCEPT !.runs = @ + 1]]
    /\ UNCHANGED <<imStored, imCache, imRows, imFailed, imFaults>>

\* Some other change of metadata makes a server load its cache again.
Latest == IF DOMAIN imStored = {} THEN NoVersion ELSE [ver |-> Max(DOMAIN imStored), sch |-> imStored[Max(DOMAIN imStored)]]
ReloadCache(s) ==
    /\ imCache[s] # Latest
    /\ \A r \in ImReqs : imReq[r].at # s
    /\ imCache' = [imCache EXCEPT ![s] = Latest]
    /\ UNCHANGED <<imStored, imRows, imReq, imFailed, imFaults>>

ImNext ==
    \/ \E r \in ImReqs, s \in ImServers, docs \in ImBatches, create \in BOOLEAN : ImportBegin(r, s, docs, create)
    \/ \E r \in ImReqs :
         \/ evolveSchema(r) \/ CommitEvolved(r) \/ EvolveFails(r) \/ LookAgain(r) \/ InsertBatch(r)
         \/ CommitBatch(r) \/ BatchFails(r) \/ RetryInsert(r) \/ RunAgain(r)
    \/ \E s \in ImServers : ReloadCache(s)

-----------------------------------------------------------------------------

\* Type invariant: a version that is cached or that rows have is positive,
\* and only a request that inserts has looked a collection up.
ImTypeOK ==
    /\ \A v \in DOMAIN imStored : v > 0 /\ ~IsBad(imStored[v])
    /\ \A r \in ImReqs : imReq[r].pc \in {"insert", "evolve", "commit", "retry"} => imReq[r].coll.ver > 0
    /\ imFailed \in BOOLEAN /\ imFaults \in 0 .. MaxImFaults

(***************************************************************************)
(* An import is answered ok with all of its documents stored, or with an   *)
(* error and none of them, whatever it did to the schema meanwhile         *)
(* (ImportQueryRunner.Run rolls back the partial batch).                   *)
(***************************************************************************)
AllOrNothing ==
    \A r \in ImReqs :
        LET mine == {w.i : w \in {x \in imRows : x.req = r}}
        IN mine = IF imReq[r].ans = "ok" THEN DOMAIN imReq[r].docs ELSE {}

\* No null, no empty object and no empty array anywhere.
RECURSIVE Full(_)
Full(v) == CASE IsObj(v) -> DOMAIN v[2] # {} /\ \A n \in DOMAIN v[2] : Full(v[2][n])
             [] IsArr(v) -> v[2] # <<>> /\ \A i \in DOMAIN v[2] : Full(v[2][i])
             [] OTHER -> v # NullValue

(***************************************************************************)
(* The schema an import arrives at accepts all documents of the import, if *)
(* none of them has a null, an empty object or an empty array: it holds    *)
(* what every document, early or late in the batch, needs (Infer,          *)
(* extendedType against Validate).                                         *)
(***************************************************************************)
InferredAccepts ==
    \A r \in ImReqs :
        /\ Committing(r) /\ imReq[r].new # NoVersion
        /\ \A i \in DOMAIN imReq[r].docs : Full(imReq[r].docs[i])
        => \A i \in DOMAIN imReq[r].docs :
             mutateAndValidatePayload(imReq[r].new.sch, imReq[r].docs[i], TRUE, FALSE) # {}

(***************************************************************************)
(* While no evolution has failed to commit, once none is under way, every  *)
(* row and every cache that knows a version has the schema that is stored  *)
(* under it, and each stored version is compatible with the one before     *)
(* (evolveSchema changes the cache before its transaction commits; servers *)
(* with old caches find their version taken).                              *)
(***************************************************************************)
VersionsAgree ==
    ~imFailed /\ (\A r \in ImReqs : ~Committing(r)) =>
        /\ \A w \in imRows : w.ver \in DOMAIN imStored /\ imStored[w.ver] = w.under
        /\ \A s \in ImServers : imCache[s] = NoVersion
                                \/ (imCache[s].ver \in DOMAIN imStored /\ imStored[imCache[s].ver] = imCache[s].sch)
        /\ \A v \in DOMAIN imStored : v - 1 \in DOMAIN imStored => Compatible(imStored[v - 1], imStored[v])

=============================================================================
