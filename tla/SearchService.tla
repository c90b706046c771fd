--------------------------- MODULE SearchService ---------------------------
(***************************************************************************)
(* The documents of a search index. Each is kept twice: in the search engine *)
(* that answers queries, and in the store, where a read may ask for it       *)
(* (search.storage_enabled). A request changes the one, then the other, with *)
(* nothing to tie the two. server/services/v1/search/runner.go, base_runner. *)
(***************************************************************************)
EXTENDS Naturals, Sequences, FiniteSets, SequencesExt

CONSTANTS
    SearchIds,     \* the ids of documents
    SearchReqs,    \* the requests, numbered in the order they start
    MaxBatch       \* bound: documents of one request

VARIABLES
    engine,    \* the document of an id in the search engine
    storage,   \* the row of an id in the store
    sreq,      \* what each request is doing
    odd        \* ids of which the code does not keep the two copies equal

svvars == <<engine, storage, sreq, odd>>

\* A document: who wrote its two fields, or none. An update writes the first only.
NoDoc == <<0, 0>>
Whole(r) == <<r, r>>
Merged(r, doc) == <<r, doc[2]>>

\* A document of a batch is valid, or fails before anything is sent.
Inputs == [id : SearchIds, valid : BOOLEAN]

Ops == {"create", "replace", "update", "delete", "byid"}

NotStarted == [st |-> "new", op |-> "none", docs |-> <<>>, status |-> <<>>, alone |-> {}]

SvInit ==
    /\ engine \in [SearchIds -> {NoDoc, Whole(100)}]
    /\ storage = engine
    /\ sreq = [r \in SearchReqs |-> NotStarted]
    /\ odd = {}

IdsOf(r) == {d.id : d \in ToSet(sreq[r].docs)}

Open == {r \in SearchReqs : sreq[r].st \notin {"new", "end"}}

\* Ids that a request in flight other than r names.
Contended(r) == UNION {IdsOf(q) : q \in Open \ {r}}

-----------------------------------------------------------------------------
(***************************************************************************)
(* One document in the search engine: what becomes of it and whether the     *)
(* engine reports success. Creating one that is there, or updating or        *)
(* deleting one that is not, is an error of that document alone.             *)
(***************************************************************************)
EngineDoc(op, r, doc) ==
    CASE op \in {"create", "byid"} /\ doc = NoDoc -> [doc |-> Whole(r), ok |-> TRUE]
      [] op = "replace" -> [doc |-> Whole(r), ok |-> TRUE]
      [] op = "update" /\ doc # NoDoc -> [doc |-> Merged(r, doc), ok |-> TRUE]
      [] op = "delete" /\ doc # NoDoc -> [doc |-> NoDoc, ok |-> TRUE]
      [] OTHER -> [doc |-> doc, ok |-> FALSE]

\* IndexDocuments: the valid documents in order, and the engine's answers for them.
IndexDocuments(op, r, docs) ==
    FoldLeft(LAMBDA acc, d :
                LET e == EngineDoc(op, r, acc.engine[d.id])
                IN  [engine |-> [acc.engine EXCEPT ![d.id] = e.doc], resp |-> Append(acc.resp, e.ok)],
             [engine |-> engine, resp |-> <<>>], docs)

ValidDocs(docs) == SelectSeq(docs, LAMBDA d : d.valid)

\* Mutant: the answers are matched with the documents by position.
buildDocStatusRespShifted(docs, resp) ==
    [i \in DOMAIN docs |-> docs[i].valid /\ i <= Len(resp) /\ resp[i]]

\* The status of each document: its own error, or the next answer of the engine.
buildDocStatusResp(docs, resp) ==
    [i \in DOMAIN docs |->
        docs[i].valid /\ resp[Len(ValidDocs(SubSeq(docs, 1, i)))]]

\* One row in the transaction: the row after it, and whether it fails.
StorageDoc(op, r, row) ==
    CASE op \in {"create", "byid"} -> IF row = NoDoc THEN [row |-> Whole(r), dup |-> FALSE]
                                      ELSE [row |-> row, dup |-> TRUE]
      [] op = "replace" -> [row |-> Whole(r), dup |-> FALSE]
      [] op = "update" -> [row |-> IF row = NoDoc THEN NoDoc ELSE Merged(r, row), dup |-> FALSE]
      [] OTHER -> [row |-> NoDoc, dup |-> FALSE]

\* execInStorage over the documents whose status has no error.
ExecInStorage(op, r, docs, status) ==
    FoldLeft(LAMBDA acc, i :
                IF ~status[i] THEN acc
                ELSE LET s == StorageDoc(op, r, acc.storage[docs[i].id])
                     IN  [storage |-> [acc.storage EXCEPT ![docs[i].id] = s.row],
                          dup |-> acc.dup \/ s.dup],
             [storage |-> storage, dup |-> FALSE], [i \in DOMAIN docs |-> i])

-----------------------------------------------------------------------------
\* The requests in flight are no longer alone with these ids.
Joined(ids) == [q \in SearchReqs |-> [sreq[q] EXCEPT !.alone = @ \ ids]]

Start(r, op, docs) ==
    /\ sreq[r].st = "new"
    /\ \A q \in SearchReqs : q < r => sreq[q].st # "new"
    /\ op = "byid" => Len(docs) = 1 /\ docs[1].valid
    /\ op = "delete" => \A i \in DOMAIN docs : docs[i].valid
    /\ LET ids == {d.id : d \in ToSet(docs)}
       IN  /\ sreq' = [Joined(ids) EXCEPT ![r] =
                [st |-> IF op = "byid" THEN "insert" ELSE "engine", op |-> op,
                 docs |-> docs, status |-> <<>>, alone |-> ids \ Contended(r)]]
           /\ odd' = odd \cup (ids \cap Contended(r))
    /\ UNCHANGED <<engine, storage>>

End(r) == sreq' = [sreq EXCEPT ![r] = [NotStarted EXCEPT !.st = "end"]]

\* The call of the engine. When the call fails its effect is unknown, and the
\* request ends with an error; when no document is valid there is no call.
CallEngine(r) ==
    /\ sreq[r].st = "engine"
    /\ LET q == sreq[r]
           done == IndexDocuments(q.op, r, ValidDocs(q.docs))
       IN  \/ /\ engine' = done.engine
              /\ sreq' = [sreq EXCEPT ![r].st = "storage",
                                      ![r].status = buildDocStatusResp(q.docs, done.resp)]
              /\ UNCHANGED odd
           \/ /\ ValidDocs(q.docs) # <<>> /\ q.op # "delete"
              /\ engine' \in {engine, done.engine}
              /\ odd' = odd \cup IdsOf(r)
              /\ End(r)
           \/ /\ q.op = "delete"  \* one call for each: some fail
              /\ \E bad \in (SUBSET DOMAIN q.docs) \ {{}}, kept \in SUBSET IdsOf(r) :
                    /\ kept \subseteq {q.docs[i].id : i \in bad}
                    /\ engine' = [id \in SearchIds |-> IF id \in kept THEN engine[id] ELSE done.engine[id]]
                    /\ sreq' = [sreq EXCEPT ![r].st = "storage", ![r].status =
                                    [i \in DOMAIN q.docs |-> i \notin bad /\ done.resp[i]]]
                    /\ odd' = odd \cup {q.docs[i].id : i \in bad}
    /\ UNCHANGED storage

\* The transaction. A row that is there already fails all of a create's, which
\* is answered as if it had been done; any other failure is an error.
WriteStorage(r) ==
    /\ sreq[r].st = "storage"
    /\ LET q == sreq[r]
           done == ExecInStorage(q.op, r, q.docs, q.status)
           settled == {id \in q.alone : \A i \in DOMAIN q.docs : q.docs[i].id = id => q.status[i]}
       IN  \/ /\ ~done.dup
              /\ storage' = done.storage
              /\ odd' = IF q.op \in {"replace", "delete"} THEN odd \ settled ELSE odd
           \/ /\ UNCHANGED storage  \* duplicate, conflict or failure
              /\ odd' = odd \cup IdsOf(r)
    /\ End(r)
    /\ UNCHANGED engine

\* createDocumentById: the row first, one that is there already is left alone.
InsertRow(r) ==
    /\ sreq[r].st = "insert"
    /\ LET q == sreq[r]
           done == ExecInStorage("byid", r, q.docs, <<TRUE>>)
       IN  \/ /\ storage' = done.storage
              /\ sreq' = [sreq EXCEPT ![r].st = "create"]
           \/ UNCHANGED storage /\ End(r)
    /\ UNCHANGED <<engine, odd>>

\* then the engine, whose refusal leaves the row where it is.
CreateInEngine(r) ==
    /\ sreq[r].st = "create"
    /\ LET done == IndexDocuments("byid", r, sreq[r].docs)
       IN  \/ engine' = done.engine /\ UNCHANGED odd
           \/ /\ engine' \in {engine, done.engine}
              /\ odd' = odd \cup IdsOf(r)
    /\ End(r)
    /\ UNCHANGED storage

\* DeleteByQuery deletes in the engine only.
DeleteByQuery(r, ids) ==
    /\ sreq[r].st = "new"
    /\ \A q \in SearchReqs : q < r => sreq[q].st # "new"
    /\ engine' = [id \in SearchIds |-> IF id \in ids THEN NoDoc ELSE engine[id]]
    /\ odd' = odd \cup ids
    /\ sreq' = [Joined(ids) EXCEPT ![r].st = "end"]
    /\ UNCHANGED storage

SvNext ==
    \/ \E r \in SearchReqs, op \in Ops, n \in 1..MaxBatch :
        \E docs \in [1..n -> Inputs] : Start(r, op, docs)
    \/ \E r \in SearchReqs :
        CallEngine(r) \/ WriteStorage(r) \/ InsertRow(r) \/ CreateInEngine(r)
    \/ \E r \in SearchReqs, ids \in SUBSET SearchIds : DeleteByQuery(r, ids)

-----------------------------------------------------------------------------
SvTypeOK ==
    /\ DOMAIN engine = SearchIds /\ DOMAIN storage = SearchIds
    /\ \A id \in SearchIds : engine[id] \in Nat \X Nat /\ storage[id] \in Nat \X Nat
    /\ odd \subseteq SearchIds
    /\ \A r \in SearchReqs : sreq[r].st \in {"new", "engine", "storage", "insert", "create", "end"}

(***************************************************************************)
(* A document is the same in the search engine and in the store, or in       *)
(* neither, once no request is at it: whatever documents of a batch are       *)
(* refused, before they are sent or by the engine. Not claimed, because not   *)
(* the case, where requests on a document overlapped, a call or transaction   *)
(* failed, or it was deleted by query; a later replace or delete of the       *)
(* document makes its copies equal again (buildDocStatusResp, execInStorage). *)
(***************************************************************************)
CopiesAgree ==
    \A id \in SearchIds \ odd :
        (\A r \in Open : id \notin IdsOf(r)) => engine[id] = storage[id]
=============================================================================
