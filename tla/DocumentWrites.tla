--------------------------- MODULE DocumentWrites ---------------------------
(***************************************************************************)
(* The write runners of a collection                                       *)
(* (server/services/v1/database/query_runner.go, base_runner.go), the      *)
(* operators of an update (query/update/operator.go) and the defaults they *)
(* fill in (mutator.go). A request is one transaction. An update or a      *)
(* delete walks the rows its filter selects, in key order, and writes as   *)
(* it walks: a batch of rows the store fetches later sees the rows written *)
(* before. A document has a primary key id, a number n, a field c tagged   *)
(* createdAt and a field u tagged updatedAt.                               *)
(***************************************************************************)
EXTENDS Integers, FiniteSets, FiniteSetsExt, Sequences, SequencesExt

CONSTANTS
    DocKeys,     \* the primary keys, 1..n
    Inserts,     \* the documents clients insert or replace: [id, n]
    WriteReqs,   \* the updates and deletes clients send, see WriteReq
    MaxFetch,    \* the rows in one batch of the store, at most
    MaxRequests

VARIABLES
    tbl,     \* the committed row under each key
    view,    \* the table as the running transaction sees it
    cmd,     \* the running request, or NoCmd
    walk,    \* its iterator: [after, batch, end]
    count,   \* modifiedCount
    instant,   \* requests so far: the timestamp of a request
    done     \* the last request with the table it began with

dvars == <<tbl, view, cmd, walk, count, instant, done>>

NoVal == 0    \* a field that is absent; the values used are positive
\* A row: the fields of its document, when it was created and updated, and
\* whether an update changed its key without moving it.
NoBody == [id |-> NoVal, n |-> NoVal, c |-> NoVal, u |-> NoVal, created |-> NoVal, updated |-> NoVal,
          stray |-> FALSE]

\* An update or delete: by is what the filter asks for (NoVal: of any value),
\* set, inc and unset the operators, with inc NoVal where it names no field.
WriteReq(kind, by, set, inc, unset, limit) ==
    [kind |-> kind, by |-> by, set |-> set, inc |-> inc, unset |-> unset, limit |-> limit]
NoCmd == WriteReq("none", [id |-> NoVal, n |-> NoVal], [id |-> NoVal, n |-> NoVal], [id |-> NoVal, n |-> NoVal], {}, 0)
NoWalk == [after |-> 0, batch |-> <<>>]

RowsOf(t) == {k \in DocKeys : t[k] # NoBody}

DInit ==
    /\ tbl = [k \in DocKeys |-> NoBody] /\ view = tbl
    /\ cmd = NoCmd /\ walk = NoWalk /\ count = 0 /\ instant = 0
    /\ done = [req |-> NoCmd, before |-> tbl, moved |-> FALSE]

----------------------------------------------------------------------------
\* mutateAndValidatePayload with insertPayloadMutator: fields tagged
\* createdAt are filled in, those tagged updatedAt are not.
Incoming(d, ts) ==
    [id |-> d.id, n |-> d.n, c |-> ts, u |-> NoVal, created |-> ts, updated |-> NoVal,
     stray |-> FALSE]

\* insertOrReplace: one document with its key given. Insert refuses a key
\* that is taken, and the session rolls back; Replace overwrites.
insertOrReplace(d, insert) ==
    /\ cmd = NoCmd /\ instant < MaxRequests
    /\ instant' = instant + 1
    /\ tbl' = IF insert /\ tbl[d.id] # NoBody THEN tbl  \* ErrDuplicateKey
              ELSE [tbl EXCEPT ![d.id] = Incoming(d, instant + 1)]
    /\ view' = tbl'
    /\ done' = [req |-> NoCmd, before |-> tbl, moved |-> FALSE]
    /\ UNCHANGED <<cmd, walk, count>>

\* InsertQueryRunner.Run and ReplaceQueryRunner.Run.
InsertDoc(d) == insertOrReplace(d, TRUE)
ReplaceDoc(d) == insertOrReplace(d, FALSE)

----------------------------------------------------------------------------
(* The operators of an update (MergeAndGet). *)

\* updateDefaultsAndSchema, updatePayloadMutator.setDefaults: a field tagged
\* updatedAt is filled in when the stored document lacks it.
setDefaultsInExistingPayload(d, ts) == IF d.u = NoVal THEN [d EXCEPT !.u = ts] ELSE d

\* $set puts the values it names.
SetFields(d, set) ==
    [d EXCEPT !.id = IF set.id # NoVal THEN set.id ELSE @, !.n = IF set.n # NoVal THEN set.n ELSE @]

\* $increment adds to the fields it names that the document has.
atomicOperations(d, inc) ==
    [d EXCEPT !.id = @ + inc.id, !.n = IF @ = NoVal THEN NoVal ELSE @ + inc.n]

\* $unset deletes the fields it names.
RemoveFields(d, unset) == [d EXCEPT !.n = IF "n" \in unset THEN NoVal ELSE @]

HasInc(q) == q.inc.id # NoVal \/ q.inc.n # NoVal

\* Each operator in turn sets primaryKeyMutation for itself: the last one
\* decides. The others are $set and $increment.
primaryKeyMutation(q) ==
    IF q.unset # {} THEN FALSE
    ELSE IF HasInc(q) THEN q.inc.id # NoVal
    ELSE q.set.id # NoVal

\* An operator changes the key in the document and a later one does not.
Overridden(q) ==
    \/ q.set.id # NoVal /\ ((HasInc(q) /\ q.inc.id = NoVal) \/ q.unset # {})
    \/ q.inc.id # NoVal /\ q.unset # {}

MergeAndGet(d, q, ts) ==
    RemoveFields(atomicOperations(SetFields(setDefaultsInExistingPayload(d, ts), q.set), q.inc), q.unset)

----------------------------------------------------------------------------
(* Update and delete. *)

BeginWrite(q) ==
    /\ cmd = NoCmd /\ instant < MaxRequests
    /\ cmd' = q /\ view' = tbl /\ walk' = NoWalk /\ count' = 0 /\ instant' = instant + 1
    /\ done' = [req |-> NoCmd, before |-> tbl, moved |-> FALSE]
    /\ UNCHANGED tbl

\* UpdateQueryRunner.Run up to its loop. An update without a filter is refused.
BeginUpdate(q) == q.kind = "update" /\ (q.by.id # NoVal \/ q.by.n # NoVal) /\ BeginWrite(q)

\* DeleteQueryRunner.Run up to its loop. A delete without a filter scans.
BeginDelete(q) == q.kind = "delete" /\ BeginWrite(q)

\* getWriteIterator: the keys of the filter when it names the primary key,
\* else a scan. FilteredRead applies the filter to the rows of a scan.
KeyIterator(q) == q.by.id # NoVal
Selects(q, d) == q.by.n # NoVal => d.n = q.by.n

\* The keys the iterator has still to fetch.
Ahead == {k \in RowsOf(view) : k > walk.after /\ (KeyIterator(cmd) => k = cmd.by.id)}

\* Mutant: a delete stops one row late.
WriteAtLimitLate(q) == q.limit > 0 /\ count > q.limit

WriteAtLimit(q) == q.limit > 0 /\ count >= q.limit

Running == cmd # NoCmd /\ ~WriteAtLimit(cmd)

\* The store fetches the next batch from the transaction's own view. Scans
\* drop the rows the filter does not match.
Fetch ==
    /\ Running /\ walk.batch = <<>> /\ Ahead # {}
    /\ \E size \in 1..MaxFetch :
        /\ size <= Cardinality(Ahead)
        /\ LET ks == SubSeq(SetToSortSeq(Ahead, <), 1, size)
               rows == [i \in 1..size |-> [key |-> ks[i], doc |-> view[ks[i]]]]
           IN  walk' = [after |-> ks[size],
                        batch |-> SelectSeq(rows, LAMBDA r : KeyIterator(cmd) \/ Selects(cmd, r.doc))]
    /\ UNCHANGED <<tbl, view, cmd, count, instant, done>>

\* NewTableDataWithTS(row.Data.CreatedAt, ts, merged)
NewTableDataWithTS(d, ts) == [d EXCEPT !.updated = ts]

\* One row of an update: the row is written under its key, or deleted there
\* and written under the key of the merged document (one of DocKeys).
UpdateRow ==
    /\ Running /\ cmd.kind = "update" /\ walk.batch # <<>>
    /\ LET r == Head(walk.batch)
           d == [NewTableDataWithTS(MergeAndGet(r.doc, cmd, instant), instant) EXCEPT
                    !.stray = ~primaryKeyMutation(cmd) /\ (@ \/ Overridden(cmd))]
       IN  /\ d.id \in DocKeys
           /\ view' = IF primaryKeyMutation(cmd)
                      THEN [view EXCEPT ![r.key] = NoBody, ![d.id] = d]
                      ELSE [view EXCEPT ![r.key] = d]
           /\ done' = [done EXCEPT !.moved = @ \/ primaryKeyMutation(cmd)]
    /\ walk' = [walk EXCEPT !.batch = Tail(@)]
    /\ count' = count + 1
    /\ UNCHANGED <<tbl, cmd, instant>>

\* One row of a delete.
DeleteRow ==
    /\ Running /\ cmd.kind = "delete" /\ walk.batch # <<>>
    /\ view' = [view EXCEPT ![Head(walk.batch).key] = NoBody]
    /\ walk' = [walk EXCEPT !.batch = Tail(@)]
    /\ count' = count + 1
    /\ UNCHANGED <<tbl, cmd, instant, done>>

\* The iterator ends or the limit is reached, and the session commits.
CommitWrite ==
    /\ cmd # NoCmd
    /\ WriteAtLimit(cmd) \/ (walk.batch = <<>> /\ Ahead = {})
    /\ tbl' = view /\ cmd' = NoCmd /\ walk' = NoWalk
    /\ done' = [done EXCEPT !.req = cmd]
    /\ UNCHANGED <<view, count, instant>>

\* primary key field can't be unset: the update ends in an error.
RefuseWrite ==
    /\ Running /\ cmd.kind = "update" /\ walk.batch # <<>>
    /\ "id" \in cmd.unset
    /\ view' = tbl /\ cmd' = NoCmd /\ walk' = NoWalk
    /\ UNCHANGED <<tbl, count, instant, done>>

DNext ==
    \/ \E d \in Inserts : InsertDoc(d) \/ ReplaceDoc(d)
    \/ \E q \in WriteReqs : BeginUpdate(q) \/ BeginDelete(q)
    \/ Fetch
    \/ ("id" \notin cmd.unset /\ UpdateRow)
    \/ DeleteRow
    \/ CommitWrite
    \/ RefuseWrite

DTypeOK ==
    /\ \A k \in DocKeys : DOMAIN tbl[k] = DOMAIN NoBody /\ DOMAIN view[k] = DOMAIN NoBody
    /\ cmd \in WriteReqs \cup {NoCmd}
    /\ walk.after \in {0} \cup DocKeys /\ Len(walk.batch) <= MaxFetch
    /\ count \in 0..(MaxRequests + 2 * Cardinality(DocKeys)) /\ instant \in 0..MaxRequests

----------------------------------------------------------------------------
\* Every row lies under the primary key its document holds, also after
\* updates that change the key, unless an operator that leaves the key alone
\* came after the one that changed it (UpdateQueryRunner.Run, MergeAndGet).
KeyMatchesDoc == \A k \in RowsOf(tbl) : tbl[k].stray \/ tbl[k].id = k

\* What an update or delete that moves no row leaves behind: the rows its
\* filter selects, the first limit of them when it has a limit, are changed
\* once and every other row is as before (UpdateQueryRunner.Run,
\* DeleteQueryRunner.Run).
WriteExact ==
    done.req # NoCmd /\ ~done.moved =>
        LET q == done.req
            old == done.before
            sel == {k \in RowsOf(old) : IF KeyIterator(q) THEN k = q.by.id ELSE Selects(q, old[k])}
            hit == {k \in sel : q.limit = 0 \/ Cardinality({j \in sel : j < k}) < q.limit}
        IN  \A k \in DocKeys : tbl[k] =
                IF k \notin hit THEN old[k]
                ELSE IF q.kind = "delete" THEN NoBody
                ELSE [MergeAndGet(old[k], q, instant) EXCEPT !.updated = instant, !.stray = @ \/ Overridden(q)]

\* The createdAt field of a document and the creation time of its row agree,
\* however often the row is updated, replaced or moved (insertOrReplace,
\* NewTableDataWithTS).
CreationTimesAgree == \A k \in RowsOf(tbl) : tbl[k].c = tbl[k].created

=============================================================================
