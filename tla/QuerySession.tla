---------------------------- MODULE QuerySession ----------------------------
(***************************************************************************)
(* The life of a transaction that writes documents: the session            *)
(* (server/services/v1/database/sessions.go), the transaction under it     *)
(* (server/transaction/manager.go), the listener that buffers its changes  *)
(* (store/kv/listener.go, listener_store.go) and the two consumers of      *)
(* those changes when it commits: the change log (server/cdc), written in  *)
(* the transaction, and the search index (search_indexer.go), written one  *)
(* document at a time once the transaction has committed.                  *)
(*                                                                         *)
(* An implicit session runs one statement and is retried on a conflict; an *)
(* explicit one runs the statements its client sends until the client      *)
(* commits or rolls it back.                                               *)
(***************************************************************************)
EXTENDS Naturals, Sequences, FiniteSets, FiniteSetsExt, Functions

CONSTANTS
    Sessions,          \* requests the servers run at the same time
    Keys,              \* primary keys of the collection
    Stored,            \* keys that have a document at the start
    Parts,             \* keys of the object field every document may have
    Objects,           \* what updates set the field to
    None,              \* no document
    Ops,               \* kinds of statements clients send
    CommitAfterError,  \* clients commit an explicit transaction whose insert was refused
    MaxTx,             \* transactions begun in a behaviour
    MaxStatements,     \* statements of an explicit transaction
    MaxFaults          \* failures of the stores or of a server in a behaviour

ASSUME SessionAssumption ==
    /\ Ops \subseteq {"insert", "replace", "update", "unset", "delete", "move"}
    /\ Stored \subseteq Keys /\ Objects \subseteq SUBSET Parts
    /\ CommitAfterError \in BOOLEAN
    /\ IsFiniteSet(Keys)
    /\ MaxTx \in Nat /\ MaxStatements \in Nat \ {0} /\ MaxFaults \in Nat

VARIABLES
    hist,     \* the committed transactions: their number and what they wrote
    log,      \* the change log: the events of each transaction, in commit order
    search,   \* the implicit search index
    begun,    \* transactions begun so far
    ses,      \* the sessions
    faults,   \* failures so far
    tainted   \* keys whose search document may differ for a known reason

vars == <<hist, log, search, begun, ses, faults, tainted>>

(***************************************************************************)
(* A document: the transaction and the event that wrote it, and the keys   *)
(* its object field holds.                                                 *)
(***************************************************************************)
Docs == [tx : 0 .. MaxTx, event : 1 .. 2 * MaxStatements, object : SUBSET Parts]

ASSUME NoneAssumption == None \notin Docs

(***************************************************************************)
(* Statements name the key they select and, for "move", the key they set.  *)
(* Inserts and replaces fill the object, "update" sets it to one of        *)
(* Objects and "unset" takes its keys away.                                *)
(***************************************************************************)
Statements ==
    {st \in [op : Ops, key : Keys, to : Keys, object : Objects \cup {{}, Parts}] :
        /\ st.op # "move" => st.to = st.key
        /\ CASE st.op = "update" -> st.object \in Objects
             [] st.op = "unset" -> st.object = {}
             [] OTHER -> st.object = Parts}

Event ==
    [op : {"insert", "replace", "update"}, key : Keys, doc : Docs] \cup [op : {"delete"}, key : Keys, doc : {None}]

(***************************************************************************)
(* The documents after the first n transactions.                           *)
(***************************************************************************)
DocsAfter(n) ==
    [k \in Keys |->
        LET writers == {i \in 1 .. n : k \in DOMAIN hist[i].writes}
        IN  IF writers = {} THEN None ELSE hist[Max(writers)].writes[k]]

Documents == DocsAfter(Len(hist))

KeysOf(events) == {events[i].key : i \in DOMAIN events}
Updated(events) == {events[i].key : i \in {j \in DOMAIN events : events[j].op = "update"}}

\* Mutant: a retry goes on with the transaction of the first attempt.
FreshSameTx(x) ==
    [x EXCEPT !.pc = "open", !.snap = Len(hist), !.reads = {}, !.events = <<>>,
              !.next = 1, !.tentative = {}, !.stale = {}, !.failed = FALSE]

\* Mutant: a retry goes on with the listener of the first attempt.
FreshSameListener(x) ==
    [x EXCEPT !.pc = "open", !.snap = Len(hist), !.reads = {}, !.writes = <<>>,
              !.next = 1, !.tentative = {}, !.stale = {}, !.failed = FALSE]

(***************************************************************************)
(* The transaction and the listener of a session as Create makes them.     *)
(***************************************************************************)
Fresh(x) ==
    [x EXCEPT !.pc = "open", !.snap = Len(hist), !.reads = {}, !.writes = <<>>,
              !.events = <<>>, !.next = 1, !.tentative = {}, !.stale = {}, !.failed = FALSE]

Idle ==
    [pc |-> "idle", explicit |-> FALSE, id |-> 0, st |-> None, snap |-> 0, reads |-> {},
     writes |-> <<>>, events |-> <<>>, next |-> 1, tentative |-> {}, stale |-> {},
     failed |-> FALSE, reply |-> "none"]

(***************************************************************************)
(* A transaction 0 has inserted and indexed the documents of Stored.       *)
(***************************************************************************)
FirstDoc == [tx |-> 0, event |-> 1, object |-> Parts]
FirstEvents == {[op |-> "insert", key |-> k, doc |-> FirstDoc] : k \in Stored}

Init ==
    /\ hist = <<[id |-> 0, writes |-> [k \in Stored |-> FirstDoc]]>>
    /\ \E inserts \in Surjection(1 .. Cardinality(Stored), FirstEvents) : log = <<inserts>>
    /\ search = [k \in Keys |-> IF k \in Stored THEN FirstDoc ELSE None]
    /\ begun = 0
    /\ ses = [s \in Sessions |-> Idle]
    /\ faults = 0
    /\ tainted = {}

-----------------------------------------------------------------------------
(***************************************************************************)
(* Statements. Each reads the keys it depends on, so that the transaction  *)
(* conflicts with a later writer of them. The listener is told of a write  *)
(* before the store is: a refused insert leaves its event in the buffer.   *)
(***************************************************************************)
View(x, k) == IF k \in DOMAIN x.writes THEN x.writes[k] ELSE DocsAfter(x.snap)[k]

Told(x, op, k, doc) ==
    [x EXCEPT !.events = Append(@, [op |-> op, key |-> k, doc |-> doc])]

Wrote(x, k, doc) ==
    [x EXCEPT !.writes = [j \in DOMAIN @ \cup {k} |-> IF j = k THEN doc ELSE @[j]]]

Read(x, k) == [x EXCEPT !.reads = @ \cup {k}]

NewDoc(x, object) == [tx |-> x.id, event |-> Len(x.events) + 1, object |-> object]

Insert(x, k, doc) ==
    LET told == Told(Read(x, k), "insert", k, doc)
    IN  IF View(x, k) # None THEN [told EXCEPT !.failed = TRUE] ELSE Wrote(told, k, doc)

Replace(x, k, doc) == Wrote(Told(Read(x, k), "replace", k, doc), k, doc)

(***************************************************************************)
(* An update that sets the object leaves the keys the old one had in the   *)
(* context, for the indexer to clear, in place of those an earlier update  *)
(* left: these are then not cleared, and the search documents they are of  *)
(* are stale. One that unsets leaves nothing.                              *)
(***************************************************************************)
Update(x, k, doc) ==
    IF View(x, k) = None THEN Read(x, k)
    ELSE LET old == View(x, k).object
             wrote == Wrote(Told(Read(x, k), "update", k, doc), k, doc)
         IN  IF old = {} THEN wrote
             ELSE [wrote EXCEPT !.tentative = old,
                                !.stale = IF x.tentative \in {{}, old} THEN @ ELSE @ \cup Updated(x.events)]

Unset(x, k, doc) ==
    IF View(x, k) = None THEN Read(x, k)
    ELSE LET wrote == Wrote(Told(Read(x, k), "update", k, doc), k, doc)
         IN  [wrote EXCEPT !.stale = @ \cup {k}]

Delete(x, k) ==
    IF View(x, k) = None THEN Read(x, k)
    ELSE Wrote(Told(Read(x, k), "delete", k, None), k, None)

(***************************************************************************)
(* An update that changes the primary key deletes the old key and writes   *)
(* the document under the new one, which it does not read.                 *)
(***************************************************************************)
Move(x, k, to) ==
    IF View(x, k) = None THEN Read(x, k)
    ELSE LET gone == Delete(x, k)
             doc == NewDoc(gone, View(x, k).object)
         IN  Wrote(Told(gone, "replace", to, doc), to, doc)

Run(x, st) ==
    LET doc == NewDoc(x, st.object)
    IN  CASE st.op = "insert" -> Insert(x, st.key, doc)
          [] st.op = "replace" -> Replace(x, st.key, doc)
          [] st.op = "update" -> Update(x, st.key, doc)
          [] st.op = "unset" -> Unset(x, st.key, doc)
          [] st.op = "delete" -> Delete(x, st.key)
          [] st.op = "move" -> Move(x, st.key, st.to)

-----------------------------------------------------------------------------
(***************************************************************************)
(* Sessions: Create, and the statement of an implicit one or the           *)
(* statements of an explicit one.                                          *)
(***************************************************************************)
CreateImplicit(s, st) ==
    /\ ses[s].pc = "idle"
    /\ begun < MaxTx
    /\ begun' = begun + 1
    /\ ses' = [ses EXCEPT ![s] = Fresh([Idle EXCEPT !.id = begun + 1, !.st = st])]
    /\ UNCHANGED <<hist, log, search, faults, tainted>>

BeginTransaction(s) ==
    /\ ses[s].pc = "idle"
    /\ begun < MaxTx
    /\ begun' = begun + 1
    /\ ses' = [ses EXCEPT ![s] = Fresh([Idle EXCEPT !.id = begun + 1, !.explicit = TRUE])]
    /\ UNCHANGED <<hist, log, search, faults, tainted>>

RunImplicit(s) ==
    /\ ses[s].pc = "open" /\ ~ses[s].explicit
    /\ ses' = [ses EXCEPT ![s] = [Run(ses[s], ses[s].st) EXCEPT !.pc = "ran"]]
    /\ UNCHANGED <<hist, log, search, begun, faults, tainted>>

(***************************************************************************)
(* The statement of an explicit transaction. Its error goes to the client, *)
(* the transaction stays open.                                             *)
(***************************************************************************)
Execute(s, st) ==
    /\ ses[s].pc = "open" /\ ses[s].explicit
    /\ Len(ses[s].events) < MaxStatements
    /\ ses[s].failed => CommitAfterError
    /\ ses' = [ses EXCEPT ![s] = Run(ses[s], st)]
    /\ UNCHANGED <<hist, log, search, begun, faults, tainted>>

End(s, reply) ==
    ses' = [ses EXCEPT ![s] = [Idle EXCEPT !.id = ses[s].id, !.reply = reply]]

RollbackTransaction(s) ==
    /\ ses[s].pc = "open" /\ ses[s].explicit
    /\ End(s, "rolled back")
    /\ UNCHANGED <<hist, log, search, begun, faults, tainted>>

-----------------------------------------------------------------------------
(***************************************************************************)
(* Commit. A session is about to commit when the statement of an implicit  *)
(* one has run, or when the client of an explicit one asks for it.         *)
(***************************************************************************)
Committing(s) ==
    \/ ses[s].pc = "ran" /\ ~ses[s].failed
    \/ /\ ses[s].pc = "open" /\ ses[s].explicit
       /\ ses[s].failed => CommitAfterError

Conflict(x) ==
    /\ x.events # <<>>
    /\ \E i \in x.snap + 1 .. Len(hist) : DOMAIN hist[i].writes \cap x.reads # {}

Pending(x) == IF x.pc = "post" THEN SubSeq(x.events, x.next, Len(x.events)) ELSE <<>>

(***************************************************************************)
(* Keys whose search documents a commit puts in doubt: it writes a key     *)
(* that another session is still to index, or one already in doubt, or it  *)
(* leaves parts of the document that is there.                             *)
(***************************************************************************)
InDoubt(s) ==
    LET mine == KeysOf(ses[s].events)
        rivals == {r \in Sessions \ {s} : KeysOf(Pending(ses[r])) \cap mine # {}}
    IN  IF rivals = {} /\ mine \cap tainted = {} THEN ses[s].stale
        ELSE mine \cup UNION {KeysOf(Pending(ses[r])) : r \in rivals}

(***************************************************************************)
(* What a transaction that commits leaves in the store: its writes and, by *)
(* OnPreCommit, the record of its events.                                  *)
(***************************************************************************)
Durable(x) ==
    /\ hist' = Append(hist, [id |-> x.id, writes |-> x.writes])
    /\ log' = IF x.events = <<>> THEN log ELSE Append(log, x.events)

Commit(s) ==
    /\ Committing(s)
    /\ ~Conflict(ses[s])
    /\ Durable(ses[s])
    /\ tainted' = tainted \cup InDoubt(s)
    /\ ses' = [ses EXCEPT ![s].pc = "post"]
    /\ UNCHANGED <<search, begun, faults>>

(***************************************************************************)
(* An implicit session is retried until the deadline of its request.       *)
(***************************************************************************)
CommitConflict(s) ==
    /\ Committing(s)
    /\ Conflict(ses[s])
    /\ \/ ~ses[s].explicit /\ ses' = [ses EXCEPT ![s] = Fresh(@)]
       \/ End(s, "conflict")
    /\ UNCHANGED <<hist, log, search, begun, faults, tainted>>

\* Mutant: an unknown result is retried like a conflict.
CommitUnknownRetry(s) ==
    /\ Committing(s)
    /\ faults < MaxFaults
    /\ faults' = faults + 1
    /\ \/ /\ ~Conflict(ses[s])
          /\ Durable(ses[s])
          /\ tainted' = tainted \cup InDoubt(s) \cup KeysOf(ses[s].events)
       \/ UNCHANGED <<hist, log, tainted>>
    /\ IF ses[s].explicit THEN End(s, "unknown") ELSE ses' = [ses EXCEPT ![s] = Fresh(@)]
    /\ UNCHANGED <<search, begun>>

(***************************************************************************)
(* The store does not know whether the transaction committed. It is not    *)
(* retried, and OnPostCommit does not run.                                 *)
(***************************************************************************)
CommitUnknown(s) ==
    /\ Committing(s)
    /\ faults < MaxFaults
    /\ faults' = faults + 1
    /\ \/ /\ ~Conflict(ses[s])
          /\ Durable(ses[s])
          /\ tainted' = tainted \cup InDoubt(s) \cup KeysOf(ses[s].events)
       \/ UNCHANGED <<hist, log, tainted>>
    /\ End(s, "unknown")
    /\ UNCHANGED <<search, begun>>

(***************************************************************************)
(* The statement failed: Commit rolls back and answers with its error.     *)
(***************************************************************************)
CommitError(s) ==
    /\ ses[s].pc = "ran" /\ ses[s].failed
    /\ End(s, "error")
    /\ UNCHANGED <<hist, log, search, begun, faults, tainted>>

(***************************************************************************)
(* The metadata changed while the statement ran: its transaction is rolled *)
(* back and the request starts over, whatever the statement returned.      *)
(***************************************************************************)
VersionChanged(s) ==
    /\ ses[s].pc = "ran"
    /\ faults < MaxFaults
    /\ faults' = faults + 1
    /\ ses' = [ses EXCEPT ![s] = Fresh(@)]
    /\ UNCHANGED <<hist, log, search, begun, tainted>>

-----------------------------------------------------------------------------
(***************************************************************************)
(* OnPostCommit. The search store refuses to create a document that exists *)
(* and to update one that does not; replace writes it either way. The      *)
(* first refusal ends the loop with an error, and a delete that finds no   *)
(* document ends it without one.                                           *)
(***************************************************************************)
Refused(e) ==
    \/ e.op = "insert" /\ search[e.key] # None
    \/ e.op = "update" /\ search[e.key] = None

\* Mutant: the keys of the old object are not cleared.
PackedBlind(x, e) ==
    IF e.op # "update" THEN e.doc
    ELSE [e.doc EXCEPT !.object = @ \cup search[e.key].object]

(***************************************************************************)
(* An update merges into the document the index has: keys of the object    *)
(* stay unless the new document has them or PackSearchFields clears them.  *)
(***************************************************************************)
Packed(x, e) ==
    IF e.op # "update" THEN e.doc
    ELSE [e.doc EXCEPT !.object = @ \cup (search[e.key].object \ x.tentative)]

IndexEvent(s) ==
    /\ Pending(ses[s]) # <<>>
    /\ LET e == Head(Pending(ses[s]))
       IN  IF Refused(e) THEN
               /\ End(s, "not indexed")
               /\ UNCHANGED search
           ELSE IF e.op = "delete" /\ search[e.key] = None THEN
               /\ End(s, "ok")
               /\ UNCHANGED search
           ELSE
               /\ search' = [search EXCEPT ![e.key] = Packed(ses[s], e)]
               /\ ses' = [ses EXCEPT ![s].next = @ + 1]
    /\ UNCHANGED <<hist, log, begun, faults, tainted>>

PostCommitDone(s) ==
    /\ ses[s].pc = "post"
    /\ Pending(ses[s]) = <<>>
    /\ End(s, "ok")
    /\ UNCHANGED <<hist, log, search, begun, faults, tainted>>

(***************************************************************************)
(* The search store fails, the request is cancelled or the server stops:   *)
(* what is left of the events is not indexed.                              *)
(***************************************************************************)
PostCommitLost(s) ==
    /\ Pending(ses[s]) # <<>>
    /\ faults < MaxFaults
    /\ faults' = faults + 1
    /\ tainted' = tainted \cup KeysOf(Pending(ses[s]))
    /\ End(s, "not indexed")
    /\ UNCHANGED <<hist, log, search, begun>>

Next ==
    \E s \in Sessions :
        \/ \E st \in Statements : CreateImplicit(s, st)
        \/ BeginTransaction(s)
        \/ \E st \in Statements : Execute(s, st)
        \/ RollbackTransaction(s)
        \/ RunImplicit(s)
        \/ VersionChanged(s)
        \/ Commit(s)
        \/ CommitConflict(s)
        \/ CommitUnknown(s)
        \/ CommitError(s)
        \/ IndexEvent(s)
        \/ PostCommitDone(s)
        \/ PostCommitLost(s)

Spec == Init /\ [][Next]_vars

-----------------------------------------------------------------------------
Replies == {"none", "rolled back", "conflict", "unknown", "error", "not indexed", "ok"}

WriteSets == UNION {[D -> Docs \cup {None}] : D \in SUBSET Keys}

SessionType ==
    [pc : {"idle", "open", "ran", "post"}, explicit : BOOLEAN, id : 0 .. MaxTx, st : Statements \cup {None},
     snap : Nat, reads : SUBSET Keys, writes : WriteSets, events : Seq(Event), next : Nat \ {0},
     tentative : SUBSET Parts, stale : SUBSET Keys, failed : BOOLEAN, reply : Replies]

(***************************************************************************)
(* Type invariant.                                                         *)
(***************************************************************************)
TypeOK ==
    /\ hist \in Seq([id : 0 .. MaxTx, writes : WriteSets])
    /\ log \in Seq(Seq(Event))
    /\ search \in [Keys -> Docs \cup {None}]
    /\ begun \in 0 .. MaxTx
    /\ faults \in 0 .. MaxFaults
    /\ tainted \subseteq Keys
    /\ ses \in [Sessions -> SessionType]
    /\ \A s \in Sessions :
        /\ ses[s].id <= begun
        /\ ses[s].snap <= Len(hist)
        /\ ses[s].next <= Len(ses[s].events) + 1
        /\ DOMAIN ses[s].writes \subseteq KeysOf(ses[s].events)
        /\ ses[s].stale \subseteq KeysOf(ses[s].events)

(***************************************************************************)
(* The change log tells the whole truth: replaying its events from the     *)
(* first record, so that the last one for a key says what its document is, *)
(* gives the documents of the collection, whatever happened                *)
(* to the sessions (OnPreCommit writes the record in the transaction it    *)
(* describes).                                                             *)
(***************************************************************************)
Replayed(k) ==
    LET records == {i \in DOMAIN log : k \in KeysOf(log[i])}
        last == log[Max(records)]
    IN  IF records = {} THEN None ELSE last[Max({j \in DOMAIN last : last[j].key = k})].doc

LogReplays == \A k \in Keys : Replayed(k) = Documents[k]

(***************************************************************************)
(* The search index differs from the documents only for a known reason: a  *)
(* key that no session is still to index has its document in the search    *)
(* index, unless two transactions that wrote it were indexed at the same   *)
(* time, the indexing of one that did was lost, or one unset a field or    *)
(* set the objects of several documents (Update).                          *)
(***************************************************************************)
SearchInSync ==
    \A k \in Keys \ tainted :
        \/ \E s \in Sessions : k \in KeysOf(Pending(ses[s]))
        \/ search[k] = Documents[k]

(***************************************************************************)
(* Retries never repeat what was done: a request commits at most once, one *)
(* that is answered with success or with a failure to index has committed, *)
(* and one that is answered with an error of its statement, a conflict or  *)
(* a rollback has not.                                                     *)
(***************************************************************************)
CommitsOf(s) == {i \in DOMAIN hist : hist[i].id = ses[s].id}

RequestOnce ==
    \A s \in Sessions :
        /\ Cardinality(CommitsOf(s)) <= 1
        /\ ses[s].reply \in {"ok", "not indexed"} => CommitsOf(s) # {}
        /\ ses[s].reply \in {"error", "conflict", "rolled back"} => CommitsOf(s) = {}

=============================================================================
