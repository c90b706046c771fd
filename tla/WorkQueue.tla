------------------------------ MODULE WorkQueue ------------------------------
(***************************************************************************)
(* The queue of background work in the metadata store                      *)
(* (server/metadata/queue.go): items ordered by the time they vest at,     *)
(* workers that lease an item by moving it into the future, renew the      *)
(* lease and complete the item. Every operation is a transaction that may  *)
(* fail to commit. The worker's own copy of the item has changed by then,  *)
(* and a worker that went on with it could meet the row of another lease   *)
(* under the key it holds: the workers here drop the item and peek again.  *)
(***************************************************************************)
EXTENDS Integers, FiniteSets

CONSTANTS
    Workers,    \* background workers
    Ids,        \* identifiers of items
    NoItem,     \* a worker has no item, an item has no lease
    Delays,     \* how long an item is put off when it is added
    LeaseTimes, \* the leases workers ask for, at least one tick
    MaxTime,    \* bound on the clock
    MaxLeases   \* bound on the leases obtained

ASSUME QueueAssumption ==
    /\ Delays \subseteq Nat /\ LeaseTimes \subseteq Nat \ {0}
    /\ MaxTime \in Nat /\ MaxLeases \in Nat
    /\ NoItem \notin [id : Ids, vesting : Nat, lease : Nat \cup {NoItem}]

VARIABLES
    now,        \* the clock
    rows,       \* the rows of the queue's subspace
    added,      \* the items added so far
    done,       \* the items completed so far
    mine,       \* mine[w]: the QueueItem worker w keeps in memory
    holds,      \* the workers that leased their item
    leases      \* leases obtained so far

qvars == <<now, rows, added, done, mine, holds, leases>>

QueueItem(id, vesting, lease) == [id |-> id, vesting |-> vesting, lease |-> lease]
QueueItems == [id : Ids, vesting : Nat, lease : (1 .. MaxLeases) \cup {NoItem}]

QInit ==
    /\ now = 0
    /\ rows = {} /\ added = {} /\ done = {}
    /\ mine = [w \in Workers |-> NoItem]
    /\ holds = {}
    /\ leases = 0

(***************************************************************************)
(* The key of a row is the time it vests at, its priority and its          *)
(* identifier; the priorities are all 0.                                   *)
(***************************************************************************)
SameKey(a, b) == a.vesting = b.vesting /\ a.id = b.id

\* Mutant: the row is looked up by its identifier alone.
FindById(item) == \E r \in rows : r.id = item.id

\* Find returns the caller's own item when a row has its key.
Find(item) == \E r \in rows : SameKey(r, item)

\* Mutant: the row stays under the key it had.
DequeueNothing(q, item) == q

Dequeue(q, item) == {r \in q : ~SameKey(r, item)}

\* The item vests a delay from now on; the row under that key is replaced.
Vested(item, delay) == [item EXCEPT !.vesting = now + delay]
Enqueued(q, item) == Dequeue(q, item) \cup {item}

Enqueue(id, delay) ==
    /\ id \notin added
    /\ added' = added \cup {id}
    /\ rows' = Enqueued(rows, Vested(QueueItem(id, 0, NoItem), delay))
    /\ UNCHANGED <<now, done, mine, holds, leases>>

(***************************************************************************)
(* Peek reads the rows up to the current time in the order of their keys;  *)
(* the worker takes one of them.                                           *)
(***************************************************************************)
Peek(w) ==
    /\ \E r \in {q \in rows : q.vesting <= now} : mine' = [mine EXCEPT ![w] = r]
    /\ holds' = holds \ {w}
    /\ UNCHANGED <<now, rows, added, done, leases>>

ObtainLease(w) ==
    /\ mine[w] # NoItem
    /\ Find(mine[w])
    /\ leases < MaxLeases
    /\ leases' = leases + 1
    /\ \E t \in LeaseTimes :
        LET item == Vested([mine[w] EXCEPT !.lease = leases'], t)
        IN  /\ mine' = [mine EXCEPT ![w] = item]
            /\ rows' = Enqueued(Dequeue(rows, mine[w]), item)
    /\ holds' = holds \cup {w}
    /\ UNCHANGED <<now, added, done>>

(***************************************************************************)
(* RenewLease and Complete compare the lease of the item found with the    *)
(* lease of the item asked for, which is the same item. Workers call them  *)
(* for items they leased.                                                  *)
(***************************************************************************)
RenewLease(w) ==
    /\ w \in holds
    /\ Find(mine[w])
    /\ \E t \in LeaseTimes :
        LET item == Vested(mine[w], t)
        IN  /\ mine' = [mine EXCEPT ![w] = item]
            /\ rows' = Enqueued(Dequeue(rows, mine[w]), item)
    /\ UNCHANGED <<now, added, done, holds, leases>>

Complete(w) ==
    /\ w \in holds
    /\ Find(mine[w])
    /\ rows' = Dequeue(rows, mine[w])
    /\ done' = done \cup {mine[w].id}
    /\ mine' = [mine EXCEPT ![w] = NoItem]
    /\ holds' = holds \ {w}
    /\ UNCHANGED <<now, added, leases>>

(***************************************************************************)
(* An operation finds no row and returns ErrNotFound, its transaction does *)
(* not commit, or the worker stops: it has no item any more.               *)
(***************************************************************************)
ErrNotFound(w) ==
    /\ mine[w] # NoItem
    /\ mine' = [mine EXCEPT ![w] = NoItem]
    /\ holds' = holds \ {w}
    /\ UNCHANGED <<now, rows, added, done, leases>>

Tick ==
    /\ now < MaxTime
    /\ now' = now + 1
    /\ UNCHANGED <<rows, added, done, mine, holds, leases>>

QNext ==
    \/ \E id \in Ids, delay \in Delays : Enqueue(id, delay)
    \/ \E w \in Workers : Peek(w) \/ ObtainLease(w) \/ RenewLease(w) \/ Complete(w) \/ ErrNotFound(w)
    \/ Tick

-----------------------------------------------------------------------------
(***************************************************************************)
(* Type invariant of the queue.                                            *)
(***************************************************************************)
QueueTypeOK ==
    /\ now \in 0 .. MaxTime /\ leases \in 0 .. MaxLeases
    /\ rows \subseteq QueueItems
    /\ added \subseteq Ids /\ done \subseteq Ids
    /\ mine \in [Workers -> QueueItems \cup {NoItem}]
    /\ holds \subseteq {w \in Workers : mine[w] # NoItem}

(***************************************************************************)
(* An item that was added is in the queue exactly once until it is         *)
(* completed, through every lease, renewal and failed transaction (Dequeue *)
(* followed by Enqueue in ObtainLease and RenewLease).                     *)
(***************************************************************************)
ItemsKept ==
    \A id \in Ids :
        Cardinality({r \in rows : r.id = id}) = (IF id \in added \ done THEN 1 ELSE 0)

(***************************************************************************)
(* No two workers have a lease of the same item that has not run out (the  *)
(* time an item vests at hides it from Peek; Find refuses a stale copy).   *)
(***************************************************************************)
LeaseExclusive ==
    \A v, w \in holds : v # w /\ mine[v].id = mine[w].id =>
        mine[v].vesting <= now \/ mine[w].vesting <= now

(***************************************************************************)
(* Only the worker whose lease is the last one completes an item: a worker *)
(* whose lease ran out and was taken by another one cannot remove the row  *)
(* (Complete through Find).                                                *)
(***************************************************************************)
CompletedByHolder ==
    [][\A r \in rows : r.id \in done' \ done => \E w \in holds : mine[w] = r]_qvars

=============================================================================
