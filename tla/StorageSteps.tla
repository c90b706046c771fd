---------------------------- MODULE StorageSteps ----------------------------
(***************************************************************************)
(* The parts of the storage that are proved correct: for each of them the  *)
(* inductive invariant, that it holds at the start and that every step of  *)
(* the part keeps it.                                                      *)
(***************************************************************************)
EXTENDS WorkQueue, TxSessions, Namespaces, StoreCalls, FiniteSetTheorems, WellFoundedInduction, TLAPS

-----------------------------------------------------------------------------
(* The work queue.                                                          *)

\* The rows are those of the items added and not completed, one for each.
RowsKept ==
    /\ \A r, s \in rows : r.id = s.id => r = s
    /\ done \subseteq added
    /\ \A r \in rows : r.id \in added \ done
    /\ \A id \in added \ done : \E r \in rows : r.id = id

\* A copy a worker keeps is the row itself, or its time is over and no row
\* has its key: a row that replaces another one vests later than now.
CopiesSound ==
    \A w \in Workers : mine[w] # NoItem =>
        /\ mine[w].id \in added
        /\ mine[w] \in rows \/ (mine[w].vesting <= now /\ ~Find(mine[w]))

\* LeaseExclusive for all that have a copy, leased or only peeked at.
CopiesExclusive ==
    \A v, w \in Workers : v # w /\ mine[v] # NoItem /\ mine[w] # NoItem /\ mine[v].id = mine[w].id =>
        mine[v].vesting <= now \/ mine[w].vesting <= now

\* The inductive invariant of the work queue.
QueueInv == QueueTypeOK /\ RowsKept /\ CopiesSound /\ CopiesExclusive

\* An item has one row at most, as many as ItemsKept counts.
LEMMA OneRow ==
    ASSUME QueueInv
    PROVE  ItemsKept /\ LeaseExclusive
  <1>1. ASSUME NEW id \in Ids, id \in added \ done
        PROVE  Cardinality({r \in rows : r.id = id}) = 1
    <2>1. PICK r \in rows : r.id = id
      BY <1>1, Zenon DEF QueueInv, RowsKept
    <2>2. {s \in rows : s.id = id} = {r}
      BY <2>1, Zenon DEF QueueInv, RowsKept
    <2> QED BY <2>2, FS_Singleton, Zenon
  <1>2. ASSUME NEW id \in Ids, id \notin added \ done
        PROVE  Cardinality({r \in rows : r.id = id}) = 0
    <2>1. {s \in rows : s.id = id} = {}
      BY <1>2 DEF QueueInv, RowsKept
    <2> QED BY <2>1, FS_EmptySet, Zenon
  <1>3. ItemsKept
    BY <1>1, <1>2, Zenon DEF ItemsKept
  <1>4. LeaseExclusive
    BY Zenon DEF QueueInv, QueueTypeOK, CopiesExclusive, LeaseExclusive
  <1> QED BY <1>3, <1>4, Zenon

\* The queue begins empty.
LEMMA QueueStarts ==
    ASSUME QInit
    PROVE  QueueInv
  BY QueueAssumption DEF QInit, QueueInv, QueueTypeOK, RowsKept, CopiesSound, CopiesExclusive

\* A copy that Find finds a row for is that row.
LEMMA FoundIsRow ==
    ASSUME QueueInv, NEW w \in Workers, mine[w] # NoItem, Find(mine[w])
    PROVE  mine[w] \in rows /\ mine[w] \in QueueItems
  BY Zenon DEF QueueInv, QueueTypeOK, CopiesSound

\* The item of a lease vests later than now.
LEMMA VestedLater ==
    ASSUME QueueInv, NEW a \in QueueItems, NEW t \in LeaseTimes
    PROVE  Vested(a, t) \in QueueItems /\ Vested(a, t).id = a.id /\ Vested(a, t).vesting > now
  <1>1. now + t \in Nat /\ now + t > now
    BY QueueAssumption DEF QueueInv, QueueTypeOK
  <1> QED BY <1>1, Zenon DEF Vested, QueueItems

\* ObtainLease and RenewLease: the row a worker found is replaced by one that
\* vests later than now, and the worker keeps a copy of it.
LEMMA LeaseStep ==
    ASSUME QueueInv, NEW w \in Workers, mine[w] # NoItem, Find(mine[w]),
           NEW item \in QueueItems, item.id = mine[w].id, item.vesting > now,
           mine' = [mine EXCEPT ![w] = item],
           rows' = Enqueued(Dequeue(rows, mine[w]), item),
           UNCHANGED <<now, added, done>>, leases' \in 0 .. MaxLeases, holds' \subseteq holds \cup {w}
    PROVE  QueueInv'
  <1>1. mine[w] \in rows /\ mine[w] \in QueueItems
    BY FoundIsRow, Zenon
  <1>2. item # NoItem
    BY QueueAssumption DEF QueueItems
  <1>3. rows' = {r \in rows : r # mine[w]} \cup {item}
    BY <1>1, <1>2 DEF Enqueued, Dequeue, SameKey, QueueInv, RowsKept
  <1>5. QueueTypeOK'
    BY <1>2, <1>3, Zenon DEF QueueInv, QueueTypeOK
  <1>6. RowsKept'
    BY <1>1, <1>2, <1>3 DEF QueueInv, RowsKept
  <1>7. ASSUME NEW v \in Workers \ {w}, mine[v] # NoItem, mine[v].id = mine[w].id
        PROVE  mine[v].vesting <= now
    BY <1>1, <1>7, Zenon DEF QueueInv, QueueTypeOK, QueueItems, RowsKept, CopiesSound, CopiesExclusive
  <1>8. CopiesSound'
    <2>1. SUFFICES ASSUME NEW v \in Workers, mine'[v] # NoItem
                   PROVE  /\ mine'[v].id \in added'
                          /\ mine'[v] \in rows' \/ (mine'[v].vesting <= now' /\ ~Find(mine[v])')
      BY Zenon DEF CopiesSound
    <2>2. CASE v = w
      BY <1>1, <1>2, <1>3, <2>2, Zenon DEF QueueInv, QueueTypeOK, RowsKept
    <2>3. CASE v # w
      <3>1. mine'[v] = mine[v] /\ mine[v] # NoItem /\ mine[v] \in QueueItems
        BY <2>1, <2>3, Zenon DEF QueueInv, QueueTypeOK
      <3>2. CASE mine[v].id = mine[w].id
        <4>1. mine[v].vesting <= now
          BY <1>7, <2>3, <3>1, <3>2, Zenon
        <4>2. ASSUME mine[v] \notin rows'
              PROVE  \A r \in rows' : ~SameKey(r, mine[v])
          BY <1>1, <1>2, <1>3, <3>1, <3>2, <4>1, <4>2
             DEF SameKey, QueueInv, QueueTypeOK, QueueItems, RowsKept, CopiesSound, Find
        <4> QED BY <3>1, <4>1, <4>2 DEF QueueInv, CopiesSound, Find
      <3>3. CASE mine[v].id # mine[w].id
        BY <1>2, <1>3, <3>1, <3>3 DEF QueueInv, CopiesSound, Find, SameKey
      <3> QED BY <3>2, <3>3, Zenon
    <2> QED BY <2>2, <2>3, Zenon
  <1>9. CopiesExclusive'
    BY <1>2, <1>7, Zenon DEF QueueInv, QueueTypeOK, CopiesExclusive
  <1> QED BY <1>5, <1>6, <1>8, <1>9, Zenon DEF QueueInv

\* Every operation of the queue keeps it.
LEMMA QueueStep ==
    ASSUME QueueInv, QNext
    PROVE  QueueInv'
  <1>1. ASSUME NEW id \in Ids, NEW delay \in Delays, Enqueue(id, delay)
        PROVE  QueueInv'
    <2> DEFINE item == Vested(QueueItem(id, 0, NoItem), delay)
    <2>1. item \in QueueItems /\ item.id = id
      BY QueueAssumption DEF Vested, QueueItem, QueueItems, QueueInv, QueueTypeOK
    <2>2. rows' = {r \in rows : ~SameKey(r, item)} \cup {item} /\ id \notin added
      BY <1>1, Zenon DEF Enqueue, Enqueued, Dequeue
    <2> HIDE DEF item
    <2>3. rows' = rows \cup {item} /\ added' = added \cup {id} /\ UNCHANGED <<now, done, mine, holds, leases>>
      BY <1>1, <2>1, <2>2, Zenon DEF Enqueue, SameKey, QueueInv, RowsKept
    <2>4. QueueTypeOK'
      BY <2>1, <2>3, Zenon DEF QueueInv, QueueTypeOK
    <2>5. RowsKept'
      BY <2>1, <2>2, <2>3, Zenon DEF QueueInv, RowsKept
    <2>6. CopiesSound'
      BY <2>1, <2>2, <2>3, Zenon DEF QueueInv, CopiesSound, Find, SameKey
    <2>7. CopiesExclusive'
      BY <2>3, Zenon DEF QueueInv, CopiesExclusive
    <2> QED BY <2>4, <2>5, <2>6, <2>7, Zenon DEF QueueInv
  <1>2. ASSUME NEW w \in Workers, Peek(w)
        PROVE  QueueInv'
    <2>1. PICK r \in rows : r.vesting <= now /\ mine' = [mine EXCEPT ![w] = r]
      BY <1>2, Zenon DEF Peek
    <2>2. UNCHANGED <<now, rows, added, done, leases>> /\ holds' = holds \ {w}
      BY <1>2, Zenon DEF Peek
    <2>3. QueueTypeOK'
      BY <2>1, <2>2, Zenon DEF QueueInv, QueueTypeOK
    <2>4. RowsKept'
      BY <2>2, Zenon DEF QueueInv, RowsKept
    <2>5. CopiesSound' /\ CopiesExclusive'
      BY <2>1, <2>2, Zenon DEF QueueInv, QueueTypeOK, RowsKept, CopiesSound, CopiesExclusive, Find
    <2> QED BY <2>3, <2>4, <2>5, Zenon DEF QueueInv
  <1>3. ASSUME NEW w \in Workers, ObtainLease(w)
        PROVE  QueueInv'
    <2> DEFINE leased == [mine[w] EXCEPT !.lease = leases']
    <2>1. leases' \in 1 .. MaxLeases /\ mine[w] \in QueueItems
      BY <1>3, QueueAssumption DEF ObtainLease, QueueInv, QueueTypeOK
    <2>2. leased \in QueueItems /\ leased.id = mine[w].id
      BY <2>1, Zenon DEF QueueItems
    <2>3. PICK t \in LeaseTimes :
              /\ mine' = [mine EXCEPT ![w] = Vested(leased, t)]
              /\ rows' = Enqueued(Dequeue(rows, mine[w]), Vested(leased, t))
      BY <1>3, Zenon DEF ObtainLease
    <2>4. UNCHANGED <<now, added, done>> /\ leases' \in 0 .. MaxLeases /\ holds' \subseteq holds \cup {w}
      BY <1>3, <2>1 DEF ObtainLease
    <2> HIDE DEF leased
    <2> QED BY <1>3, <2>2, <2>3, <2>4, VestedLater, LeaseStep, Zenon DEF ObtainLease
  <1>4. ASSUME NEW w \in Workers, RenewLease(w)
        PROVE  QueueInv'
    <2>1. mine[w] # NoItem /\ mine[w] \in QueueItems
      BY <1>4, Zenon DEF RenewLease, QueueInv, QueueTypeOK
    <2>2. PICK t \in LeaseTimes :
              /\ mine' = [mine EXCEPT ![w] = Vested(mine[w], t)]
              /\ rows' = Enqueued(Dequeue(rows, mine[w]), Vested(mine[w], t))
      BY <1>4, Zenon DEF RenewLease
    <2>3. UNCHANGED <<now, added, done>> /\ leases' \in 0 .. MaxLeases /\ holds' \subseteq holds \cup {w}
      BY <1>4, Zenon DEF RenewLease, QueueInv, QueueTypeOK
    <2> QED BY <1>4, <2>1, <2>2, <2>3, VestedLater, LeaseStep, Zenon DEF RenewLease
  <1>5. ASSUME NEW w \in Workers, Complete(w)
        PROVE  QueueInv'
    <2>1. mine[w] # NoItem /\ mine[w] \in rows
      BY <1>5, FoundIsRow, Zenon DEF Complete, QueueInv, QueueTypeOK
    <2>2. rows' = {r \in rows : r # mine[w]}
      BY <1>5, <2>1, Zenon DEF Complete, Dequeue, SameKey, QueueInv, RowsKept
    <2>3. QueueTypeOK'
      BY <1>5, <2>1, <2>2, Zenon DEF Complete, QueueInv, QueueTypeOK, QueueItems
    <2>4. RowsKept'
      BY <1>5, <2>1, <2>2, Zenon DEF Complete, QueueInv, RowsKept
    <2>5. CopiesExclusive'
      BY <1>5, Zenon DEF Complete, QueueInv, QueueTypeOK, CopiesExclusive
    <2>6. CopiesSound'
      BY <1>5, <2>1, <2>2, Zenon DEF Complete, QueueInv, QueueTypeOK, RowsKept, CopiesSound, CopiesExclusive, Find, SameKey
    <2> QED BY <2>3, <2>4, <2>5, <2>6, Zenon DEF QueueInv
  <1>6. ASSUME NEW w \in Workers, ErrNotFound(w)
        PROVE  QueueInv'
    BY <1>6, Zenon DEF ErrNotFound, QueueInv, QueueTypeOK, RowsKept, CopiesSound, CopiesExclusive, Find
  <1>7. ASSUME Tick
        PROVE  QueueInv'
    BY <1>7, QueueAssumption DEF Tick, QueueInv, QueueTypeOK, QueueItems, RowsKept, CopiesSound, CopiesExclusive, Find
  <1> QED BY <1>1, <1>2, <1>3, <1>4, <1>5, <1>6, <1>7, Zenon DEF QNext

\* Complete removes the row its worker has a copy of.
LEMMA CompleteStep ==
    ASSUME QueueInv, QNext
    PROVE  \A r \in rows : r.id \in done' \ done => \E w \in holds : mine[w] = r
  <1>1. ASSUME NEW w \in Workers, Complete(w), NEW r \in rows, r.id \in done' \ done
        PROVE  mine[w] = r /\ w \in holds
    <2>1. mine[w] \in rows /\ w \in holds /\ r.id = mine[w].id
      BY <1>1, FoundIsRow, Zenon DEF Complete, QueueInv, QueueTypeOK
    <2> QED BY <2>1, Zenon DEF QueueInv, RowsKept
  <1>2. done' = done \/ \E w \in Workers : Complete(w)
    BY Zenon DEF QNext, Enqueue, Peek, ObtainLease, RenewLease, ErrNotFound, Tick
  <1> QED BY <1>1, <1>2, Zenon

\* What a step of another part leaves alone keeps the invariant.
LEMMA QueueStays ==
    ASSUME QueueInv, UNCHANGED qvars
    PROVE  QueueInv'
  BY Zenon DEF qvars, QueueInv, QueueTypeOK, RowsKept, CopiesSound, CopiesExclusive, Find

-----------------------------------------------------------------------------
(* A transaction whose requests overlap.                                    *)

\* The writes that statements were told they made.
ToldWrites == {w \in TReqs \X (1 .. TWrites) : w[2] <= treq[w[1]].wrote}

\* A commit that was told it did.
CommittedOk(q) == q.kind = "commit" /\ q.reply = "ok"

\* What holds of a request at the place it is at.
RequestSound(q) ==
    /\ q.pc = "idle" => q.wrote = 0
    /\ q.pc \in {"idle", "found", "commit"} => q.reply = "none"
    /\ q.kind = "statement" => (q.pc = "found" => q.wrote < TWrites) /\ (q.reply = "ok" => q.wrote = TWrites)
    /\ q.kind # "statement" => q.wrote = 0
    /\ q.kind \in {"commit", "rollback"} /\ q.pc = "done" => ~tracked
    /\ q.pc = "commit" => q.kind = "commit" /\ (bumps /\ Active => Version \in session.kTx)
    /\ q.pc = "remove" => q.kind \in {"commit", "rollback"} /\ ~Active
    /\ CommittedOk(q) => ~Active /\ durable # {}

\* The store's transaction has what statements were told, and so has what it
\* committed: nothing is written once the session has ended.
WritesTold ==
    /\ Active => session.kTx \ {Version} = ToldWrites
    /\ \A d \in durable : ~Active /\ d \ {Version} = ToldWrites /\ (bumps => Version \in d)
    /\ \A d, e \in durable : d = e
    /\ ~tracked => ~Active

\* No two commits are told they did.
OneCommitOk == \A p, q \in TReqs : CommittedOk(treq[p]) /\ CommittedOk(treq[q]) => p = q

\* The inductive invariant of a transaction whose requests overlap.
SharedInv == TxTypeOK /\ WritesTold /\ OneCommitOk /\ \A r \in TReqs : RequestSound(treq[r])

\* A set of elements that are all the same has one at most.
LEMMA AtMostOne ==
    ASSUME NEW S, \A x, y \in S : x = y
    PROVE  Cardinality(S) <= 1
  <1>1. CASE S = {}
    BY <1>1, FS_EmptySet
  <1>2. CASE S # {}
    <2>1. PICK x \in S : S = {x}
      BY <1>2, Zenon
    <2> QED BY <2>1, FS_Singleton
  <1> QED BY <1>1, <1>2, Zenon

\* What the invariant says of commits and of what is left behind.
LEMMA SharedIsCorrect ==
    ASSUME SharedInv
    PROVE  CommitIsWhole /\ EndedIsForgotten
  <1> USE DEF SharedInv
  <1>1. Cardinality(durable) <= 1
    BY AtMostOne, Zenon DEF WritesTold
  <1>2. Cardinality(Replied("commit", "ok")) <= 1
    <2>1. \A p, q \in Replied("commit", "ok") : p = q
      BY Zenon DEF Replied, OneCommitOk, CommittedOk
    <2> QED BY <2>1, AtMostOne, Zenon
  <1>3. ASSUME NEW d \in durable
        PROVE  /\ Replied("statement", "ok") \X (1 .. TWrites) \subseteq d
               /\ bumps => Version \in d
    <2>1. Replied("statement", "ok") \X (1 .. TWrites) \subseteq ToldWrites
      BY DEF Replied, ToldWrites, RequestSound
    <2> QED BY <2>1, Zenon DEF WritesTold
  <1>4. Replied("commit", "ok") # {} => durable # {}
    BY Zenon DEF Replied, RequestSound, CommittedOk
  <1>5. CommitIsWhole
    BY <1>1, <1>2, <1>3, <1>4, Zenon DEF CommitIsWhole
  <1>6. \A d \in durable : \A w \in d \ {Version} : w[2] <= treq[w[1]].wrote
    BY Zenon DEF WritesTold, ToldWrites
  <1>7. EndedIsForgotten
    BY <1>6, Zenon DEF EndedIsForgotten, WritesTold, RequestSound
  <1> QED BY <1>5, <1>7, Zenon

\* The transaction begins with no write and no request.
LEMMA SharedStarts ==
    ASSUME TInit
    PROVE  SharedInv
  <1> USE TAssumption DEF TInit, Idle
  <1>1. TxTypeOK
    BY DEF TxTypeOK, Writes
  <1>2. WritesTold
    BY DEF WritesTold, ToldWrites, Active
  <1>3. OneCommitOk /\ \A r \in TReqs : RequestSound(treq[r])
    BY Zenon DEF OneCommitOk, RequestSound, CommittedOk
  <1> QED BY <1>1, <1>2, <1>3, Zenon DEF SharedInv

\* A step of a request that leaves the session and the store alone and makes
\* no write keeps what is known of the writes.
LEMMA WritesKept ==
    ASSUME WritesTold, UNCHANGED <<session, bumps, durable>>, tracked' = tracked \/ ~Active,
           \A q \in TReqs : treq'[q].wrote = treq[q].wrote
    PROVE  WritesTold'
  <1>1. ToldWrites' = ToldWrites
    BY Zenon DEF ToldWrites
  <1> QED BY <1>1, Zenon DEF WritesTold, Active

\* Every step of a request keeps it.
LEMMA SharedStep ==
    ASSUME SharedInv, TNext
    PROVE  SharedInv'
  <1> USE TAssumption
  <1>0. /\ TxTypeOK /\ WritesTold /\ OneCommitOk
        /\ \A q \in TReqs : RequestSound(treq[q])
        /\ Active <=> session.kTx # NoKTx
        /\ Active => session.kTx \in SUBSET Writes
    BY NoKTxAssumption DEF SharedInv, TxTypeOK, Active, Ended
  <1>1. ASSUME NEW r \in TReqs, NEW kind \in {"statement", "commit", "rollback"}, GetSession(r, kind)
        PROVE  SharedInv'
    <2> DEFINE x == IF tracked THEN [Idle EXCEPT !.kind = kind, !.pc = "found"]
                    ELSE [Idle EXCEPT !.kind = kind, !.pc = "done", !.reply = "gone"]
    <2>0. x = [kind |-> kind, pc |-> IF tracked THEN "found" ELSE "done", wrote |-> 0,
               reply |-> IF tracked THEN "none" ELSE "gone"]
      BY Zenon DEF Idle
    <2>1. treq' = [treq EXCEPT ![r] = x] /\ UNCHANGED <<session, tracked, bumps, durable>> /\ treq[r].pc = "idle"
      BY <1>1, Zenon DEF GetSession
    <2> HIDE DEF x
    <2>2. TxTypeOK' /\ \A q \in TReqs : treq'[q].wrote = treq[q].wrote
      BY <1>0, <2>0, <2>1 DEF TxTypeOK, RequestSound
    <2>3. WritesTold'
      BY <1>0, <2>1, <2>2, WritesKept, Zenon
    <2>4. OneCommitOk' /\ \A q \in TReqs : RequestSound(treq[q])'
      BY <1>0, <2>0, <2>1 DEF TxTypeOK, OneCommitOk, RequestSound, CommittedOk, Active
    <2> QED BY <2>2, <2>3, <2>4, Zenon DEF SharedInv
  <1>2. ASSUME NEW r \in TReqs, WriteDocument(r), Active
        PROVE  SharedInv'
    <2> DEFINE n == treq[r].wrote + 1
               q == IF n = TWrites THEN [treq[r] EXCEPT !.wrote = n, !.pc = "done", !.reply = "ok"]
                    ELSE [treq[r] EXCEPT !.wrote = n]
    <2>1. /\ n \in 1 .. TWrites /\ <<r, n>> \in Writes /\ <<r, n>> # Version
          /\ treq[r].kind = "statement" /\ durable = {}
      BY <1>0, <1>2 DEF WriteDocument, RequestSound, TxTypeOK, WritesTold, Writes, Version
    <2>2. /\ session' = [session EXCEPT !.kTx = @ \cup {<<r, n>>}]
          /\ treq' = [treq EXCEPT ![r] = q]
          /\ UNCHANGED <<tracked, bumps, durable>> /\ treq[r].pc = "found"
      BY <1>2, Zenon DEF WriteDocument
    <2>7. /\ q.kind = "statement" /\ q.wrote = n
          /\ q.pc = IF n = TWrites THEN "done" ELSE "found"
          /\ q.reply = IF n = TWrites THEN "ok" ELSE "none"
          /\ q \in [kind : {"statement"}, pc : {"found", "done"}, wrote : 0 .. TWrites, reply : {"none", "ok"}]
      <3>1. /\ treq[r] \in [kind : {"statement"}, pc : {"found"}, wrote : 0 .. TWrites, reply : {"none"}]
            /\ n \in 0 .. TWrites
        BY <1>0, <2>1, <2>2 DEF TxTypeOK, RequestSound
      <3> HIDE DEF n
      <3>2. CASE n = TWrites
        <4>1. q = [treq[r] EXCEPT !.wrote = n, !.pc = "done", !.reply = "ok"]
          BY <3>2, Zenon
        <4> HIDE DEF q
        <4> QED BY <3>1, <3>2, <4>1, Zenon
      <3>3. CASE n # TWrites
        <4>1. q = [treq[r] EXCEPT !.wrote = n]
          BY <3>3, Zenon
        <4> HIDE DEF q
        <4> QED BY <3>1, <3>3, <4>1, Zenon
      <3> QED BY <3>2, <3>3, Zenon
    <2>3. /\ session' \in [state : {"active"}, kTx : SUBSET Writes]
          /\ session'.kTx = session.kTx \cup {<<r, n>>}
      BY <1>0, <1>2, <2>1, <2>2, Zenon DEF TxTypeOK, Active, Ended
    <2> HIDE DEF n, q
    <2>4. TxTypeOK'
      BY <1>0, <2>1, <2>2, <2>3, <2>7, Zenon DEF TxTypeOK
    <2>5. WritesTold'
      <3>1. ToldWrites' = ToldWrites \cup {<<r, n>>}
        BY <1>0, <2>1, <2>2, <2>7, SMTT(40) DEF ToldWrites, TxTypeOK, n
      <3> QED BY <1>0, <1>2, <2>1, <2>2, <2>3, <3>1, Zenon DEF WritesTold, Active
    <2>6. OneCommitOk' /\ \A p \in TReqs : RequestSound(treq[p])'
      BY <1>0, <1>2, <2>1, <2>2, <2>3, <2>7 DEF TxTypeOK, OneCommitOk, RequestSound, CommittedOk, Active
    <2> QED BY <2>4, <2>5, <2>6, Zenon DEF SharedInv
  <1>3. ASSUME NEW r \in TReqs, WriteDocument(r), ~Active
        PROVE  SharedInv'
    <2>1. /\ treq' = [treq EXCEPT ![r].pc = "done", ![r].reply = "gone"] /\ treq[r].kind = "statement"
          /\ UNCHANGED <<session, tracked, bumps, durable>>
      BY <1>3, Zenon DEF WriteDocument
    <2>2. TxTypeOK' /\ \A q \in TReqs : treq'[q].wrote = treq[q].wrote
      BY <1>0, <2>1, ZenonT(40) DEF TxTypeOK
    <2>3. WritesTold'
      BY <1>0, <2>1, <2>2, WritesKept, Zenon
    <2>4. OneCommitOk' /\ \A q \in TReqs : RequestSound(treq[q])'
      BY <1>0, <2>1 DEF TxTypeOK, OneCommitOk, RequestSound, CommittedOk, Active
    <2> QED BY <2>2, <2>3, <2>4, Zenon DEF SharedInv
  <1>4. ASSUME NEW r \in TReqs, IncrementVersion(r)
        PROVE  SharedInv'
    <2>1. UNCHANGED <<tracked, bumps, durable>> /\ treq[r].kind = "commit" /\ treq[r].pc = "found"
      BY <1>4, Zenon DEF IncrementVersion
    <2>2. CASE bumps /\ Active
      <3>1. /\ session' = [session EXCEPT !.kTx = @ \cup {Version}]
            /\ treq' = [treq EXCEPT ![r].pc = "commit"]
        BY <1>4, <2>2, Zenon DEF IncrementVersion
      <3>2. /\ session' \in [state : {"active"}, kTx : SUBSET Writes]
            /\ session'.kTx = session.kTx \cup {Version}
        BY <1>0, <2>2, <3>1, Zenon DEF TxTypeOK, Active, Ended, Writes
      <3>3. TxTypeOK'
        BY <1>0, <2>1, <3>1, <3>2 DEF TxTypeOK
      <3>4. WritesTold'
        <4>1. ToldWrites' = ToldWrites
          BY <1>0, <3>1 DEF ToldWrites, TxTypeOK
        <4> QED BY <1>0, <2>1, <2>2, <3>2, <4>1, Zenon DEF WritesTold, Active
      <3>5. OneCommitOk' /\ \A q \in TReqs : RequestSound(treq[q])'
        BY <1>0, <2>1, <2>2, <3>1, <3>2 DEF TxTypeOK, OneCommitOk, RequestSound, CommittedOk, Active
      <3> QED BY <3>3, <3>4, <3>5, Zenon DEF SharedInv
    <2>3. CASE ~(bumps /\ Active)
      <3>1. /\ UNCHANGED session
            /\ \/ ~bumps /\ treq' = [treq EXCEPT ![r].pc = "commit"]
               \/ ~Active /\ treq' = [treq EXCEPT ![r].pc = "remove", ![r].reply = "gone"]
        BY <1>4, <2>3, Zenon DEF IncrementVersion
      <3>2. TxTypeOK' /\ \A q \in TReqs : treq'[q].wrote = treq[q].wrote
        BY <1>0, <2>1, <3>1 DEF TxTypeOK
      <3>3. WritesTold'
        BY <1>0, <2>1, <3>1, <3>2, WritesKept, Zenon
      <3>4. OneCommitOk' /\ \A q \in TReqs : RequestSound(treq[q])'
        BY <1>0, <2>1, <3>1 DEF TxTypeOK, OneCommitOk, RequestSound, CommittedOk, Active
      <3> QED BY <3>2, <3>3, <3>4, Zenon DEF SharedInv
    <2> QED BY <2>2, <2>3, Zenon
  <1>5. ASSUME NEW r \in TReqs, CommitSession(r)
        PROVE  SharedInv'
    <2>1. /\ session' = Ended /\ UNCHANGED <<tracked, bumps>> /\ ~Active'
          /\ treq[r].pc = "commit" /\ treq[r].kind = "commit" /\ treq[r].reply = "none"
      BY <1>0, <1>5, Zenon DEF CommitSession, Active, Ended, RequestSound
    <2>2. PICK a \in {"ok", "error", "panic"} :
             /\ treq' = [treq EXCEPT ![r].pc = "remove", ![r].reply = a]
             /\ durable' = durable \/ (Active /\ durable' = durable \cup {session.kTx})
             /\ a = "ok" => Active /\ session.kTx \in durable'
      BY <1>0, <1>5, Zenon DEF CommitSession
    <2>3. Active => durable = {} /\ session.kTx \in SUBSET Writes
                      /\ session.kTx \ {Version} = ToldWrites /\ (bumps => Version \in session.kTx)
      BY <1>0, <2>1, Zenon DEF WritesTold, RequestSound
    <2>4. TxTypeOK'
      BY <1>0, <2>1, <2>2, <2>3 DEF TxTypeOK
    <2>5. WritesTold'
      <3>1. ToldWrites' = ToldWrites
        BY <1>0, <2>2 DEF ToldWrites, TxTypeOK
      <3> QED BY <1>0, <2>1, <2>2, <2>3, <3>1, Zenon DEF WritesTold
    <2>6. OneCommitOk' /\ \A q \in TReqs : RequestSound(treq[q])'
      BY <1>0, <2>1, <2>2 DEF TxTypeOK, OneCommitOk, RequestSound, CommittedOk
    <2> QED BY <2>4, <2>5, <2>6, Zenon DEF SharedInv
  <1>6. ASSUME NEW r \in TReqs, RollbackSession(r)
        PROVE  SharedInv'
    <2>1. /\ session' = Ended \/ (session' = session /\ ~Active)
          /\ UNCHANGED <<tracked, bumps, durable>> /\ ~Active'
          /\ treq[r].kind = "rollback" /\ treq' = [treq EXCEPT ![r].pc = "remove", ![r].reply = "ok"]
      BY <1>0, <1>6, Zenon DEF RollbackSession, Active, Ended
    <2>2. TxTypeOK'
      BY <1>0, <2>1, ZenonT(40) DEF TxTypeOK
    <2>3. WritesTold'
      <3>1. ToldWrites' = ToldWrites
        BY <1>0, <2>1 DEF ToldWrites, TxTypeOK
      <3> QED BY <1>0, <2>1, <3>1, Zenon DEF WritesTold
    <2>4. OneCommitOk' /\ \A q \in TReqs : RequestSound(treq[q])'
      BY <1>0, <2>1 DEF TxTypeOK, OneCommitOk, RequestSound, CommittedOk
    <2> QED BY <2>2, <2>3, <2>4, Zenon DEF SharedInv
  <1>7. ASSUME NEW r \in TReqs, RemoveSession(r)
        PROVE  SharedInv'
    <2>1. /\ tracked' = FALSE /\ UNCHANGED <<session, bumps, durable>> /\ ~Active
          /\ treq' = [treq EXCEPT ![r].pc = "done"]
      BY <1>0, <1>7, Zenon DEF RemoveSession, RequestSound
    <2>2. TxTypeOK' /\ \A q \in TReqs : treq'[q].wrote = treq[q].wrote
      BY <1>0, <2>1, ZenonT(40) DEF TxTypeOK
    <2>3. WritesTold'
      BY <1>0, <2>1, <2>2, WritesKept, Zenon
    <2>4. OneCommitOk' /\ \A q \in TReqs : RequestSound(treq[q])'
      BY <1>0, <2>1, SMTT(40) DEF TxTypeOK, OneCommitOk, RequestSound, CommittedOk, Active
    <2> QED BY <2>2, <2>3, <2>4, Zenon DEF SharedInv
  <1> QED BY <1>1, <1>2, <1>3, <1>4, <1>5, <1>6, <1>7, Zenon DEF TNext

\* What a step of another part leaves alone keeps the invariant.
LEMMA SharedStays ==
    ASSUME SharedInv, UNCHANGED tvars
    PROVE  SharedInv'
  BY DEF tvars, SharedInv, TxTypeOK, WritesTold, OneCommitOk, RequestSound, ToldWrites, CommittedOk, Active

-----------------------------------------------------------------------------
(* The namespaces.                                                          *)

\* A server that need not be restarted knows namespaces as they are reserved.
KnownCurrent ==
    \A s \in Servers \ restart, n \in StrIds : known[s][n] \in {Absent, reserved[n]}

\* So has a request of such a server read them: since it did, none was deleted.
SnapsCurrent ==
    \A r \in Reqs : req[r] # Absent /\ req[r].server \notin restart =>
        \A n \in StrIds : req[r].snap[n] \in {Absent, reserved[n]}

\* Rows of a namespace's metadata were written for a namespace that is reserved.
RowsOwned ==
    late \/ \A entry \in subspace : entry.kind = "namespace" =>
        \E n \in Present(reserved) : reserved[n].id = entry.code /\ reserved[n].epoch = entry.epoch

\* The inductive invariant of namespaces.
NsInv == NsTypeOK /\ NamespaceIdsUnique /\ KnownCurrent /\ SnapsCurrent /\ TenantsCurrent /\ RowsOwned

\* Codes are unique, so a row under a namespace's code is of that namespace.
LEMMA OwnedIsOwned ==
    ASSUME NsInv
    PROVE  MetadataOwned
  BY Zenon DEF NsInv, RowsOwned, MetadataOwned, NamespaceIdsUnique

\* There is no namespace at the start.
LEMMA NsStarts ==
    ASSUME NsInit
    PROVE  NsInv
  <1>1. NsTypeOK
    <2>1. reserved \in [StrIds -> NsRows]
      BY Zenon DEF NsInit, NsRows
    <2>2. known \in [Servers -> [StrIds -> NsRows]] /\ tenants \in [Servers -> [StrIds -> NsRows]]
      BY <2>1, Zenon DEF NsInit
    <2>3. /\ restart \subseteq Servers /\ req \in [Reqs -> NsRequests \cup {Absent}]
          /\ subspace = {} /\ epochs \in 0 .. MaxEpochs
      <3>1. MaxEpochs \in Nat
        BY NsAssumption, Zenon
      <3> QED BY <3>1 DEF NsInit
    <2>4. late \in BOOLEAN
      BY Zenon DEF NsInit
    <2> QED BY <2>1, <2>2, <2>3, <2>4, Zenon DEF NsTypeOK
  <1>2. NamespaceIdsUnique /\ RowsOwned
    BY Zenon DEF NsInit, NamespaceIdsUnique, RowsOwned, Present
  <1>3. KnownCurrent /\ SnapsCurrent /\ TenantsCurrent
    BY Zenon DEF NsInit, KnownCurrent, SnapsCurrent, TenantsCurrent
  <1> QED BY <1>1, <1>2, <1>3, Zenon DEF NsInv

\* A set of naturals that is not empty has a least one.
LEMMA LeastNat ==
    ASSUME NEW T \in SUBSET Nat, T # {}
    PROVE  \E x \in T : \A y \in T : x <= y
  <1> DEFINE R == OpToRel(<, Nat)
  <1>1. IsWellFoundedOn(R, Nat)
    BY NatLessThanWellFounded, Zenon
  <1>2. \A x, y \in Nat : x < y => <<x, y>> \in R
    BY Zenon DEF OpToRel
  <1> HIDE DEF R
  <1>3. PICK x \in T : \A y \in T : ~(<<y, x>> \in R)
    BY <1>1, WFMin, Zenon
  <1>4. ASSUME NEW y \in T
        PROVE  x <= y
    <2>1. x \in Nat /\ y \in Nat /\ ~(y < x)
      BY <1>2, <1>3, Zenon
    <2> QED BY <2>1
  <1> QED BY <1>4, Zenon

\* Max of a bounded set of naturals: the least of its upper bounds.
LEMMA MaxOf ==
    ASSUME NEW n \in Nat, NEW S \in SUBSET (0 .. n), S # {}
    PROVE  Max(S) \in S /\ \A y \in S : y <= Max(S)
  <1> DEFINE T == {m \in Nat : \A y \in S : y <= m}
  <1>1. n \in T
    OBVIOUS
  <1>2. PICK m \in T : \A k \in T : m <= k
    BY <1>1, LeastNat, Zenon
  <1>3. m \in S
    <2>1. SUFFICES ASSUME m \notin S PROVE FALSE
      BY Zenon
    <2>0. PICK z \in S : TRUE
      BY Zenon
    <2>2. m # 0
      BY <2>0, <2>1
    <2>3. m - 1 \in T
      BY <2>1, <2>2
    <2> QED BY <1>2, <2>3
  <1>4. \E x \in S : \A y \in S : x >= y
    BY <1>3, Zenon
  <1> QED BY <1>4, Zenon DEF Max

\* reload: what the maps are after it, and that it keeps them current.
LEMMA ReloadOf ==
    ASSUME NEW map \in [StrIds -> NsRows], NEW snap \in [StrIds -> NsRows]
    PROVE  /\ reload(map, snap) \in [StrIds -> NsRows]
           /\ \A n \in StrIds : reload(map, snap)[n] = IF snap[n] # Absent THEN snap[n] ELSE map[n]
  BY Zenon DEF reload

\* Every step keeps the invariant: a name is reserved anew only by a request
\* that has read the rows as they are, and after one is given up a server does
\* nothing for namespaces before it has read the rows again.
LEMMA NsStep ==
    ASSUME NsInv, NsNext
    PROVE  NsInv'
  <1>0. /\ NsTypeOK /\ NamespaceIdsUnique /\ KnownCurrent /\ SnapsCurrent /\ TenantsCurrent /\ RowsOwned
        /\ Absent \notin [id : 1 .. MaxCode, epoch : 1 .. MaxEpochs] /\ Absent \notin NsRequests
        /\ MaxCode \in Nat /\ MaxEpochs \in Nat
    BY NsAssumption, Zenon DEF NsInv
  <1>1. ASSUME NEW r \in Reqs, CreateNamespace(r)
        PROVE  NsInv'
    <2>1. PICK s \in Servers \ restart, n \in StrIds, asked \in Codes \cup {0}, code \in Int :
            /\ code \in 1 .. MaxCode
            /\ known' = known \/ known' = [known EXCEPT ![s] = reload(known[s], reserved)]
            /\ req' = [req EXCEPT ![r] = [server |-> s, name |-> n, code |-> code, snap |-> reserved]]
      <3>1. PICK s \in Servers \ restart, n \in StrIds, asked \in Codes \cup {0} :
              LET map == reload(known[s], reserved)
                  code == IF asked # 0 THEN asked
                          ELSE Max({0} \cup {map[o].id : o \in Present(map)}) + 1
              IN  /\ code <= MaxCode
                  /\ IF asked = 0 THEN known' = [known EXCEPT ![s] = map] ELSE UNCHANGED known
                  /\ req' = [req EXCEPT ![r] = [server |-> s, name |-> n, code |-> code, snap |-> reserved]]
        BY <1>1, Zenon DEF CreateNamespace
      <3> DEFINE map == reload(known[s], reserved)
                 S == {0} \cup {map[o].id : o \in Present(map)}
                 code == IF asked # 0 THEN asked ELSE Max(S) + 1
      <3>2. map \in [StrIds -> NsRows]
        BY <1>0, ReloadOf, Zenon DEF NsTypeOK
      <3> HIDE DEF map
      <3>3. S \in SUBSET (0 .. MaxCode) /\ S # {}
        BY <1>0, <3>2 DEF NsRows, Present
      <3> HIDE DEF S
      <3>4. Max(S) \in 0 .. MaxCode
        BY <1>0, <3>3, MaxOf, Zenon
      <3>5. code \in Nat \ {0}
        BY <3>4, NsAssumption
      <3>6. /\ code <= MaxCode
            /\ known' = known \/ known' = [known EXCEPT ![s] = map]
            /\ req' = [req EXCEPT ![r] = [server |-> s, name |-> n, code |-> code, snap |-> reserved]]
        BY <3>1, Zenon DEF map, S
      <3> HIDE DEF code
      <3>7. code \in Int /\ code \in 1 .. MaxCode
        BY <1>0, <3>5, <3>6, SMTT(40)
      <3> QED BY <3>6, <3>7, Zenon DEF map
    <2>2. UNCHANGED <<reserved, subspace, tenants, restart, epochs, late>>
      BY <1>1, Zenon DEF CreateNamespace
    <2>3. reload(known[s], reserved) \in [StrIds -> NsRows]
      BY <1>0, ReloadOf, Zenon DEF NsTypeOK
    <2>4. NsTypeOK'
      <3>1. [server |-> s, name |-> n, code |-> code, snap |-> reserved] \in NsRequests
        BY <1>0, <2>1, Zenon DEF NsTypeOK, NsRequests
      <3> QED BY <1>0, <2>1, <2>2, <2>3, <3>1, SMTT(40) DEF NsTypeOK
    <2>5. KnownCurrent'
      <3>1. \A o \in StrIds : reload(known[s], reserved)[o] \in {Absent, reserved[o]}
        BY <1>0, ReloadOf DEF NsTypeOK, KnownCurrent
      <3> QED BY <1>0, <2>1, <2>2, <3>1, Zenon DEF NsTypeOK, KnownCurrent
    <2>6. SnapsCurrent'
      BY <1>0, <2>1, <2>2, Zenon DEF NsTypeOK, SnapsCurrent
    <2> QED BY <1>0, <2>2, <2>4, <2>5, <2>6, Zenon
            DEF NsInv, NamespaceIdsUnique, TenantsCurrent, RowsOwned, Present
  <1>2. ASSUME NEW r \in Reqs, CreateTenant(r)
        PROVE  NsInv'
    <2> DEFINE q == req[r]
               map == reload(known[q.server], q.snap)
    <2>1. /\ q \in NsRequests /\ epochs < MaxEpochs
          /\ known' = [known EXCEPT ![q.server] = map]
          /\ req' = [req EXCEPT ![r] = Absent]
          /\ UNCHANGED <<subspace, tenants, restart, late>>
          /\ \/ UNCHANGED <<epochs, reserved>>
             \/ /\ ReserveNamespace(map, q.name, q.code) /\ q.snap = reserved
                /\ epochs' = epochs + 1
                /\ reserved' = [reserved EXCEPT ![q.name] = NamespaceMetadata(q.code, epochs + 1)]
      BY <1>0, <1>2, Zenon DEF CreateTenant, NsTypeOK, ReserveConflict
    <2>2. /\ q.server \in Servers /\ q.name \in StrIds /\ q.code \in 1 .. MaxCode
          /\ q.snap \in [StrIds -> NsRows]
      BY <2>1, Zenon DEF NsRequests
    <2>3. /\ map \in [StrIds -> NsRows]
          /\ \A n \in StrIds : map[n] = IF q.snap[n] # Absent THEN q.snap[n] ELSE known[q.server][n]
      BY <1>0, <2>2, ReloadOf, Zenon DEF NsTypeOK
    <2>4. q.server \notin restart => \A n \in StrIds : q.snap[n] \in {Absent, reserved[n]}
      BY <1>0, <2>1, Zenon DEF SnapsCurrent
    <2> HIDE DEF map
    <2>5. q.server \notin restart => \A n \in StrIds : map[n] \in {Absent, reserved[n]}
      BY <1>0, <2>2, <2>3, <2>4, Zenon DEF KnownCurrent
    <2>6. CASE UNCHANGED <<epochs, reserved>>
      <3>1. NsTypeOK'
        BY <1>0, <2>1, <2>2, <2>3, <2>6, Zenon DEF NsTypeOK
      <3>2. KnownCurrent'
        BY <1>0, <2>1, <2>2, <2>5, <2>6, Zenon DEF NsTypeOK, KnownCurrent
      <3>3. SnapsCurrent'
        BY <1>0, <2>1, <2>6, Zenon DEF NsTypeOK, SnapsCurrent
      <3> QED BY <1>0, <2>1, <2>6, <3>1, <3>2, <3>3, Zenon
              DEF NsInv, NamespaceIdsUnique, TenantsCurrent, RowsOwned, Present
    <2>7. CASE /\ ReserveNamespace(map, q.name, q.code) /\ q.snap = reserved
               /\ epochs' = epochs + 1
               /\ reserved' = [reserved EXCEPT ![q.name] = NamespaceMetadata(q.code, epochs + 1)]
      <3> DEFINE entry == NamespaceMetadata(q.code, epochs + 1)
      <3>1. /\ entry \in [id : 1 .. MaxCode, epoch : 1 .. MaxEpochs] /\ entry.id = q.code
            /\ entry \in NsRows /\ entry # Absent
        BY <1>0, <2>1, <2>2, SMTT(40) DEF NamespaceMetadata, NsTypeOK, NsRows
      <3>2. /\ reserved[q.name] = Absent
            /\ \A o \in Present(reserved) : reserved[o].id # q.code
        BY <2>2, <2>3, <2>7, Zenon DEF ReserveNamespace, Present
      <3> HIDE DEF entry
      <3>3. reserved' = [reserved EXCEPT ![q.name] = entry]
        BY <2>7, Zenon DEF entry
      <3>4. /\ \A n \in StrIds : reserved[n] # Absent => reserved'[n] = reserved[n]
            /\ Present(reserved)' = Present(reserved) \cup {q.name}
            /\ reserved'[q.name] = entry
        BY <1>0, <2>2, <3>1, <3>2, <3>3, Zenon DEF NsTypeOK, Present
      <3>5. NsTypeOK'
        BY <1>0, <2>1, <2>2, <2>3, <2>7, <3>1, <3>3, SMTT(40) DEF NsTypeOK
      <3>6. NamespaceIdsUnique'
        BY <1>0, <3>1, <3>2, <3>4, SMTT(40) DEF NamespaceIdsUnique, Present
      <3>7. KnownCurrent'
        <4>1. \A s \in Servers \ restart, n \in StrIds : known'[s][n] \in {Absent, reserved[n]}
          BY <1>0, <2>1, <2>2, <2>5, Zenon DEF NsTypeOK, KnownCurrent
        <4> QED BY <2>1, <3>4, <4>1, Zenon DEF KnownCurrent
      <3>8. SnapsCurrent'
        <4>1. ASSUME NEW p \in Reqs, req'[p] # Absent, req'[p].server \notin restart, NEW n \in StrIds
              PROVE  req'[p].snap[n] \in {Absent, reserved[n]}
          BY <1>0, <2>1, <4>1, Zenon DEF NsTypeOK, SnapsCurrent
        <4> QED BY <2>1, <3>4, <4>1, Zenon DEF SnapsCurrent
      <3>9. TenantsCurrent' /\ RowsOwned'
        BY <1>0, <2>1, <3>4, SMTT(40) DEF TenantsCurrent, RowsOwned, Present
      <3> QED BY <3>5, <3>6, <3>7, <3>8, <3>9, Zenon DEF NsInv
    <2> QED BY <2>1, <2>6, <2>7, Zenon
  <1>3. ASSUME NEW s \in Servers, NEW n \in StrIds, GetTenant(s, n)
        PROVE  NsInv'
    <2> DEFINE map == reload(known[s], reserved)
    <2>1. /\ known' = [known EXCEPT ![s] = map]
          /\ tenants' = [tenants EXCEPT ![s][n] = map[n]]
          /\ UNCHANGED <<reserved, subspace, restart, req, epochs, late>>
      BY <1>3, Zenon DEF GetTenant
    <2>2. /\ map \in [StrIds -> NsRows]
          /\ s \notin restart => \A o \in StrIds : map[o] \in {Absent, reserved[o]}
      <3>1. known[s] \in [StrIds -> NsRows] /\ reserved \in [StrIds -> NsRows]
        BY <1>0, Zenon DEF NsTypeOK
      <3>2. /\ map \in [StrIds -> NsRows]
            /\ \A o \in StrIds : map[o] = IF reserved[o] # Absent THEN reserved[o] ELSE known[s][o]
        BY <3>1, ReloadOf, Zenon
      <3> HIDE DEF map
      <3> QED BY <1>0, <3>2, Zenon DEF KnownCurrent
    <2> HIDE DEF map
    <2>3. NsTypeOK'
      BY <1>0, <2>1, <2>2, Zenon DEF NsTypeOK
    <2>4. KnownCurrent' /\ TenantsCurrent'
      BY <1>0, <2>1, <2>2 DEF NsTypeOK, KnownCurrent, TenantsCurrent
    <2> QED BY <1>0, <2>1, <2>3, <2>4, Zenon
            DEF NsInv, NamespaceIdsUnique, SnapsCurrent, RowsOwned, Present
  <1>4. ASSUME NEW s \in Servers, NEW n \in StrIds, DeleteNamespace(s, n)
        PROVE  NsInv'
    <2>1. /\ reserved' = [reserved EXCEPT ![n] = Absent]
          /\ tenants[s][n] = reserved[n] /\ n \in Present(reserved)
          /\ subspace' = DeleteNamespaceRows(subspace, reserved[n].id)
          /\ restart' = Servers
          /\ UNCHANGED <<known, tenants, req, epochs, late>>
      BY <1>0, <1>4, Zenon DEF DeleteNamespace, TenantsCurrent, Present
    <2>2. NsTypeOK'
      BY <1>0, <2>1, Zenon DEF NsTypeOK, NsRows, DeleteNamespaceRows
    <2>3. Present(reserved)' = Present(reserved) \ {n} /\ \A o \in Present(reserved)' : reserved'[o] = reserved[o]
      BY <1>0, <2>1, Zenon DEF NsTypeOK, Present
    <2>4. NamespaceIdsUnique' /\ RowsOwned'
      <3>1. NamespaceIdsUnique'
        BY <1>0, <2>3, Zenon DEF NamespaceIdsUnique
      <3>2. ASSUME ~late, NEW entry \in subspace', entry.kind = "namespace"
            PROVE  \E o \in Present(reserved)' : reserved'[o].id = entry.code /\ reserved'[o].epoch = entry.epoch
        <4>1. entry \in subspace /\ entry.code # reserved[n].id
          BY <2>1, <3>2, Zenon DEF DeleteNamespaceRows
        <4>2. PICK o \in Present(reserved) : reserved[o].id = entry.code /\ reserved[o].epoch = entry.epoch
          BY <1>0, <3>2, <4>1, Zenon DEF RowsOwned
        <4> QED BY <2>3, <4>1, <4>2, Zenon
      <3> QED BY <2>1, <3>1, <3>2, Zenon DEF RowsOwned
    <2>5. KnownCurrent' /\ SnapsCurrent' /\ TenantsCurrent'
      BY <1>0, <2>1, SMTT(40) DEF NsTypeOK, NsRequests, KnownCurrent, SnapsCurrent, TenantsCurrent
    <2> QED BY <2>2, <2>4, <2>5, Zenon DEF NsInv
  <1>5. ASSUME NEW s \in Servers, ReloadTenants(s)
        PROVE  NsInv'
    <2>1. /\ known' = [known EXCEPT ![s] = reserved] /\ tenants' = [tenants EXCEPT ![s] = reserved]
          /\ restart' = restart \ {s}
          /\ req' = [r \in Reqs |-> IF req[r] # Absent /\ req[r].server = s THEN Absent ELSE req[r]]
          /\ UNCHANGED <<reserved, subspace, epochs, late>>
      BY <1>5, Zenon DEF ReloadTenants, AllTenants
    <2>2. NsTypeOK'
      BY <1>0, <2>1, Zenon DEF NsTypeOK
    <2>3. KnownCurrent' /\ TenantsCurrent'
      BY <1>0, <2>1 DEF NsTypeOK, KnownCurrent, TenantsCurrent
    <2>4. SnapsCurrent'
      BY <1>0, <2>1, Zenon DEF NsTypeOK, SnapsCurrent
    <2> QED BY <1>0, <2>1, <2>2, <2>3, <2>4, Zenon DEF NsInv, NamespaceIdsUnique, RowsOwned, Present
  <1>6. ASSUME NEW s \in Servers, NEW n \in StrIds, NEW kind \in Kinds, InsertMetadata(s, n, kind)
        PROVE  NsInv'
    <2> DEFINE entry == [code |-> tenants[s][n].id, kind |-> kind, epoch |-> tenants[s][n].epoch]
    <2>1. /\ tenants[s][n] # Absent
          /\ subspace' = subspace \cup {entry} /\ late' = (late \/ s \in restart)
          /\ UNCHANGED <<reserved, known, tenants, restart, req, epochs>>
      BY <1>6, Zenon DEF InsertMetadata
    <2>2. tenants[s][n] \in [id : 1 .. MaxCode, epoch : 1 .. MaxEpochs]
      BY <1>0, <2>1 DEF NsTypeOK, NsRows
    <2>3. late' \in BOOLEAN
      BY <2>1, Zenon
    <2>4. NsTypeOK'
      BY <1>0, <2>1, <2>2, <2>3 DEF NsTypeOK
    <2>5. RowsOwned'
      <3>1. CASE late'
        BY <3>1, Zenon DEF RowsOwned
      <3>2. CASE ~late'
        <4>1. ~late /\ s \notin restart
          BY <2>1, <3>2, Zenon
        <4>2. tenants[s][n] = reserved[n] /\ n \in Present(reserved)
          BY <1>0, <2>1, <4>1, Zenon DEF TenantsCurrent, Present
        <4>3. entry.code = reserved[n].id /\ entry.epoch = reserved[n].epoch
          BY <4>2, Zenon
        <4>4. \A x \in subspace : x.kind = "namespace" =>
                 \E i \in Present(reserved) : reserved[i].id = x.code /\ reserved[i].epoch = x.epoch
          BY <1>0, <4>1, Zenon DEF RowsOwned
        <4> HIDE DEF entry
        <4>5. \A x \in subspace' : x.kind = "namespace" =>
                 \E i \in Present(reserved) : reserved[i].id = x.code /\ reserved[i].epoch = x.epoch
          BY <2>1, <4>2, <4>3, <4>4, Zenon
        <4>6. Present(reserved)' = Present(reserved) /\ reserved' = reserved
          BY <2>1, Zenon DEF Present
        <4> QED BY <4>5, <4>6, Zenon DEF RowsOwned
      <3> QED BY <3>1, <3>2, Zenon
    <2> QED BY <1>0, <2>1, <2>4, <2>5, ZenonT(40)
            DEF NsInv, NamespaceIdsUnique, KnownCurrent, SnapsCurrent, TenantsCurrent, Present
  <1> QED BY <1>1, <1>2, <1>3, <1>4, <1>5, <1>6, NsAssumption, Zenon
          DEF NsNext, InsertUserMetadata, InsertNamespaceMetadata, Kinds

\* What a step of another part leaves alone keeps the invariant.
LEMMA NsStays ==
    ASSUME NsInv, UNCHANGED nsvars
    PROVE  NsInv'
  BY Zenon DEF nsvars, NsInv, NsTypeOK, NamespaceIdsUnique, KnownCurrent, SnapsCurrent,
         TenantsCurrent, RowsOwned, Present

-----------------------------------------------------------------------------
(* The calls of the store.                                                  *)

\* What a call holds.
CallRecords ==
    [op : CallOps \cup {"none"}, pc : {"idle", "run", "commit", "done"}, read : Nat,
     landed : Nat, unknown : Nat, reply : {"none", "ok", "error", "duplicate"}]

\* The types of the calls' state; one caller at most has written the row.
CallsTyped ==
    /\ row = {} \/ \E c \in Callers : row = {c}
    /\ total \in Nat /\ writes \in Nat /\ lost \in 0 .. MaxLost
    /\ call \in [Callers -> CallRecords]

\* A call that is not over has no answer and knows of none of its commits;
\* one that is over was applied once more at most, and says so.
CallSound(c) ==
    /\ call[c].pc = "idle" => call[c] = NoCall
    /\ call[c].pc # "done" => call[c].reply = "none" /\ call[c].landed = call[c].unknown
    /\ call[c].landed \in {call[c].unknown, call[c].unknown + 1}
    /\ call[c].landed > call[c].unknown => call[c].reply = "ok"
    /\ call[c].reply = "ok" /\ call[c].op # "drop" => call[c].landed > 0
    /\ call[c].read <= writes
    /\ row = {c} => call[c].landed > 0

\* No call but inserts and additions.
OnlyInserts == \A c \in Callers : call[c].op \notin {"replace", "delete", "drop"}

\* An insert has written the row or has not; one that can still commit has
\* read that there is none.
InsertSound(c) ==
    OnlyInserts /\ call[c].op = "insert" =>
        /\ call[c].landed > 0 => row = {c}
        /\ call[c].landed <= 1
        /\ call[c].pc = "commit" /\ call[c].read = writes => row = {}

\* The inductive invariant of the calls.
CallsInv ==
    /\ CallsTyped
    /\ \A c \in Callers : CallSound(c) /\ InsertSound(c)

\* The invariant says what the calls promise.
LEMMA CallsAreCorrect ==
    ASSUME CallsInv
    PROVE  ScTypeOK /\ CallsApplied /\ OneInsertWins
  <1>1. Cardinality(row) <= 1 /\ row \subseteq Callers
    <2>1. CASE row = {}
      <3>1. Cardinality(row) = 0
        BY <2>1, FS_EmptySet, Zenon
      <3> QED BY <2>1, <3>1
    <2>2. ASSUME NEW c \in Callers, row = {c}
          PROVE  Cardinality(row) <= 1 /\ row \subseteq Callers
      <3>1. Cardinality(row) = 1
        BY <2>2, FS_Singleton, Zenon
      <3> QED BY <2>2, <3>1
    <2> QED BY <2>1, <2>2, Zenon DEF CallsInv, CallsTyped
  <1>2. ScTypeOK
    BY <1>1, Zenon DEF CallsInv, CallsTyped, ScTypeOK, CallRecords
  <1>3. CallsApplied
    BY Zenon DEF CallsInv, CallSound, CallsApplied
  <1>4. ASSUME Did("replace") \cup Did("delete") \cup Did("drop") = {}, NEW c \in Did("insert")
        PROVE  /\ call[c].landed > 0 <=> row = {c}
               /\ call[c].landed <= 1
               /\ call[c].reply = "duplicate" /\ row = {c} => call[c].unknown > 0
    <2>1. OnlyInserts /\ c \in Callers /\ call[c].op = "insert"
      BY <1>4, Zenon DEF Did, OnlyInserts
    <2>2. call[c].landed \in Nat /\ call[c].unknown \in Nat
      BY <2>1, Zenon DEF CallsInv, CallsTyped, CallRecords
    <2> QED BY <2>1, <2>2, SMTT(40) DEF CallsInv, CallSound, InsertSound
  <1>5. OneInsertWins
    BY <1>4, Zenon DEF OneInsertWins
  <1> QED BY <1>2, <1>3, <1>5, Zenon

\* Nobody has called yet.
LEMMA CallsStart ==
    ASSUME ScInit
    PROVE  CallsInv
  <1>1. CallsTyped
    BY CallsAssumption, SMTT(40) DEF ScInit, CallsTyped, CallRecords, NoCall
  <1>2. ASSUME NEW c \in Callers
        PROVE  CallSound(c) /\ InsertSound(c)
    BY SMTT(40) DEF ScInit, CallSound, InsertSound, NoCall
  <1> QED BY <1>1, <1>2, Zenon DEF CallsInv

\* Nothing changes.
LEMMA CallsStay ==
    ASSUME CallsInv, UNCHANGED scvars
    PROVE  CallsInv'
  BY Zenon DEF CallsInv, CallsTyped, CallSound, InsertSound, OnlyInserts, scvars

\* A step of a call that writes nothing keeps the others as they are.
LEMMA QuietCall ==
    ASSUME CallsInv, NEW c \in Callers, NEW new \in CallRecords,
           call' = [call EXCEPT ![c] = new],
           call[c].pc # "idle" => new.op = call[c].op,
           UNCHANGED <<row, total, writes>>, lost' \in 0 .. MaxLost,
           CallSound(c)', InsertSound(c)'
    PROVE  CallsInv'
  <1>1. call \in [Callers -> CallRecords]
    BY Zenon DEF CallsInv, CallsTyped
  <1>2. CallsTyped'
    BY <1>1, Zenon DEF CallsInv, CallsTyped
  <1>3. OnlyInserts' => OnlyInserts
    <2>1. call[c].pc = "idle" => call[c].op = "none"
      BY SMTT(40) DEF CallsInv, CallSound, NoCall
    <2> QED BY <1>1, <2>1, Zenon DEF OnlyInserts
  <1>4. ASSUME NEW d \in Callers \ {c}
        PROVE  CallSound(d)' /\ InsertSound(d)'
    <2>1. call'[d] = call[d]
      BY <1>1, Zenon
    <2>2. CallSound(d) /\ InsertSound(d)
      BY Zenon DEF CallsInv
    <2> QED BY <1>3, <2>1, <2>2, Zenon DEF CallSound, InsertSound
  <1> QED BY <1>2, <1>4, Zenon DEF CallsInv

\* A commit that takes effect, known or not.
LEMMA LandedCall ==
    ASSUME CallsInv, NEW c \in Callers, NEW new \in CallRecords,
           call[c].pc = "commit", ~CallConflict(c), Land(c),
           call' = [call EXCEPT ![c] = new],
           new.op = call[c].op, new.read = call[c].read,
           new.landed = call[c].landed + 1,
           \/ new.pc = "done" /\ new.reply = "ok" /\ new.unknown = call[c].unknown
           \/ new.pc = "run" /\ new.reply = "none" /\ new.unknown = call[c].unknown + 1,
           lost' \in 0 .. MaxLost
    PROVE  CallsInv'
  <1>1. call \in [Callers -> CallRecords] /\ total \in Nat /\ writes \in Nat
    BY Zenon DEF CallsInv, CallsTyped
  <1>2. call'[c] = new /\ call' \in [Callers -> CallRecords]
    BY <1>1, Zenon
  <1>3. /\ call[c].landed \in Nat /\ call[c].unknown \in Nat /\ call[c].read \in Nat
        /\ call[c].landed = call[c].unknown
    BY <1>1, Zenon DEF CallsInv, CallSound, CallRecords
  <1>4. writes' \in Nat /\ writes' >= writes /\ total' \in Nat
    BY <1>1 DEF Land, Added, Dropped
  <1>5. row' = {} \/ row' = {c} \/ row' = row
    BY Zenon DEF Land
  <1>6. CallsTyped'
    BY <1>2, <1>4, <1>5, Zenon DEF CallsInv, CallsTyped
  <1>7. OnlyInserts' => OnlyInserts /\ call[c].op \notin {"replace", "delete", "drop"}
    BY <1>1, <1>2, Zenon DEF OnlyInserts
  <1>8. CallSound(c) /\ InsertSound(c)
    BY Zenon DEF CallsInv
  <1>9. CallSound(c)'
    BY <1>1, <1>2, <1>3, <1>4, <1>8, SMTT(40) DEF CallSound
  <1>10. ASSUME NEW d \in Callers \ {c}
         PROVE  CallSound(d)'
    <2>1. call'[d] = call[d] /\ call[d].read \in Nat
      BY <1>1, Zenon DEF CallRecords
    <2>2. CallSound(d)
      BY Zenon DEF CallsInv
    <2>3. row' = {d} => row = {d}
      BY <1>5, Zenon
    <2> QED BY <1>1, <1>4, <2>1, <2>2, <2>3, SMTT(40) DEF CallSound
  <1>11. ASSUME NEW d \in Callers, OnlyInserts', call'[d].op = "insert"
         PROVE  /\ call'[d].landed > 0 => row' = {d}
                /\ call'[d].landed <= 1
                /\ call'[d].pc = "commit" /\ call'[d].read = writes' => row' = {}
    <2>1. OnlyInserts /\ call[d].op = "insert" /\ call[d].landed \in Nat /\ call[d].read \in Nat
      BY <1>1, <1>2, <1>7, <1>11, Zenon DEF CallRecords
    <2>2. InsertSound(d) /\ CallSound(d)
      BY Zenon DEF CallsInv
    <2>3. CASE call[c].op = "insert"
      <3>1. row = {} /\ row' = {c} /\ writes' = writes + 1
        <4>1. call[c].read = writes
          BY <2>3, Zenon DEF CallConflict
        <4>2. row = {}
          BY <1>8, <2>1, <2>3, <4>1, Zenon DEF InsertSound
        <4>3. row' = {c} /\ writes' = writes + 1
          BY <2>3, Zenon DEF Land, Dropped
        <4> QED BY <4>2, <4>3, Zenon
      <3>2. call[d].landed = 0
        BY <2>1, <2>2, <3>1, SMTT(40) DEF InsertSound
      <3>3. CASE d = c
        BY <1>2, <3>1, <3>2, <3>3, SMTT(40)
      <3>4. CASE d # c
        BY <1>1, <2>1, <2>2, <3>1, <3>2, <3>4, SMTT(40) DEF CallSound
      <3> QED BY <3>3, <3>4, Zenon
    <2>4. CASE call[c].op # "insert"
      <3>1. d # c /\ call'[d] = call[d]
        BY <1>1, <2>1, <2>4, Zenon
      <3>2. call[c].op \in {"add", "none"}
        BY <1>1, <1>7, <1>11, <2>4, Zenon DEF CallRecords, CallOps
      <3>3. row' = row /\ writes' >= writes
        BY <1>4, <3>2, Zenon DEF Land, Dropped
      <3>4. writes' # writes => call[d].read # writes'
        BY <1>1, <1>4, <2>1, <2>2, SMTT(40) DEF CallSound
      <3> QED BY <2>1, <2>2, <3>1, <3>3, <3>4, Zenon DEF InsertSound
    <2> QED BY <2>3, <2>4, Zenon
  <1>12. \A d \in Callers : InsertSound(d)'
    BY <1>11, Zenon DEF InsertSound
  <1> QED BY <1>6, <1>9, <1>10, <1>12, Zenon DEF CallsInv

\* Every step of a call keeps the invariant.
LEMMA CallsStep ==
    ASSUME CallsInv, ScNext
    PROVE  CallsInv'
  <1> PICK c \in Callers : (\E op \in CallOps : StartCall(c, op)) \/ AttemptFails(c) \/ RunFn(c)
                           \/ CommitCall(c) \/ Retry(c) \/ RetryLanded(c)
    BY Zenon DEF ScNext
  <1>1. /\ call \in [Callers -> CallRecords] /\ writes \in Nat /\ lost \in 0 .. MaxLost
        /\ call[c] \in CallRecords
    BY Zenon DEF CallsInv, CallsTyped
  <1>2. CallSound(c) /\ InsertSound(c)
    BY Zenon DEF CallsInv
  <1>3. ASSUME NEW op \in CallOps, StartCall(c, op)
        PROVE  CallsInv'
    <2> DEFINE new == [NoCall EXCEPT !.op = op, !.pc = "run"]
    <2>1. call[c] = NoCall
      BY <1>2, <1>3, Zenon DEF CallSound, StartCall
    <2>2. call' = [call EXCEPT ![c] = new]
      BY <1>1, <1>3, <2>1, Zenon DEF StartCall, NoCall
    <2>3. new \in CallRecords
      BY ZenonT(40) DEF CallRecords, NoCall
    <2>4. call'[c] = new
      BY <1>1, <2>2, Zenon
    <2>5. UNCHANGED <<row, total, writes, lost>>
      BY <1>3, Zenon DEF StartCall
    <2>6. CallSound(c)' /\ InsertSound(c)'
      BY <1>1, <1>2, <2>1, <2>4, <2>5 DEF CallSound, InsertSound, NoCall
    <2>7. call[c].pc = "idle"
      BY <2>1 DEF NoCall
    <2> HIDE DEF new
    <2> QED BY <1>1, <2>2, <2>3, <2>5, <2>6, <2>7, QuietCall, Zenon
  <1>4. CASE AttemptFails(c)
    <2> DEFINE new == [call[c] EXCEPT !.pc = "done", !.reply = IF call[c].op = "drop" THEN "ok" ELSE "error"]
    <2>1. call' = [call EXCEPT ![c] = new] /\ UNCHANGED <<row, total, writes>> /\ call[c].pc = "run"
      BY <1>1, <1>4, Zenon DEF AttemptFails
    <2>2. new \in CallRecords /\ new.op = call[c].op
      BY <1>1, Zenon DEF CallRecords
    <2>3. call'[c] = new
      BY <1>1, <2>1, Zenon
    <2>4. lost' \in 0 .. MaxLost
      BY <1>1, <1>4, CallsAssumption DEF AttemptFails
    <2>5. OnlyInserts' => OnlyInserts
      BY <1>1, <2>1, <2>2, <2>3, Zenon DEF OnlyInserts
    <2>6. CallSound(c)' /\ InsertSound(c)'
      BY <1>1, <1>2, <2>1, <2>3, <2>5, Zenon DEF CallSound, InsertSound, CallRecords
    <2> HIDE DEF new
    <2> QED BY <2>1, <2>2, <2>4, <2>6, QuietCall, Zenon
  <1>5. CASE RunFn(c)
    <2> DEFINE new == IF call[c].op = "insert" /\ row # {}
                      THEN [call[c] EXCEPT !.pc = "done", !.reply = "duplicate"]
                      ELSE [call[c] EXCEPT !.pc = "commit", !.read = writes]
    <2>1. call' = [call EXCEPT ![c] = new] /\ UNCHANGED <<row, total, writes, lost>> /\ call[c].pc = "run"
      BY <1>1, <1>5, Zenon DEF RunFn
    <2>2. new \in CallRecords /\ new.op = call[c].op
      BY <1>1, ZenonT(40) DEF CallRecords
    <2>3. call'[c] = new
      BY <1>1, <2>1, Zenon
    <2>4. OnlyInserts' => OnlyInserts
      BY <1>1, <2>1, <2>2, <2>3, Zenon DEF OnlyInserts
    <2>5. CallSound(c)' /\ InsertSound(c)'
      BY <1>1, <1>2, <2>1, <2>3, <2>4 DEF CallSound, InsertSound, CallRecords
    <2> HIDE DEF new
    <2> QED BY <1>1, <2>1, <2>2, <2>5, QuietCall, Zenon
  <1>6. CASE CommitCall(c)
    <2> DEFINE new == [call[c] EXCEPT !.pc = "done", !.landed = @ + 1, !.reply = "ok"]
    <2>1. call' = [call EXCEPT ![c] = new] /\ call[c].pc = "commit" /\ ~CallConflict(c) /\ Land(c) /\ lost' = lost
      BY <1>1, <1>6, Zenon DEF CommitCall
    <2>2. /\ new \in CallRecords /\ new.op = call[c].op /\ new.read = call[c].read
          /\ new.landed = call[c].landed + 1
          /\ new.pc = "done" /\ new.reply = "ok" /\ new.unknown = call[c].unknown
      <3>1. call[c].landed + 1 \in Nat
        BY <1>1 DEF CallRecords
      <3> QED BY <1>1, <3>1, Zenon DEF CallRecords
    <2> HIDE DEF new
    <2> QED BY <1>1, <2>1, <2>2, LandedCall, Zenon
  <1>7. CASE Retry(c)
    <2> DEFINE new == [call[c] EXCEPT !.pc = "run"]
    <2>1. call' = [call EXCEPT ![c] = new] /\ UNCHANGED <<row, total, writes>> /\ call[c].pc = "commit"
      BY <1>1, <1>7, Zenon DEF Retry
    <2>2. new \in CallRecords /\ new.op = call[c].op
      BY <1>1, Zenon DEF CallRecords
    <2>3. call'[c] = new
      BY <1>1, <2>1, Zenon
    <2>4. lost' \in 0 .. MaxLost
      BY <1>1, <1>7, CallsAssumption DEF Retry
    <2>5. OnlyInserts' => OnlyInserts
      BY <1>1, <2>1, <2>2, <2>3, Zenon DEF OnlyInserts
    <2>6. CallSound(c)' /\ InsertSound(c)'
      BY <1>1, <1>2, <2>1, <2>3, <2>5, Zenon DEF CallSound, InsertSound, CallRecords
    <2> HIDE DEF new
    <2> QED BY <2>1, <2>2, <2>4, <2>6, QuietCall, Zenon
  <1>8. CASE RetryLanded(c)
    <2> DEFINE new == [call[c] EXCEPT !.pc = "run", !.landed = @ + 1, !.unknown = @ + 1]
    <2>1. /\ call' = [call EXCEPT ![c] = new] /\ call[c].pc = "commit" /\ ~CallConflict(c) /\ Land(c)
          /\ lost < MaxLost /\ lost' = lost + 1
      BY <1>1, <1>8, Zenon DEF RetryLanded
    <2>2. new \in CallRecords /\ new.op = call[c].op /\ new.read = call[c].read
      <3>1. call[c].landed + 1 \in Nat /\ call[c].unknown + 1 \in Nat
        BY <1>1 DEF CallRecords
      <3> QED BY <1>1, <3>1, Zenon DEF CallRecords
    <2>3. /\ new.landed = call[c].landed + 1
          /\ new.pc = "run" /\ new.reply = "none" /\ new.unknown = call[c].unknown + 1
      BY <1>1, <1>2, <2>1, Zenon DEF CallRecords, CallSound
    <2>4. lost' \in 0 .. MaxLost
      BY <1>1, <2>1, CallsAssumption
    <2> HIDE DEF new
    <2> QED BY <2>1, <2>2, <2>3, <2>4, LandedCall, Zenon
  <1> QED BY <1>3, <1>4, <1>5, <1>6, <1>7, <1>8, Zenon

=============================================================================
