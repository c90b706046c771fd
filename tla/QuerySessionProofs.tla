------------------------- MODULE QuerySessionProofs -------------------------
(***************************************************************************)
(* Sessions proved correct for any number of sessions, keys, parts and     *)
(* statements: a request commits once at most, the change log replays the  *)
(* documents, and the search index differs from them for known reasons     *)
(* only.                                                                   *)
(***************************************************************************)
EXTENDS QuerySessionSteps

-----------------------------------------------------------------------------
(* The steps of a session s that becomes z, by what they leave in the       *)
(* stores.                                                                  *)

\* A new transaction (Create).
Begins(s, z) ==
    /\ ses[s].pc = "idle" /\ z.pc = "open" /\ z.id = begun + 1 /\ z.reply = "none" /\ begun' = begun + 1
    /\ UNCHANGED <<hist, log, search, tainted>>

\* A statement, or a retry on a new transaction.
GoesOn(s, z) ==
    /\ ses[s].pc \in {"open", "ran"} /\ z.pc \in {"open", "ran"} /\ z.id = ses[s].id /\ z.reply = ses[s].reply
    /\ UNCHANGED <<hist, log, search, begun, tainted>>

\* A session that ends without having committed, as far as it knows.
GivesUp(s, z) ==
    /\ ses[s].pc \in {"open", "ran"} /\ z.pc = "idle" /\ z.id = ses[s].id
    /\ z.reply \in {"rolled back", "conflict", "error", "unknown"}
    /\ UNCHANGED <<hist, log, search, begun, tainted>>

\* The store has committed, and the events are to be indexed.
Commits(s, z) ==
    /\ Committing(s) /\ ~Conflict(ses[s]) /\ Durable(ses[s]) /\ tainted' = tainted \cup InDoubt(s)
    /\ z = [ses[s] EXCEPT !.pc = "post"]
    /\ UNCHANGED <<search, begun>>

\* The store has committed, and the session does not know.
CommitsUnknown(s, z) ==
    /\ Committing(s) /\ ~Conflict(ses[s]) /\ Durable(ses[s])
    /\ tainted' = tainted \cup InDoubt(s) \cup KeysOf(ses[s].events)
    /\ z.pc = "idle" /\ z.id = ses[s].id /\ z.reply = "unknown"
    /\ UNCHANGED <<search, begun>>

\* The search store does not take the event.
Blocks(e) == Refused(e) \/ (e.op = "delete" /\ search[e.key] = None)

\* OnPostCommit has one more event taken by the search store.
Indexes(s, z) ==
    /\ Pending(ses[s]) # <<>>
    /\ LET e == Head(Pending(ses[s]))
       IN  /\ ~Blocks(e)
           /\ search' = [search EXCEPT ![e.key] = Packed(ses[s], e)]
    /\ z = [ses[s] EXCEPT !.next = @ + 1]
    /\ UNCHANGED <<hist, log, begun, tainted>>

\* Indexing is over: all is done, the rest is lost, or an event is refused.
StopsIndexing(s, z) ==
    /\ ses[s].pc = "post" /\ z.pc = "idle" /\ z.id = ses[s].id /\ z.reply \in {"ok", "not indexed"}
    /\ \/ Pending(ses[s]) = <<>> /\ UNCHANGED tainted
       \/ tainted' = tainted \cup KeysOf(Pending(ses[s]))
       \/ /\ Pending(ses[s]) # <<>> /\ UNCHANGED tainted
          /\ Blocks(Head(Pending(ses[s])))
    /\ UNCHANGED <<hist, log, search, begun>>

\* Session s becomes z.
Step(s, z) ==
    \/ Begins(s, z) \/ GoesOn(s, z) \/ GivesUp(s, z) \/ Commits(s, z) \/ CommitsUnknown(s, z)
    \/ Indexes(s, z) \/ StopsIndexing(s, z)

\* A place of a sequence is one of those from it on.
LEMMA AheadOf ==
    ASSUME NEW m \in Nat, NEW n \in 1 .. m
    PROVE  n \in n .. m
  OBVIOUS

\* A session that ends keeps the number of its transaction and the answer.
LEMMA EndIs ==
    ASSUME Held, NEW s \in Sessions, NEW reply \in Replies, End(s, reply)
    PROVE  \E z : ses' = [ses EXCEPT ![s] = z] /\ z.pc = "idle" /\ z.id = ses[s].id /\ z.reply = reply
  <1> DEFINE z == [Idle EXCEPT !.id = ses[s].id, !.reply = reply]
  <1>1. ses[s].id \in 0 .. MaxTx
    BY HeldOf, Zenon
  <1>2. z.pc = "idle" /\ z.id = ses[s].id /\ z.reply = reply
    BY <1>1, EndLocal, ZenonT(40)
  <1>3. ses' = [ses EXCEPT ![s] = z]
    BY Zenon DEF End
  <1> HIDE DEF z
  <1> QED BY <1>2, <1>3, Zenon

\* Every step is one of these.
LEMMA StepIs ==
    ASSUME Held, Next
    PROVE  \E s \in Sessions : \E z : ses' = [ses EXCEPT ![s] = z] /\ Step(s, z)
  <1> SUFFICES ASSUME NEW s \in Sessions,
                      \/ \E st \in Statements : CreateImplicit(s, st) \/ Execute(s, st)
                      \/ BeginTransaction(s) \/ RollbackTransaction(s) \/ RunImplicit(s) \/ VersionChanged(s)
                      \/ Commit(s) \/ CommitConflict(s) \/ CommitUnknown(s) \/ CommitError(s)
                      \/ IndexEvent(s) \/ PostCommitDone(s) \/ PostCommitLost(s)
               PROVE  \E z : ses' = [ses EXCEPT ![s] = z] /\ Step(s, z)
    BY Zenon DEF Next
  <1> DEFINE x == ses[s]
  <1>1. /\ x \in SessionType /\ Local(x, DocsAfter(x.snap)) /\ x.snap <= Len(hist)
        /\ HistType /\ begun \in Nat
    BY HeldOf, Zenon
  <1>2. \A reply \in {"rolled back", "conflict", "unknown", "error", "not indexed", "ok"} : reply \in Replies
    BY Zenon DEF Replies
  <1>3. ASSUME NEW y \in SessionType, y.id = begun + 1, y.reply = "none", ~y.explicit => y.st \in Statements,
               ses' = [ses EXCEPT ![s] = Fresh(y)], x.pc = "idle", begun' = begun + 1,
               UNCHANGED <<hist, log, search, tainted>>
        PROVE  \E z : ses' = [ses EXCEPT ![s] = z] /\ Step(s, z)
    <2> DEFINE z == Fresh(y)
    <2>1. z.id = y.id /\ z.reply = y.reply /\ z.pc = "open"
      BY <1>1, <1>3, FreshLocal, Zenon
    <2>2. ses' = [ses EXCEPT ![s] = z]
      BY <1>3, Zenon
    <2> HIDE DEF z
    <2>3. Begins(s, z)
      BY <1>3, <2>1, Zenon DEF Begins
    <2> QED BY <2>2, <2>3, Zenon DEF Step
  <1>4. ASSUME NEW st \in Statements, CreateImplicit(s, st)
        PROVE  \E z : ses' = [ses EXCEPT ![s] = z] /\ Step(s, z)
    <2> DEFINE y == [Idle EXCEPT !.id = begun + 1, !.st = st]
    <2>1. /\ x.pc = "idle" /\ begun < MaxTx /\ begun' = begun + 1 /\ ses' = [ses EXCEPT ![s] = Fresh(y)]
          /\ UNCHANGED <<hist, log, search, tainted>>
      BY <1>4, Zenon DEF CreateImplicit
    <2>2. begun + 1 \in 0 .. MaxTx
      BY <1>1, <2>1, SessionAssumption
    <2>3. Idle \in SessionType /\ Idle.reply = "none"
      BY IdleLocal, Zenon
    <2>4. y \in SessionType /\ y.st = st /\ y.id = begun + 1 /\ y.reply = "none"
      BY <2>2, <2>3, Zenon DEF SessionType
    <2> HIDE DEF y
    <2> QED BY <1>3, <2>1, <2>4, Zenon
  <1>5. ASSUME BeginTransaction(s)
        PROVE  \E z : ses' = [ses EXCEPT ![s] = z] /\ Step(s, z)
    <2> DEFINE y == [Idle EXCEPT !.id = begun + 1, !.explicit = TRUE]
    <2>1. /\ x.pc = "idle" /\ begun < MaxTx /\ begun' = begun + 1 /\ ses' = [ses EXCEPT ![s] = Fresh(y)]
          /\ UNCHANGED <<hist, log, search, tainted>>
      BY <1>5, Zenon DEF BeginTransaction
    <2>2. begun + 1 \in 0 .. MaxTx
      BY <1>1, <2>1, SessionAssumption
    <2>3. Idle \in SessionType /\ Idle.reply = "none"
      BY IdleLocal, Zenon
    <2>4. y \in SessionType /\ y.explicit /\ y.id = begun + 1 /\ y.reply = "none"
      BY <2>2, <2>3, Zenon DEF SessionType
    <2> HIDE DEF y
    <2> QED BY <1>3, <2>1, <2>4, Zenon
  <1>6. ASSUME RunImplicit(s)
        PROVE  \E z : ses' = [ses EXCEPT ![s] = z] /\ Step(s, z)
    <2>1. x.pc = "open" /\ ~x.explicit /\ x.st \in Statements /\ x.events = <<>> /\ Len(x.events) < MaxStatements
      BY <1>1, <1>6, SessionAssumption DEF RunImplicit, Local
    <2> DEFINE st == x.st
               z == [Run(x, st) EXCEPT !.pc = "ran"]
    <2>2. ses' = [ses EXCEPT ![s] = z] /\ UNCHANGED <<hist, log, search, begun, faults, tainted>>
      BY <1>6, Zenon DEF RunImplicit
    <2> HIDE DEF x, st
    <2>3. z.id = x.id /\ z.reply = x.reply /\ z.pc = "ran"
      BY <1>1, <2>1, RunLocal, Zenon DEF st
    <2> HIDE DEF z
    <2>4. GoesOn(s, z)
      BY <2>1, <2>2, <2>3, Zenon DEF GoesOn, x
    <2> QED BY <2>2, <2>4, Zenon DEF Step
  <1>7. ASSUME NEW st \in Statements, Execute(s, st)
        PROVE  \E z : ses' = [ses EXCEPT ![s] = z] /\ Step(s, z)
    <2>1. x.pc = "open" /\ x.explicit /\ Len(x.events) < MaxStatements
      BY <1>7, Zenon DEF Execute
    <2> DEFINE z == Run(x, st)
    <2>2. ses' = [ses EXCEPT ![s] = z] /\ UNCHANGED <<hist, log, search, begun, faults, tainted>>
      BY <1>7, Zenon DEF Execute
    <2> HIDE DEF x
    <2>3. z.id = x.id /\ z.reply = x.reply /\ z.pc = "open"
      BY <1>1, <2>1, ExecuteLocal, Zenon
    <2> HIDE DEF z
    <2>4. GoesOn(s, z)
      BY <2>1, <2>2, <2>3, Zenon DEF GoesOn, x
    <2> QED BY <2>2, <2>4, Zenon DEF Step
  <1>8. ASSUME NEW reply \in {"rolled back", "conflict", "error", "unknown"}, End(s, reply), x.pc \in {"open", "ran"},
               UNCHANGED <<hist, log, search, begun, tainted>>
        PROVE  \E z : ses' = [ses EXCEPT ![s] = z] /\ Step(s, z)
    <2>0. reply \in Replies
      BY <1>2, Zenon
    <2>1. PICK z : ses' = [ses EXCEPT ![s] = z] /\ z.pc = "idle" /\ z.id = ses[s].id /\ z.reply = reply
      BY <1>8, <2>0, EndIs, Zenon
    <2>2. GivesUp(s, z)
      BY <1>8, <2>1, Zenon DEF GivesUp
    <2> QED BY <2>1, <2>2, Zenon DEF Step
  <1>9. CASE RollbackTransaction(s)
    BY <1>8, <1>9, Zenon DEF RollbackTransaction
  <1>10. CASE CommitError(s)
    BY <1>8, <1>10, Zenon DEF CommitError
  <1>11. ASSUME x.pc \in {"open", "ran"}, ses' = [ses EXCEPT ![s] = Fresh(@)], UNCHANGED <<hist, log, search, begun, tainted>>
         PROVE  \E z : ses' = [ses EXCEPT ![s] = z] /\ Step(s, z)
    <2> DEFINE z == Fresh(x)
    <2>1. ses' = [ses EXCEPT ![s] = z] /\ (~x.explicit => x.st \in Statements)
      BY <1>1, <1>11, Zenon DEF Local
    <2> HIDE DEF x
    <2>2. z.id = x.id /\ z.reply = x.reply /\ z.pc = "open"
      BY <1>1, <2>1, FreshLocal, Zenon
    <2> HIDE DEF z
    <2>3. GoesOn(s, z)
      BY <1>11, <2>2, Zenon DEF GoesOn, x
    <2> QED BY <2>1, <2>3, Zenon DEF Step
  <1>12. CASE VersionChanged(s)
    BY <1>11, <1>12, Zenon DEF VersionChanged
  <1>13. CASE CommitConflict(s)
    BY <1>8, <1>11, <1>13, Zenon DEF CommitConflict, Committing
  <1>14. CASE Commit(s)
    <2> DEFINE z == [x EXCEPT !.pc = "post"]
    <2>1. ses' = [ses EXCEPT ![s] = z]
      BY <1>14, Zenon DEF Commit
    <2>2. Commits(s, z)
      BY <1>14, Zenon DEF Commits, Commit
    <2> QED BY <2>1, <2>2, Zenon DEF Step
  <1>15. CASE CommitUnknown(s)
    <2>1. Committing(s) /\ End(s, "unknown") /\ UNCHANGED <<search, begun>> /\ x.pc \in {"open", "ran"}
      BY <1>15, Zenon DEF CommitUnknown, Committing
    <2>2. CASE UNCHANGED <<hist, log, tainted>>
      BY <1>8, <2>1, <2>2, Zenon
    <2>3. CASE ~Conflict(x) /\ Durable(x) /\ tainted' = tainted \cup InDoubt(s) \cup KeysOf(x.events)
      <3>1. PICK z : ses' = [ses EXCEPT ![s] = z] /\ z.pc = "idle" /\ z.id = ses[s].id /\ z.reply = "unknown"
        BY <1>2, <2>1, EndIs, Zenon
      <3>2. CommitsUnknown(s, z)
        BY <2>1, <2>3, <3>1, Zenon DEF CommitsUnknown
      <3> QED BY <3>1, <3>2, Zenon DEF Step
    <2> QED BY <1>15, <2>2, <2>3, Zenon DEF CommitUnknown
  <1>16. CASE PostCommitDone(s)
    <2>1. PICK z : ses' = [ses EXCEPT ![s] = z] /\ z.pc = "idle" /\ z.id = ses[s].id /\ z.reply = "ok"
      BY <1>2, <1>16, EndIs, Zenon DEF PostCommitDone
    <2>2. StopsIndexing(s, z)
      BY <1>16, <2>1, Zenon DEF PostCommitDone, StopsIndexing
    <2> QED BY <2>1, <2>2, Zenon DEF Step
  <1>17. CASE PostCommitLost(s)
    <2>1. PICK z : ses' = [ses EXCEPT ![s] = z] /\ z.pc = "idle" /\ z.id = ses[s].id /\ z.reply = "not indexed"
      BY <1>2, <1>17, EndIs, Zenon DEF PostCommitLost
    <2>2. ses[s].pc = "post"
      BY <1>17, Zenon DEF PostCommitLost, Pending
    <2>3. StopsIndexing(s, z)
      BY <1>17, <2>1, <2>2, Zenon DEF PostCommitLost, StopsIndexing
    <2> QED BY <2>1, <2>3, Zenon DEF Step
  <1>18. CASE IndexEvent(s)
    <2> DEFINE e == Head(Pending(x))
               stop == Blocks(e)
    <2>1. UNCHANGED <<hist, log, begun, faults, tainted>> /\ Pending(x) # <<>> /\ x.pc = "post"
      BY <1>18, Zenon DEF IndexEvent, Pending
    <2>2. CASE stop
      <3>1. UNCHANGED search /\ \E reply \in {"not indexed", "ok"} : End(s, reply)
        BY <1>18, <2>2, Zenon DEF IndexEvent, Blocks
      <3>4. PICK reply \in {"not indexed", "ok"} : End(s, reply)
        BY <3>1, Zenon
      <3>5. reply \in Replies
        BY <1>2, Zenon
      <3>6. PICK z : ses' = [ses EXCEPT ![s] = z] /\ z.pc = "idle" /\ z.id = ses[s].id /\ z.reply = reply
        BY <3>4, <3>5, EndIs, Zenon
      <3>2. ses' = [ses EXCEPT ![s] = z] /\ z.pc = "idle" /\ z.id = ses[s].id /\ z.reply \in {"ok", "not indexed"}
        BY <3>6, Zenon
      <3>3. StopsIndexing(s, z)
        BY <2>1, <2>2, <3>1, <3>2, Zenon DEF StopsIndexing
      <3> QED BY <3>2, <3>3, Zenon DEF Step
    <2>3. CASE ~stop
      <3> DEFINE z == [x EXCEPT !.next = @ + 1]
      <3>1. search' = [search EXCEPT ![e.key] = Packed(x, e)] /\ ses' = [ses EXCEPT ![s] = z]
        BY <1>18, <2>3, Zenon DEF IndexEvent, Blocks
      <3>2. Indexes(s, z)
        BY <2>1, <2>3, <3>1, Zenon DEF Indexes
      <3> QED BY <3>1, <3>2, Zenon DEF Step
    <2> QED BY <2>2, <2>3, Zenon
  <1> QED BY <1>4, <1>5, <1>6, <1>7, <1>9, <1>10, <1>12, <1>13, <1>14, <1>15, <1>16, <1>17, <1>18, Zenon

-----------------------------------------------------------------------------
(* A request commits once at most.                                          *)

\* What session x has been told, and is doing, agrees with the history h.
Answered(h, x) ==
    LET committed == \E i \in DOMAIN h : h[i].id = x.id
    IN  /\ x.pc # "idle" => x.id # 0 /\ x.reply = "none"
        /\ x.pc \in {"open", "ran"} => ~committed
        /\ x.pc = "post" => committed
        /\ x.reply \in {"ok", "not indexed"} => committed
        /\ x.reply \in {"error", "conflict", "rolled back"} => ~committed

\* No transaction is twice in the history, and no two requests have the same.
OnceInv ==
    /\ \A i, j \in DOMAIN hist : hist[i].id = hist[j].id => i = j
    /\ \A i \in DOMAIN hist : hist[i].id <= begun
    /\ \A s, r \in Sessions : s # r /\ ses[s].id # 0 => ses[s].id # ses[r].id
    /\ \A s \in Sessions : Answered(hist, ses[s])

\* A step that does not commit.
LEMMA OnceStays ==
    ASSUME Held, OnceInv, UNCHANGED hist, NEW s \in Sessions, NEW z, ses' = [ses EXCEPT ![s] = z],
           \/ begun' = begun /\ z.id = ses[s].id
           \/ begun' = begun + 1 /\ z.id = begun + 1,
           Answered(hist, z)
    PROVE  OnceInv'
  <1>0. /\ \A r \in Sessions : ses[r].id \in Nat /\ ses[r].id <= begun
        /\ begun \in Nat /\ \A r \in Sessions : ses'[r] = IF r = s THEN z ELSE ses[r]
    BY HeldOf DEF Held, SessionsHeld
  <1>1. \A i \in DOMAIN hist : hist[i].id \in Nat /\ hist[i].id <= begun
    BY HeldOf, HistWrites DEF OnceInv
  <1>2. \A i \in DOMAIN hist : hist[i].id <= begun'
    BY <1>0, <1>1
  <1>3. \A r \in Sessions : Answered(hist, ses'[r])
    BY <1>0, Zenon DEF OnceInv
  <1>4. ASSUME NEW r \in Sessions, NEW t \in Sessions, r # t, ses'[r].id # 0
        PROVE  ses'[r].id # ses'[t].id
    <2>1. CASE begun' = begun /\ z.id = ses[s].id
      BY <1>0, <1>4, <2>1 DEF OnceInv
    <2>2. CASE begun' = begun + 1 /\ z.id = begun + 1
      BY <1>0, <1>4, <2>2 DEF OnceInv
    <2> QED BY <2>1, <2>2, Zenon
  <1> QED BY <1>2, <1>3, <1>4, Zenon DEF OnceInv

\* The transaction of a session that is open gets into the history.
LEMMA OnceCommits ==
    ASSUME Held, OnceInv, NEW s \in Sessions, ses[s].pc \in {"open", "ran"}, Durable(ses[s]), UNCHANGED begun,
           NEW z, ses' = [ses EXCEPT ![s] = z], z.id = ses[s].id,
           \/ z.pc = "post" /\ z.reply = "none"
           \/ z.pc = "idle" /\ z.reply = "unknown"
    PROVE  OnceInv'
  <1> DEFINE n == Len(hist) + 1
  <1>0. /\ \A r \in Sessions : ses[r].id \in Nat /\ ses[r].id <= begun
        /\ begun \in Nat /\ \A r \in Sessions : ses'[r] = IF r = s THEN z ELSE ses[r]
        /\ HistType /\ Len(hist) \in Nat
    BY HeldOf DEF Held, SessionsHeld
  <1>1. hist' = Append(hist, [id |-> ses[s].id, writes |-> ses[s].writes])
    BY Zenon DEF Durable
  <1>2. /\ DOMAIN hist = 1 .. Len(hist) /\ DOMAIN hist' = 1 .. n /\ hist'[n].id = ses[s].id
        /\ \A i \in 1 .. Len(hist) : hist'[i] = hist[i]
    BY <1>0, <1>1 DEF HistType
  <1>3. ses[s].id # 0 /\ \A i \in DOMAIN hist : hist[i].id # ses[s].id
    BY Zenon DEF OnceInv, Answered
  <1>4. \A i \in DOMAIN hist' : hist'[i].id <= begun'
    BY <1>0, <1>2 DEF OnceInv
  <1>5. ASSUME NEW i \in DOMAIN hist', NEW j \in DOMAIN hist', hist'[i].id = hist'[j].id
        PROVE  i = j
    <2>1. i \in 1 .. Len(hist) \/ i = n
      BY <1>0, <1>2
    <2>2. j \in 1 .. Len(hist) \/ j = n
      BY <1>0, <1>2
    <2> HIDE DEF n
    <2> QED BY <1>2, <1>3, <1>5, <2>1, <2>2, Zenon DEF OnceInv
  <1>6. ASSUME NEW r \in Sessions
        PROVE  Answered(hist', ses'[r])
    <2>1. CASE r = s
      <3>1. ses'[r] = z /\ \E i \in DOMAIN hist' : hist'[i].id = z.id
        BY <1>0, <1>2, <2>1
      <3> QED BY <1>3, <3>1, Zenon DEF Answered
    <2>2. CASE r # s
      <3>1. ses'[r] = ses[r] /\ ses[r].id # ses[s].id /\ Answered(hist, ses[r])
        BY <1>0, <1>3, <2>2, Zenon DEF OnceInv
      <3>2. (\E i \in DOMAIN hist' : hist'[i].id = ses[r].id) <=> (\E i \in DOMAIN hist : hist[i].id = ses[r].id)
        <4>1. \A i \in DOMAIN hist' : i \in 1 .. Len(hist) \/ i = n
          BY <1>0, <1>2
        <4> HIDE DEF n
        <4> QED BY <1>0, <1>2, <3>1, <4>1, SMTT(40) DEF n
      <3> QED BY <3>1, <3>2, Zenon DEF Answered
    <2> QED BY <2>1, <2>2, Zenon
  <1>7. \A r, t \in Sessions : r # t /\ ses'[r].id # 0 => ses'[r].id # ses'[t].id
    BY <1>0 DEF OnceInv
  <1> QED BY <1>4, <1>5, <1>6, <1>7, Zenon DEF OnceInv

\* Every step keeps OnceInv,
LEMMA OnceStep ==
    ASSUME Held, OnceInv, [Next]_vars
    PROVE  OnceInv'
  <1>0. CASE UNCHANGED vars
    BY <1>0, Zenon DEF vars, OnceInv, Answered
  <1>1. CASE Next
    <2>0. PICK s \in Sessions : \E z : ses' = [ses EXCEPT ![s] = z] /\ Step(s, z)
      BY <1>1, StepIs, Zenon
    <2>1. PICK z : ses' = [ses EXCEPT ![s] = z] /\ Step(s, z)
      BY <2>0, Zenon
    <2> DEFINE x == ses[s]
    <2>2. Answered(hist, x) /\ x \in SessionType
      BY HeldOf, Zenon DEF OnceInv
    <2>3. CASE Begins(s, z)
      <3>1. begun \in Nat /\ \A i \in DOMAIN hist : hist[i].id \in Nat /\ hist[i].id <= begun
        BY HeldOf, HistWrites DEF OnceInv
      <3>2. z.id = begun + 1 /\ z.pc = "open" /\ z.reply = "none" /\ begun' = begun + 1 /\ UNCHANGED hist
        BY <2>3, Zenon DEF Begins
      <3>3. z.id # 0 /\ \A i \in DOMAIN hist : hist[i].id # z.id
        BY <3>1, <3>2
      <3>4. Answered(hist, z)
        BY <3>2, <3>3, Zenon DEF Answered
      <3> QED BY <2>1, <3>2, <3>4, OnceStays, Zenon
    <2>4. CASE GoesOn(s, z)
      <3>1. Answered(hist, z) /\ UNCHANGED <<hist, begun>> /\ z.id = ses[s].id
        BY <2>2, <2>4, Zenon DEF GoesOn, Answered
      <3> QED BY <2>1, <3>1, OnceStays, Zenon
    <2>5. CASE GivesUp(s, z)
      <3>1. Answered(hist, z) /\ UNCHANGED <<hist, begun>> /\ z.id = ses[s].id
        BY <2>2, <2>5, Zenon DEF GivesUp, Answered
      <3> QED BY <2>1, <3>1, OnceStays, Zenon
    <2>6. CASE StopsIndexing(s, z)
      <3>1. Answered(hist, z) /\ UNCHANGED <<hist, begun>> /\ z.id = ses[s].id
        BY <2>2, <2>6, Zenon DEF StopsIndexing, Answered
      <3> QED BY <2>1, <3>1, OnceStays, Zenon
    <2>7. CASE Indexes(s, z)
      <3>1. z = [x EXCEPT !.next = @ + 1] /\ UNCHANGED <<hist, begun>>
        BY <2>7, Zenon DEF Indexes
      <3>2. z.pc = x.pc /\ z.id = x.id /\ z.reply = x.reply
        BY <2>2, <3>1, Zenon DEF SessionType
      <3>3. Answered(hist, z)
        BY <2>2, <3>2, Zenon DEF Answered
      <3> QED BY <2>1, <3>1, <3>2, <3>3, OnceStays, Zenon
    <2>8. CASE Commits(s, z)
      <3>1. /\ z = [x EXCEPT !.pc = "post"] /\ UNCHANGED begun /\ x.pc \in {"open", "ran"} /\ Durable(x)
        BY <2>8, Zenon DEF Commits, Committing
      <3>2. z.pc = "post" /\ z.id = x.id /\ z.reply = x.reply
        BY <2>2, <3>1, Zenon DEF SessionType
      <3>3. z.reply = "none"
        BY <2>2, <3>1, <3>2, Zenon DEF Answered
      <3> QED BY <2>1, <3>1, <3>2, <3>3, OnceCommits, Zenon
    <2>9. CASE CommitsUnknown(s, z)
      <3>1. UNCHANGED begun /\ x.pc \in {"open", "ran"} /\ Durable(x) /\ z.pc = "idle" /\ z.reply = "unknown" /\ z.id = x.id
        BY <2>9, Zenon DEF CommitsUnknown, Committing
      <3> QED BY <2>1, <3>1, OnceCommits, Zenon
    <2> QED BY <2>1, <2>3, <2>4, <2>5, <2>6, <2>7, <2>8, <2>9, Zenon DEF Step
  <1> QED BY <1>0, <1>1, Zenon

\* which holds when no request has been made.
LEMMA OnceStarts ==
    ASSUME Init
    PROVE  OnceInv
  <1>1. Len(hist) = 1 /\ DOMAIN hist = 1 .. 1 /\ hist[1].id = 0 /\ begun = 0
    BY DEF Init
  <1>2. ASSUME NEW s \in Sessions
        PROVE  ses[s].id = 0 /\ ses[s].pc = "idle" /\ ses[s].reply = "none"
    <2>1. ses[s] = Idle
      BY Zenon DEF Init
    <2> QED BY <2>1, IdleLocal, Zenon
  <1>3. \A i \in DOMAIN hist : i = 1
    BY <1>1
  <1>4. \A s \in Sessions : Answered(hist, ses[s])
    BY <1>2, Zenon DEF Answered
  <1>5. \A i \in DOMAIN hist : hist[i].id <= begun
    BY <1>1, <1>3
  <1> QED BY <1>2, <1>3, <1>4, <1>5, Zenon DEF OnceInv

\* Retries never repeat what was done, for any number of sessions: a request
\* commits at most once, one answered with success or with a failure to index
\* has committed, and one answered with an error, a conflict or a rollback has
\* not.
THEOREM RequestsCommitOnce == Spec => []RequestOnce
  <1>1. Init => Held /\ OnceInv
    BY HeldStarts, OnceStarts, Zenon
  <1>2. Held /\ OnceInv /\ [Next]_vars => Held' /\ OnceInv'
    BY HeldStep, OnceStep, Zenon
  <1>3. ASSUME OnceInv
        PROVE  RequestOnce
    <2> SUFFICES ASSUME NEW s \in Sessions
                 PROVE  /\ Cardinality(CommitsOf(s)) <= 1
                        /\ ses[s].reply \in {"ok", "not indexed"} => CommitsOf(s) # {}
                        /\ ses[s].reply \in {"error", "conflict", "rolled back"} => CommitsOf(s) = {}
      BY Zenon DEF RequestOnce
    <2>1. Answered(hist, ses[s]) /\ \A i, j \in CommitsOf(s) : i = j
      BY <1>3, Zenon DEF OnceInv, CommitsOf
    <2>2. CommitsOf(s) # {} <=> \E i \in DOMAIN hist : hist[i].id = ses[s].id
      BY Zenon DEF CommitsOf
    <2>3. Cardinality(CommitsOf(s)) <= 1
      <3>1. CASE CommitsOf(s) = {}
        BY <3>1, FS_EmptySet
      <3>2. CASE CommitsOf(s) # {}
        <4>1. PICK i : CommitsOf(s) = {i}
          BY <2>1, <3>2, Zenon
        <4> QED BY <4>1, FS_Singleton
      <3> QED BY <3>1, <3>2, Zenon
    <2> QED BY <2>1, <2>2, <2>3, Zenon DEF Answered
  <1> QED BY <1>1, <1>2, <1>3, PTL DEF Spec

-----------------------------------------------------------------------------
(* The change log.                                                          *)

\* A session that commits, when clients do not commit what was refused.
LEMMA CommittingSound ==
    ASSUME ~CommitAfterError, Held, NEW s \in Sessions, Committing(s)
    PROVE  /\ TxSound(ses[s]) /\ ses[s].next = 1 /\ ses[s].pc \in {"open", "ran"}
           /\ DOMAIN ses[s].writes \subseteq KeysOf(ses[s].events)
           /\ ses[s].stale \subseteq KeysOf(ses[s].events)
  <1>1. ses[s].pc \in {"open", "ran"} /\ ~ses[s].failed
    BY Zenon DEF Committing
  <1> QED BY <1>1, HeldOf, Zenon DEF Local, TxSound

\* What the log says of a key when a record is added to it.
LEMMA ReplayedAppend ==
    ASSUME log \in Seq(Seq(Event)), NEW ev \in Seq(Event), log' = Append(log, ev), NEW k \in Keys
    PROVE  /\ k \notin KeysOf(ev) => Replayed(k)' = Replayed(k)
           /\ k \in KeysOf(ev) =>
              \E i \in 1 .. Len(ev) : ev[i].key = k /\ Final(ev, i) /\ Replayed(k)' = ev[i].doc
  <1> DEFINE n == Len(log)
             R == {i \in DOMAIN log : k \in KeysOf(log[i])}
             Q == {i \in DOMAIN log' : k \in KeysOf(log'[i])}
             S == Seq(Event)
  <1>1. /\ n \in Nat /\ DOMAIN log = 1 .. n /\ DOMAIN log' = 1 .. n + 1 /\ log'[n + 1] = ev
        /\ \A i \in 1 .. n : log'[i] = log[i]
    <2>1. log \in Seq(S) /\ ev \in S
      BY Zenon
    <2> HIDE DEF S
    <2> QED BY <2>1
  <1>2. Replayed(k) = IF R = {} THEN None
                      ELSE log[Max(R)][Max({j \in DOMAIN log[Max(R)] : log[Max(R)][j].key = k})].doc
    BY Zenon DEF Replayed
  <1>3. Replayed(k)' = IF Q = {} THEN None
                       ELSE log'[Max(Q)][Max({j \in DOMAIN log'[Max(Q)] : log'[Max(Q)][j].key = k})].doc
    BY Zenon DEF Replayed, KeysOf
  <1>4. ASSUME k \notin KeysOf(ev)
        PROVE  Replayed(k)' = Replayed(k)
    <2>1. Q = R
      BY <1>1, <1>4
    <2>2. CASE R = {}
      BY <1>2, <1>3, <2>1, <2>2, Zenon
    <2>3. CASE R # {}
      <3>1. R \in SUBSET (0 .. n)
        BY <1>1
      <3> HIDE DEF R, Q, n
      <3>2. Max(R) \in R
        BY <1>1, <2>3, <3>1, MaxOf, Zenon
      <3>3. log'[Max(R)] = log[Max(R)]
        BY <1>1, <3>2, Zenon DEF R
      <3> QED BY <1>2, <1>3, <2>1, <2>3, <3>3, Zenon
    <2> QED BY <2>2, <2>3, Zenon
  <1>5. ASSUME k \in KeysOf(ev)
        PROVE  \E i \in 1 .. Len(ev) : ev[i].key = k /\ Final(ev, i) /\ Replayed(k)' = ev[i].doc
    <2>1. n + 1 \in Q /\ Q \in SUBSET (0 .. n + 1) /\ \A i \in Q : i <= n + 1
      BY <1>1, <1>5
    <2>8. n + 1 \in Nat
      BY <1>1
    <2>2. Max(Q) = n + 1
      <3> HIDE DEF Q
      <3> QED BY <2>1, <2>8, MaxIs, Zenon
    <2>3. PICK i \in 1 .. Len(ev) : ev[i].key = k /\ Final(ev, i)
      BY <1>5, HasFinal, Zenon
    <2> DEFINE J == {j \in DOMAIN ev : ev[j].key = k}
    <2>4. /\ Len(ev) \in Nat /\ i \in J /\ J \in SUBSET (0 .. Len(ev))
      BY <2>3
    <2>5. \A j \in J : j <= i
      <3> SUFFICES ASSUME NEW j \in J, ~(j <= i)
                   PROVE  FALSE
        BY Zenon
      <3>1. j \in i + 1 .. Len(ev)
        BY <2>3
      <3> QED BY <2>3, <3>1, Zenon DEF Final
    <2> HIDE DEF J
    <2>6. Max(J) = i
      BY <2>4, <2>5, MaxIs, Zenon
    <2>7. Replayed(k)' = ev[Max(J)].doc
      <3>1. Q # {} /\ log'[Max(Q)] = ev
        BY <1>1, <2>1, <2>2, Zenon
      <3> HIDE DEF Q
      <3> QED BY <1>3, <3>1, Zenon DEF J
    <2> QED BY <2>3, <2>6, <2>7, Zenon
  <1> QED BY <1>4, <1>5, Zenon

\* A commit keeps the log and the documents together.
LEMMA DurableReplays ==
    ASSUME ~CommitAfterError, Held, LogReplays, NEW s \in Sessions, Committing(s), Durable(ses[s])
    PROVE  LogReplays'
  <1> DEFINE x == ses[s]
             ev == x.events
             w == x.writes
  <1>1. /\ TxSound(x) /\ DOMAIN w \subseteq KeysOf(ev) /\ ev \in Seq(Event) /\ w \in WriteSets
        /\ log \in Seq(Seq(Event)) /\ HistType
    BY CommittingSound, HeldOf, Zenon DEF SessionType, Held, StoresHeld
  <1>2. hist' = Append(hist, [id |-> x.id, writes |-> w]) /\ log' = IF ev = <<>> THEN log ELSE Append(log, ev)
    BY Zenon DEF Durable
  <1>3. WritesLast(x)
    BY <1>1, Zenon DEF TxSound, Sound
  <1>4. \A k \in Keys : Documents'[k] = IF k \in DOMAIN w THEN w[k] ELSE Documents[k]
    <2> DEFINE id == x.id
    <2> HIDE DEF w, id
    <2> QED BY <1>1, <1>2, DocsAfterCommit, Zenon DEF id
  <1> SUFFICES ASSUME NEW k \in Keys
               PROVE  Replayed(k)' = Documents'[k]
    BY Zenon DEF LogReplays
  <1>5. Replayed(k) = Documents[k]
    BY Zenon DEF LogReplays
  <1>6. CASE ev = <<>>
    <2>1. k \notin DOMAIN w /\ log' = log
      BY <1>1, <1>2, <1>6, SMTT(40) DEF KeysOf
    <2>2. Replayed(k)' = Replayed(k)
      BY <2>1 DEF Replayed, KeysOf
    <2> QED BY <1>4, <1>5, <2>1, <2>2, Zenon
  <1>7. CASE ev # <<>>
    <2>1. log' = Append(log, ev)
      BY <1>2, <1>7, Zenon
    <2> HIDE DEF ev
    <2>2. CASE k \notin KeysOf(ev)
      BY <1>1, <1>4, <1>5, <2>1, <2>2, ReplayedAppend, Zenon
    <2>3. CASE k \in KeysOf(ev)
      <3>1. PICK i \in 1 .. Len(ev) : ev[i].key = k /\ Final(ev, i) /\ Replayed(k)' = ev[i].doc
        BY <1>1, <2>1, <2>3, ReplayedAppend, Zenon
      <3>2. k \in DOMAIN w /\ w[k] = ev[i].doc
        BY <1>3, <3>1, Zenon DEF WritesLast, ev
      <3> QED BY <1>4, <3>1, <3>2, Zenon
    <2> QED BY <2>2, <2>3, Zenon
  <1> QED BY <1>6, <1>7, Zenon

\* Every step keeps the change log true,
LEMMA LogStep ==
    ASSUME ~CommitAfterError, Held, LogReplays, [Next]_vars
    PROVE  LogReplays'
  <1>1. ASSUME UNCHANGED <<hist, log>>
        PROVE  LogReplays'
    <2>1. Documents' = Documents
      BY <1>1, Zenon DEF Documents, DocsAfter
    <2>2. ASSUME NEW k \in Keys
          PROVE  Replayed(k)' = Replayed(k)
      BY <1>1 DEF Replayed, KeysOf
    <2> QED BY <2>1, <2>2, Zenon DEF LogReplays
  <1>2. CASE UNCHANGED vars
    BY <1>1, <1>2, Zenon DEF vars
  <1>3. CASE Next
    <2>0. PICK s \in Sessions : \E z : ses' = [ses EXCEPT ![s] = z] /\ Step(s, z)
      BY <1>3, StepIs, Zenon
    <2>1. PICK z : ses' = [ses EXCEPT ![s] = z] /\ Step(s, z)
      BY <2>0, Zenon
    <2>2. CASE Committing(s) /\ Durable(ses[s])
      BY <2>2, DurableReplays, Zenon
    <2>3. CASE UNCHANGED <<hist, log>>
      BY <1>1, <2>3, Zenon
    <2> QED BY <2>1, <2>2, <2>3, Zenon
            DEF Step, Begins, GoesOn, GivesUp, Commits, CommitsUnknown, Indexes, StopsIndexing
  <1> QED BY <1>2, <1>3, Zenon

\* The documents at the start.
LEMMA FirstDocuments ==
    ASSUME Init, NEW k \in Keys
    PROVE  Documents[k] = IF k \in Stored THEN FirstDoc ELSE None
  <1>1. HistType
    BY HeldStarts, Zenon DEF Held, StoresHeld
  <1> DEFINE w == [j \in Stored |-> FirstDoc]
  <1>2. Len(hist) = 1 /\ hist[1].writes = w /\ DOMAIN w = Stored
    BY Zenon DEF Init
  <1>3. k \in Stored => w[k] = FirstDoc
    BY Zenon
  <1> HIDE DEF w
  <1>4. 1 \in 0 .. Len(hist) /\ Documents[k] = DocsAfter(1)[k]
    BY <1>2 DEF Documents
  <1>5. \A m \in 1 .. 1 : m = 1
    OBVIOUS
  <1> QED BY <1>1, <1>2, <1>3, <1>4, <1>5, DocsAfterIs, SMTT(40)

\* as it is with the first documents.
LEMMA LogStarts ==
    ASSUME Init
    PROVE  LogReplays
  <1>2. \A e \in FirstEvents : e.doc = FirstDoc /\ e.key \in Stored
    BY DEF FirstEvents
  <1>3. \A k \in Stored : \E e \in FirstEvents : e.key = k
    <2> SUFFICES ASSUME NEW k \in Stored
                 PROVE  \E e \in FirstEvents : e.key = k
      BY Zenon
    <2> DEFINE e == [op |-> "insert", key |-> k, doc |-> FirstDoc]
    <2>1. e \in FirstEvents /\ e.key = k
      BY Zenon DEF FirstEvents
    <2> QED BY <2>1, Zenon
  <1>4. PICK q \in Seq(FirstEvents) : log = <<q>> /\ \A e \in FirstEvents : \E i \in DOMAIN q : q[i] = e
    BY FirstRecord, Zenon
  <1>6. DOMAIN log = 1 .. 1 /\ log[1] = q
    BY <1>4
  <1>7. \A i \in DOMAIN q : q[i] \in FirstEvents
    BY <1>4, ElementOf, Zenon
  <1>8. \A k : k \in KeysOf(q) <=> k \in Stored
    BY <1>2, <1>3, <1>4, <1>7, Zenon DEF KeysOf
  <1> SUFFICES ASSUME NEW k \in Keys
               PROVE  Replayed(k) = Documents[k]
    BY Zenon DEF LogReplays
  <1>9. Documents[k] = IF k \in Stored THEN FirstDoc ELSE None
    BY FirstDocuments, Zenon
  <1> DEFINE R == {i \in DOMAIN log : k \in KeysOf(log[i])}
  <1>10. Replayed(k) = IF R = {} THEN None
                       ELSE log[Max(R)][Max({j \in DOMAIN log[Max(R)] : log[Max(R)][j].key = k})].doc
    BY Zenon DEF Replayed
  <1>11. CASE k \notin Stored
    <2>1. R = {}
      BY <1>6, <1>8, <1>11, SMTT(40)
    <2> QED BY <1>9, <1>10, <1>11, <2>1, Zenon
  <1>12. CASE k \in Stored
    <2>1. 1 \in R /\ R \in SUBSET (0 .. 1) /\ \A i \in R : i <= 1
      BY <1>6, <1>8, <1>12
    <2> HIDE DEF R
    <2>2. Max(R) = 1
      BY <2>1, MaxIs, Zenon
    <2> DEFINE J == {j \in DOMAIN q : q[j].key = k}
    <2>3. J # {}
      BY <1>3, <1>4, <1>12, Zenon
    <2>4. Len(q) \in Nat /\ J \in SUBSET (0 .. Len(q))
      BY <1>4
    <2> HIDE DEF J
    <2>5. Max(J) \in J
      BY <2>3, <2>4, MaxOf, Zenon
    <2>6. q[Max(J)].doc = FirstDoc
      BY <1>2, <1>7, <2>5, Zenon DEF J
    <2>7. Replayed(k) = q[Max(J)].doc
      BY <1>6, <1>10, <2>1, <2>2, Zenon DEF J
    <2> QED BY <1>9, <1>12, <2>6, <2>7, Zenon
  <1> QED BY <1>11, <1>12, Zenon

\* The change log tells the whole truth, for any number of sessions and
\* statements: replaying it gives the documents, whatever was retried, lost or
\* left unknown. Clients do not commit a transaction whose insert was refused:
\* its event is in the log and its document is not in the store.
THEOREM LogTellsTheTruth ==
    ASSUME ~CommitAfterError
    PROVE  Spec => []LogReplays
  <1>1. Init => Held /\ LogReplays
    BY HeldStarts, LogStarts, Zenon
  <1>2. Held /\ LogReplays /\ [Next]_vars => Held' /\ LogReplays'
    BY HeldStep, LogStep, Zenon
  <1> QED BY <1>1, <1>2, PTL DEF Spec

-----------------------------------------------------------------------------
(* The search index.                                                        *)

\* What session x is still to index fits the search index srch, and leaves
\* the documents docs in it.
CleanIn(x, srch, docs) ==
    /\ Chained(x, x.next, srch)
    /\ \A i \in x.next .. Len(x.events) : Final(x.events, i) => docs[x.events[i].key] = x.events[i].doc

\* A session that indexes has keys in doubt only, or is alone to index keys
\* that are in step.
PostInv ==
    \A s \in Sessions : ses[s].pc = "post" =>
        /\ ses[s].stale \subseteq tainted
        /\ \/ KeysOf(Pending(ses[s])) \subseteq tainted
           \/ /\ CleanIn(ses[s], search, Documents)
              /\ \A r \in Sessions \ {s} : KeysOf(Pending(ses[r])) \cap KeysOf(Pending(ses[s])) = {}

\* The inductive invariant behind SearchInSync.
SyncInv == PostInv /\ SearchInSync

\* Only the keys that are left to index matter.
LEMMA CleanKeeps ==
    ASSUME NEW x \in SessionType, x.pc = "post", NEW f, NEW d, NEW g, NEW e, CleanIn(x, f, d),
           \A k \in KeysOf(Pending(x)) : g[k] = f[k] /\ e[k] = d[k]
    PROVE  CleanIn(x, g, e)
  <1>1. KeysOf(Pending(x)) = {x.events[i].key : i \in x.next .. Len(x.events)}
    BY KeysOfType, Zenon
  <1>2. \A i \in x.next .. Len(x.events) : x.events[i].key \in KeysOf(Pending(x))
    BY <1>1, Zenon
  <1>3. \A i \in x.next .. Len(x.events) : g[x.events[i].key] = f[x.events[i].key] /\ e[x.events[i].key] = d[x.events[i].key]
    BY <1>2, Zenon
  <1>4. Chained(x, x.next, g)
    BY <1>3, Zenon DEF CleanIn, Chained
  <1> QED BY <1>3, <1>4, Zenon DEF CleanIn

\* A step in which session s becomes z changes nothing of what the other
\* sessions are to index, unless it puts their keys in doubt.
Spares(s, z) ==
    \A r \in Sessions \ {s} :
        \/ KeysOf(Pending(ses[r])) \subseteq tainted'
        \/ /\ \A k \in KeysOf(Pending(ses[r])) : search'[k] = search[k] /\ Documents'[k] = Documents[k]
           /\ KeysOf(Pending(z)) \cap KeysOf(Pending(ses[r])) = {}

\* PostInv of the session that takes the step.
PostOf(s, z) ==
    z.pc = "post" =>
        /\ z.stale \subseteq tainted'
        /\ \/ KeysOf(Pending(z)) \subseteq tainted'
           \/ /\ CleanIn(z, search', Documents')
              /\ \A r \in Sessions \ {s} : KeysOf(Pending(ses[r])) \cap KeysOf(Pending(z)) = {}

\* SearchInSync of the keys the step has to do with.
SyncOf(s, z) ==
    \A k \in Keys \ tainted' :
        \/ k \in KeysOf(Pending(z))
        \/ search'[k] = Documents'[k]
        \/ /\ k \notin KeysOf(Pending(ses[s]))
           /\ search'[k] = search[k] /\ Documents'[k] = Documents[k]

\* A step of session s, seen by the sessions that index.
LEMMA OthersPost ==
    ASSUME Held, PostInv, NEW s \in Sessions, NEW z, ses' = [ses EXCEPT ![s] = z], tainted \subseteq tainted',
           Spares(s, z), PostOf(s, z)
    PROVE  PostInv'
  <1>0. \A r \in Sessions : ses'[r] = IF r = s THEN z ELSE ses[r]
    BY Zenon DEF Held, SessionsHeld
  <1> SUFFICES ASSUME NEW t \in Sessions, ses'[t].pc = "post"
               PROVE  /\ ses'[t].stale \subseteq tainted'
                      /\ \/ KeysOf(Pending(ses'[t])) \subseteq tainted'
                         \/ /\ CleanIn(ses'[t], search', Documents')
                            /\ \A r \in Sessions \ {t} : KeysOf(Pending(ses'[r])) \cap KeysOf(Pending(ses'[t])) = {}
    BY Zenon DEF PostInv
  <1>1. CASE t = s
    <2>1. ses'[t] = z /\ \A r \in Sessions \ {s} : ses'[r] = ses[r]
      BY <1>0, <1>1, Zenon
    <2> QED BY <1>1, <2>1, Zenon DEF PostOf
  <1>2. CASE t # s
    <2>1. ses'[t] = ses[t] /\ t \in Sessions \ {s}
      BY <1>0, <1>2, Zenon
    <2>2. ses[t].pc = "post" /\ ses[t] \in SessionType
      BY <2>1, HeldOf, Zenon
    <2>3. ses[t].stale \subseteq tainted'
      BY <2>2, Zenon DEF PostInv
    <2>4. CASE KeysOf(Pending(ses[t])) \subseteq tainted'
      BY <2>1, <2>3, <2>4, Zenon
    <2>5. CASE ~(KeysOf(Pending(ses[t])) \subseteq tainted')
      <3>1. /\ \A k \in KeysOf(Pending(ses[t])) : search'[k] = search[k] /\ Documents'[k] = Documents[k]
            /\ KeysOf(Pending(z)) \cap KeysOf(Pending(ses[t])) = {}
        BY <2>1, <2>5, Zenon DEF Spares
      <3>2. /\ CleanIn(ses[t], search, Documents)
            /\ \A r \in Sessions \ {t} : KeysOf(Pending(ses[r])) \cap KeysOf(Pending(ses[t])) = {}
        BY <2>2, <2>5, Zenon DEF PostInv
      <3>3. CleanIn(ses[t], search', Documents')
        BY <2>2, <3>1, <3>2, CleanKeeps, Zenon
      <3>4. \A r \in Sessions \ {t} : KeysOf(Pending(ses'[r])) \cap KeysOf(Pending(ses[t])) = {}
        BY <1>0, <3>1, <3>2, Zenon
      <3> QED BY <2>1, <2>3, <3>3, <3>4, Zenon
    <2> QED BY <2>4, <2>5, Zenon
  <1> QED BY <1>1, <1>2, Zenon

\* Search and documents stay in agreement at every key where a step of one
\* session keeps them so.
LEMMA SyncStays ==
    ASSUME Held, SearchInSync, NEW s \in Sessions, NEW z, ses' = [ses EXCEPT ![s] = z], tainted \subseteq tainted',
           SyncOf(s, z)
    PROVE  SearchInSync'
  <1>0. \A r \in Sessions : ses'[r] = IF r = s THEN z ELSE ses[r]
    BY Zenon DEF Held, SessionsHeld
  <1> SUFFICES ASSUME NEW k \in Keys \ tainted'
               PROVE  \/ \E r \in Sessions : k \in KeysOf(Pending(ses'[r]))
                      \/ search'[k] = Documents'[k]
    BY Zenon DEF SearchInSync
  <1>1. CASE k \in KeysOf(Pending(z))
    BY <1>0, <1>1, Zenon
  <1>2. CASE k \notin KeysOf(Pending(ses[s])) /\ search'[k] = search[k] /\ Documents'[k] = Documents[k]
    <2>1. k \in Keys \ tainted
      BY Zenon
    <2>2. CASE search[k] = Documents[k]
      BY <1>2, <2>2, Zenon
    <2>3. ASSUME NEW r \in Sessions, k \in KeysOf(Pending(ses[r]))
          PROVE  \E t \in Sessions : k \in KeysOf(Pending(ses'[t]))
      <3>1. r # s
        BY <1>2, <2>3, Zenon
      <3>2. ses'[r] = ses[r]
        BY <1>0, <3>1, Zenon
      <3> QED BY <2>3, <3>2, Zenon
    <2> QED BY <2>1, <2>2, <2>3, Zenon DEF SearchInSync
  <1> QED BY <1>1, <1>2, Zenon DEF SyncOf

\* A step of a session that does not index, before it or after it.
LEMMA QuietSync ==
    ASSUME Held, SyncInv, NEW s \in Sessions, NEW z, ses' = [ses EXCEPT ![s] = z], ses[s].pc # "post", z.pc # "post",
           UNCHANGED <<hist, search, tainted>>
    PROVE  SyncInv'
  <1>1. Pending(ses[s]) = <<>> /\ Pending(z) = <<>>
    BY Zenon DEF Pending
  <1>2. KeysOf(Pending(ses[s])) = {} /\ KeysOf(Pending(z)) = {}
    BY <1>1 DEF KeysOf
  <1>3. Documents' = Documents
    BY Zenon DEF Documents, DocsAfter
  <1>4. PostInv /\ SearchInSync /\ tainted \subseteq tainted'
    BY Zenon DEF SyncInv
  <1>5. Spares(s, z) /\ PostOf(s, z)
    BY <1>2, <1>3, Zenon DEF Spares, PostOf
  <1>6. PostInv'
    BY <1>4, <1>5, OthersPost, Zenon
  <1>7. SyncOf(s, z)
    BY <1>2, <1>3, Zenon DEF SyncOf
  <1>8. SearchInSync'
    BY <1>4, <1>7, SyncStays, Zenon
  <1> QED BY <1>6, <1>8, Zenon DEF SyncInv

\* What is next to index, when the session is in step.
LEMMA HeadFits ==
    ASSUME NEW x \in SessionType, Pending(x) # <<>>, NEW docs, CleanIn(x, search, docs)
    PROVE  LET e == x.events[x.next] IN Fits(x, e, search[e.key])
  <1>1. x.next \in 1 .. Len(x.events) /\ Len(x.events) \in Nat
    BY HeadOf, Zenon
  <1>2. First(x.events, x.next, x.next)
    BY <1>1 DEF First
  <1>3. x.next \in x.next .. Len(x.events)
    BY <1>1
  <1> QED BY <1>2, <1>3, Zenon DEF CleanIn, Chained

\* A session stops indexing.
LEMMA StopSync ==
    ASSUME Held, SyncInv, NEW s \in Sessions, NEW z, ses' = [ses EXCEPT ![s] = z], StopsIndexing(s, z)
    PROVE  SyncInv'
  <1> DEFINE x == ses[s]
  <1>8. x.pc = "post" /\ z.pc = "idle" /\ UNCHANGED <<hist, search>> /\ tainted \subseteq tainted'
    BY Zenon DEF StopsIndexing
  <1>9. x \in SessionType
    BY HeldOf, Zenon
  <1>0. /\ x.pc = "post" /\ z.pc = "idle" /\ UNCHANGED <<hist, search>> /\ tainted \subseteq tainted'
        /\ x \in SessionType
    BY <1>8, <1>9, Zenon
  <1>1. KeysOf(Pending(z)) = {} /\ Documents' = Documents
    <2>1. Pending(z) = <<>>
      BY <1>0, Zenon DEF Pending
    <2> QED BY <1>0, <2>1 DEF KeysOf, Documents, DocsAfter
  <1>2. KeysOf(Pending(x)) \subseteq tainted'
    <2>1. CASE Pending(x) = <<>>
      BY <2>1 DEF KeysOf
    <2>2. CASE tainted' = tainted \cup KeysOf(Pending(x))
      BY <2>2, Zenon
    <2>3. CASE /\ Pending(x) # <<>> /\ UNCHANGED tainted
               /\ Blocks(Head(Pending(x)))
      <3>1. CASE KeysOf(Pending(x)) \subseteq tainted
        BY <2>3, <3>1, Zenon
      <3>2. CASE CleanIn(x, search, Documents)
        <4> DEFINE e == x.events[x.next]
        <4>1. Fits(x, e, search[e.key])
          BY <1>0, <2>3, <3>2, HeadFits, Zenon
        <4>2. Blocks(e)
          BY <1>0, <2>3, HeadOf, Zenon
        <4> HIDE DEF e
        <4>3. FALSE
          BY <4>1, <4>2, Zenon DEF Fits, Refused, Blocks
        <4> QED BY <4>3, Zenon
      <3> QED BY <1>0, <3>1, <3>2, Zenon DEF SyncInv, PostInv
    <2> QED BY <2>1, <2>2, <2>3, Zenon DEF StopsIndexing
  <1>3. PostInv /\ SearchInSync /\ z.pc # "post"
    BY <1>0, Zenon DEF SyncInv
  <1>4. Spares(s, z) /\ PostOf(s, z)
    BY <1>0, <1>1, <1>3, Zenon DEF Spares, PostOf
  <1>5. PostInv'
    BY <1>0, <1>3, <1>4, OthersPost, Zenon
  <1>6. SyncOf(s, z)
    BY <1>0, <1>1, <1>2, Zenon DEF SyncOf
  <1>7. SearchInSync'
    BY <1>0, <1>3, <1>6, SyncStays, Zenon
  <1> QED BY <1>5, <1>7, Zenon DEF SyncInv

\* The document the search index gets of event e: the one of the event,
\* unless the key is stale.
LEMMA PackedIs ==
    ASSUME Held, NEW x \in SessionType, NEW e \in Event, Fits(x, e, search[e.key])
    PROVE  /\ e.key \notin x.stale => Packed(x, e) = e.doc
           /\ \A f, d : Fits(x, f, e.doc) /\ d = Packed(x, e) /\ f.key = e.key => Fits(x, f, d)
  <1>1. CASE e.op # "update"
    <2>1. Packed(x, e) = e.doc
      BY <1>1, Zenon DEF Packed
    <2> QED BY <2>1, Zenon
  <1>2. CASE e.op = "update"
    <2> DEFINE d == e.doc
               s == search[e.key]
               o == d.object \cup (s.object \ x.tentative)
    <2>1. d \in Docs /\ e.key \in Keys
      BY <1>2, Zenon DEF Event
    <2>2. s # None /\ s \in Docs \cup {None} /\ (e.key \in x.stale \/ s.object \subseteq x.tentative)
      BY <1>2, <2>1, Zenon DEF Fits, Held, StoresHeld
    <2>3. Packed(x, e) = [d EXCEPT !.object = o]
      BY <1>2, Zenon DEF Packed
    <2>4. d.object \in SUBSET Parts /\ s.object \in SUBSET Parts
      BY <2>1, <2>2, Zenon DEF Docs
    <2> HIDE DEF d, s
    <2>5. [d EXCEPT !.object = o] \in Docs
      BY <2>1, <2>4, Zenon DEF Docs
    <2>6. e.key \notin x.stale => [d EXCEPT !.object = o] = d
      <3> SUFFICES ASSUME e.key \notin x.stale
                   PROVE  [d EXCEPT !.object = o] = d
        BY Zenon
      <3>1. o = d.object
        BY <2>2, Zenon
      <3> HIDE DEF o
      <3> QED BY <2>1, <3>1, Zenon DEF Docs
    <2>7. Packed(x, e) \in Docs /\ (e.key \notin x.stale => Packed(x, e) = e.doc)
      BY <2>3, <2>5, <2>6, Zenon DEF d
    <2>8. Packed(x, e) # None /\ e.doc # None
      BY <2>1, <2>7, NoneAssumption, Zenon DEF d
    <2>9. ASSUME NEW f, Fits(x, f, e.doc), f.key = e.key
          PROVE  Fits(x, f, Packed(x, e))
      BY <2>7, <2>8, <2>9, Zenon DEF Fits
    <2> QED BY <2>7, <2>9, Zenon
  <1> QED BY <1>1, <1>2, Zenon

\* The session that indexes stays in step.
LEMMA CleanAdvances ==
    ASSUME Held, NEW x \in SessionType, Pending(x) # <<>>, CleanIn(x, search, Documents),
           NEW z \in SessionType, z.events = x.events, z.stale = x.stale, z.tentative = x.tentative, z.next = x.next + 1,
           search' = [search EXCEPT ![x.events[x.next].key] = Packed(x, x.events[x.next])]
    PROVE  CleanIn(z, search', Documents)
  <1> DEFINE n == x.next
             ev == x.events
             e == ev[n]
             m == Len(ev)
  <1>1. n \in 1 .. m /\ m \in Nat /\ e \in Event
    BY HeadOf, Zenon
  <1>2. Fits(x, e, search[e.key])
    BY HeadFits, Zenon
  <1>3. e.key \in Keys /\ search \in [Keys -> Docs \cup {None}]
    BY <1>1, Zenon DEF Event, Held, StoresHeld
  <1>4. \A i \in n .. m : ev[i].key \in Keys
    <2>1. ev \in Seq(Event)
      BY Zenon DEF SessionType
    <2>2. \A i \in n .. m : i \in DOMAIN ev
      BY <1>1, <2>1
    <2>3. \A i \in n .. m : ev[i] \in Event
      BY <2>1, <2>2, ElementOf, Zenon
    <2> QED BY <2>3, Zenon DEF Event
  <1>5. \A k \in Keys : search'[k] = IF k = e.key THEN Packed(x, e) ELSE search[k]
    BY <1>3, Zenon
  <1>6. \A i \in n .. m :
            /\ First(ev, n, i) => Fits(x, ev[i], search[ev[i].key])
            /\ \A j \in n .. i - 1 : Follows(ev, j, i) => Fits(x, ev[i], ev[j].doc)
    BY Zenon DEF CleanIn, Chained
  <1>7. \A f, d : Fits(z, f, d) <=> Fits(x, f, d)
    BY Zenon DEF Fits
  <1>8. \A f, d : Fits(x, f, e.doc) /\ d = Packed(x, e) /\ f.key = e.key => Fits(x, f, d)
    BY <1>1, <1>2, PackedIs, Zenon
  <1> HIDE DEF n, ev, m, e
  <1>9. ASSUME NEW i \in n + 1 .. m
        PROVE  /\ First(ev, n + 1, i) => Fits(x, ev[i], search'[ev[i].key])
               /\ \A j \in n + 1 .. i - 1 : Follows(ev, j, i) => Fits(x, ev[i], ev[j].doc)
    <2>0. i \in n .. m /\ n \in n .. i - 1
      BY <1>1
    <2>1. \A j \in n + 1 .. i - 1 : j \in n .. i - 1
      BY <1>1
    <2>2. \A j \in n + 1 .. i - 1 : Follows(ev, j, i) => Fits(x, ev[i], ev[j].doc)
      BY <1>6, <2>0, <2>1, Zenon
    <2>3. ASSUME First(ev, n + 1, i)
          PROVE  Fits(x, ev[i], search'[ev[i].key])
      <3>1. CASE ev[i].key = e.key
        <4>1. Follows(ev, n, i)
          BY <1>1, <2>3, <3>1, Zenon DEF First, Follows, e
        <4>2. Fits(x, ev[i], e.doc)
          BY <1>6, <2>0, <4>1, Zenon DEF e
        <4> QED BY <1>3, <1>5, <1>8, <3>1, <4>2, Zenon
      <3>2. CASE ev[i].key # e.key
        <4>1. First(ev, n, i)
          BY <1>1, <2>3, <3>2 DEF First, e
        <4> QED BY <1>4, <1>5, <1>6, <2>0, <3>2, <4>1, Zenon
      <3> QED BY <3>1, <3>2, Zenon
    <2> QED BY <2>2, <2>3, Zenon
  <1>10. Chained(z, n + 1, search')
    BY <1>7, <1>9, Zenon DEF Chained, ev, m
  <1>11. ASSUME NEW i \in n + 1 .. m, Final(ev, i)
         PROVE  Documents[ev[i].key] = ev[i].doc
    <2>1. i \in n .. m
      BY <1>1
    <2> QED BY <1>11, <2>1, Zenon DEF CleanIn, ev, m, n
  <1> QED BY <1>10, <1>11, Zenon DEF CleanIn, ev, m, n

\* The next event is the one to index.
Advanced(x) == [x EXCEPT !.next = @ + 1]

\* What is left to index when one more event has been.
LEMMA NextPending ==
    ASSUME NEW x \in SessionType, Pending(x) # <<>>, NEW z, z = Advanced(x)
    PROVE  /\ z \in SessionType /\ z.pc = "post" /\ z.next = x.next + 1
           /\ z.events = x.events /\ z.stale = x.stale /\ z.tentative = x.tentative
           /\ KeysOf(Pending(z)) \subseteq KeysOf(Pending(x)) /\ x.events[x.next].key \in KeysOf(Pending(x))
           /\ KeysOf(Pending(x)) \subseteq KeysOf(Pending(z)) \cup {x.events[x.next].key}
           /\ x.events[x.next].key \notin KeysOf(Pending(z)) => Final(x.events, x.next)
  <1>1. x.pc = "post" /\ x.next \in 1 .. Len(x.events) /\ Len(x.events) \in Nat
    BY HeadOf, Zenon
  <1>2. x.next + 1 \in Nat \ {0}
    BY <1>1
  <1>3. z \in SessionType
    BY <1>2, Zenon DEF SessionType, Advanced
  <1>4. /\ z.pc = "post" /\ z.next = x.next + 1
        /\ z.events = x.events /\ z.stale = x.stale /\ z.tentative = x.tentative
    BY <1>1, Zenon DEF SessionType, Advanced
  <1>5. KeysOf(Pending(x)) = {x.events[i].key : i \in x.next .. Len(x.events)}
    BY <1>1, KeysOfType, Zenon
  <1>6. KeysOf(Pending(z)) = {x.events[i].key : i \in x.next + 1 .. Len(x.events)}
    BY <1>3, <1>4, KeysOfType
  <1>7. x.next .. Len(x.events) = (x.next + 1 .. Len(x.events)) \cup {x.next}
    BY <1>1
  <1>8. KeysOf(Pending(x)) = KeysOf(Pending(z)) \cup {x.events[x.next].key}
    BY <1>5, <1>6, <1>7, Zenon
  <1>9. x.events[x.next].key \notin KeysOf(Pending(z)) => Final(x.events, x.next)
    BY <1>6, Zenon DEF Final
  <1> QED BY <1>3, <1>4, <1>8, <1>9, Zenon

\* A session indexes one more event.
LEMMA IndexSync ==
    ASSUME Held, SyncInv, NEW s \in Sessions, NEW z, ses' = [ses EXCEPT ![s] = z], Indexes(s, z)
    PROVE  SyncInv'
  <1> DEFINE x == ses[s]
             e == x.events[x.next]
  <1>1. x \in SessionType /\ Pending(x) # <<>> /\ z = Advanced(x)
    BY HeldOf, Zenon DEF Indexes, Advanced
  <1>2. /\ x.pc = "post" /\ Head(Pending(x)) = e /\ e \in Event /\ e.key \in Keys
        /\ x.next \in 1 .. Len(x.events) /\ x.next \in x.next .. Len(x.events)
    <2>1. x.pc = "post" /\ Head(Pending(x)) = e /\ e \in Event /\ x.next \in 1 .. Len(x.events) /\ Len(x.events) \in Nat
      BY <1>1, HeadOf, Zenon
    <2>2. e.key \in Keys
      BY <2>1, Zenon DEF Event
    <2> QED BY <2>1, <2>2, AheadOf, Zenon
  <1>3. search' = [search EXCEPT ![e.key] = Packed(x, e)] /\ UNCHANGED <<hist, tainted>>
    BY <1>2, ZenonT(40) DEF Indexes
  <1>4. /\ z \in SessionType /\ z.pc = "post" /\ z.next = x.next + 1
        /\ z.events = x.events /\ z.stale = x.stale /\ z.tentative = x.tentative
        /\ KeysOf(Pending(z)) \subseteq KeysOf(Pending(x)) /\ e.key \in KeysOf(Pending(x))
        /\ KeysOf(Pending(x)) \subseteq KeysOf(Pending(z)) \cup {e.key}
        /\ e.key \notin KeysOf(Pending(z)) => Final(x.events, x.next)
    BY <1>1, NextPending, Zenon
  <1>5. Documents' = Documents
    BY <1>3, Zenon DEF Documents, DocsAfter
  <1>6. \A k \in Keys : search'[k] = IF k = e.key THEN Packed(x, e) ELSE search[k]
    BY <1>2, <1>3, Zenon DEF Held, StoresHeld
  <1>7. PostInv /\ SearchInSync /\ tainted \subseteq tainted' /\ tainted' = tainted
    BY <1>3, Zenon DEF SyncInv
  <1>8. /\ x.stale \subseteq tainted
        /\ \/ KeysOf(Pending(x)) \subseteq tainted
           \/ /\ CleanIn(x, search, Documents)
              /\ \A r \in Sessions \ {s} : KeysOf(Pending(ses[r])) \cap KeysOf(Pending(x)) = {}
    BY <1>2, <1>7, ZenonT(40) DEF PostInv
  <1>9. ASSUME NEW r \in Sessions
        PROVE  KeysOf(Pending(ses[r])) \subseteq Keys
    BY HeldOf, KeysOfType, Zenon
  <1>10. \A r \in Sessions \ {s} :
            \/ KeysOf(Pending(ses[r])) \subseteq tainted
            \/ KeysOf(Pending(ses[r])) \cap KeysOf(Pending(x)) = {}
    <2> SUFFICES ASSUME NEW r \in Sessions \ {s}, ~(KeysOf(Pending(ses[r])) \subseteq tainted)
                 PROVE  KeysOf(Pending(ses[r])) \cap KeysOf(Pending(x)) = {}
      BY Zenon
    <2>1. ses[r].pc = "post"
      BY HeldOf, KeysOfType, Zenon
    <2> QED BY <1>7, <2>1, Zenon DEF PostInv
  <1>11. PostOf(s, z)
    <2>1. CASE KeysOf(Pending(x)) \subseteq tainted
      BY <1>4, <1>7, <1>8, <2>1, ZenonT(40) DEF PostOf
    <2>2. CASE /\ CleanIn(x, search, Documents)
               /\ \A r \in Sessions \ {s} : KeysOf(Pending(ses[r])) \cap KeysOf(Pending(x)) = {}
      <3>1. CleanIn(z, search', Documents)
        BY <1>1, <1>3, <1>4, <2>2, CleanAdvances, Zenon
      <3> QED BY <1>4, <1>5, <1>7, <1>8, <2>2, <3>1, Zenon DEF PostOf
    <2> QED BY <1>8, <2>1, <2>2, Zenon
  <1>12. Spares(s, z)
    <2> SUFFICES ASSUME NEW r \in Sessions \ {s}, KeysOf(Pending(ses[r])) \cap KeysOf(Pending(x)) = {}
                 PROVE  /\ \A k \in KeysOf(Pending(ses[r])) : search'[k] = search[k] /\ Documents'[k] = Documents[k]
                        /\ KeysOf(Pending(z)) \cap KeysOf(Pending(ses[r])) = {}
      BY <1>7, <1>10, Zenon DEF Spares
    <2>1. KeysOf(Pending(ses[r])) \subseteq Keys /\ e.key \notin KeysOf(Pending(ses[r]))
      BY <1>4, <1>9, Zenon
    <2> QED BY <1>4, <1>5, <1>6, <2>1, ZenonT(40)
  <1>13. SyncOf(s, z)
    <2> SUFFICES ASSUME NEW k \in Keys \ tainted, k \notin KeysOf(Pending(z)), k \in KeysOf(Pending(x))
                 PROVE  search'[k] = Documents'[k]
      <3>1. ASSUME NEW k \in Keys, k \notin KeysOf(Pending(x))
            PROVE  search'[k] = search[k]
        BY <1>4, <1>6, <3>1, Zenon
      <3> QED BY <1>5, <1>7, <3>1, Zenon DEF SyncOf
    <2>1. k = e.key /\ Final(x.events, x.next)
      BY <1>4, Zenon
    <2>2. CleanIn(x, search, Documents) /\ e.key \notin x.stale
      BY <1>8, <2>1, Zenon
    <2>3. Documents[e.key] = e.doc
      BY <1>2, <2>1, <2>2, ZenonT(40) DEF CleanIn
    <2>4. Fits(x, e, search[e.key])
      BY <1>1, <2>2, HeadFits, Zenon
    <2>5. Packed(x, e) = e.doc
      BY <1>1, <1>2, <2>2, <2>4, PackedIs, Zenon
    <2> QED BY <1>2, <1>5, <1>6, <2>1, <2>3, <2>5, Zenon
  <1>14. PostInv'
    BY <1>7, <1>11, <1>12, OthersPost, Zenon
  <1>15. SearchInSync'
    BY <1>7, <1>13, SyncStays, ZenonT(40)
  <1> QED BY <1>14, <1>15, Zenon DEF SyncInv

\* No session but s is to index a key that s has written.
Alone(s) == \A r \in Sessions \ {s} : KeysOf(Pending(ses[r])) \cap KeysOf(ses[s].events) = {}

\* The keys a commit puts in doubt: those of the sessions that are to index
\* a key of it, and its own unless it is alone.
LEMMA DoubtIs ==
    ASSUME Held, NEW s \in Sessions
    PROVE  /\ \A r \in Sessions \ {s} :
                \/ KeysOf(Pending(ses[r])) \subseteq InDoubt(s)
                \/ KeysOf(Pending(ses[r])) \cap KeysOf(ses[s].events) = {}
           /\ ses[s].stale \subseteq InDoubt(s)
           /\ KeysOf(ses[s].events) \subseteq InDoubt(s) \/ (Alone(s) /\ KeysOf(ses[s].events) \cap tainted = {})
  <1> DEFINE mine == KeysOf(ses[s].events)
             rivals == {r \in Sessions \ {s} : KeysOf(Pending(ses[r])) \cap mine # {}}
  <1>1. ses[s].stale \subseteq mine
    BY HeldOf, Zenon DEF Local
  <1>2. InDoubt(s) = IF rivals = {} /\ mine \cap tainted = {} THEN ses[s].stale
                     ELSE mine \cup UNION {KeysOf(Pending(ses[r])) : r \in rivals}
    BY Zenon DEF InDoubt
  <1>3. CASE rivals = {} /\ mine \cap tainted = {}
    BY <1>2, <1>3, Zenon DEF Alone
  <1>4. CASE ~(rivals = {} /\ mine \cap tainted = {})
    <2>1. InDoubt(s) = mine \cup UNION {KeysOf(Pending(ses[r])) : r \in rivals}
      BY <1>2, <1>4, Zenon
    <2>2. \A r \in Sessions \ {s} : r \in rivals \/ KeysOf(Pending(ses[r])) \cap mine = {}
      BY Zenon
    <2> QED BY <1>1, <2>1, <2>2, Zenon
  <1> QED BY <1>3, <1>4, Zenon

\* The documents after a commit.
LEMMA CommitDocs ==
    ASSUME Held, NEW s \in Sessions, Durable(ses[s])
    PROVE  \A k \in Keys : Documents'[k] = IF k \in DOMAIN ses[s].writes THEN ses[s].writes[k] ELSE Documents[k]
  <1> DEFINE w == ses[s].writes
             id == ses[s].id
  <1>1. w \in WriteSets /\ HistType
    BY HeldOf, Zenon DEF SessionType
  <1>2. hist' = Append(hist, [id |-> id, writes |-> w])
    BY Zenon DEF Durable
  <1> HIDE DEF w, id
  <1>3. \A k \in Keys : Documents'[k] = IF k \in DOMAIN w THEN w[k] ELSE Documents[k]
    BY <1>1, <1>2, DocsAfterCommit, Zenon
  <1> QED BY <1>3, Zenon DEF w

\* A transaction without a conflict has read what is there when it commits.
LEMMA ReadsLast ==
    ASSUME Held, NEW s \in Sessions, ~Conflict(ses[s]), NEW k \in ses[s].reads, k \in KeysOf(ses[s].events)
    PROVE  DocsAfter(ses[s].snap)[k] = Documents[k]
  <1> DEFINE m == ses[s].snap
             n == Len(hist)
  <1>1. HistType /\ n \in Nat /\ m \in 0 .. n /\ k \in Keys
    BY HeldOf, Zenon DEF SessionType
  <1>2. ses[s].events # <<>>
    BY DEF KeysOf
  <1>3. \A i \in m + 1 .. n : k \notin DOMAIN hist[i].writes
    BY <1>2, Zenon DEF Conflict
  <1>4. n \in 0 .. Len(hist) /\ m \in 0 .. n
    BY <1>1
  <1> HIDE DEF m
  <1>5. DocsAfter(n)[k] = DocsAfter(m)[k]
    BY <1>1, <1>3, <1>4, DocsAfterSame, Zenon
  <1> QED BY <1>5, Zenon DEF Documents, m

\* A commit that is alone leaves a session in step.
LEMMA CommitClean ==
    ASSUME ~CommitAfterError, Held, SearchInSync, NEW s \in Sessions, Committing(s), ~Conflict(ses[s]), Durable(ses[s]),
           Alone(s), KeysOf(ses[s].events) \cap tainted = {},
           NEW z, z.events = ses[s].events, z.next = 1, z.stale = ses[s].stale, z.tentative = ses[s].tentative
    PROVE  CleanIn(z, search, Documents')
  <1> DEFINE x == ses[s]
             ev == x.events
             m == Len(ev)
             D == DocsAfter(x.snap)
  <1>1. Sound(x, D) /\ x.pc \in {"open", "ran"}
    BY CommittingSound, Zenon DEF TxSound
  <1>2. x \in SessionType /\ ev \in Seq(Event) /\ m \in Nat
    <2>1. x \in SessionType
      BY HeldOf, Zenon
    <2> HIDE DEF x
    <2> QED BY <2>1 DEF SessionType
  <1>3. \A i \in 1 .. m : ev[i].key \in KeysOf(ev) /\ ev[i].key \in Keys
    <2>1. KeysOf(ev) \subseteq Keys /\ \A i \in 1 .. m : i \in DOMAIN ev
      BY <1>2, KeysOfType, SMTT(40)
    <2> QED BY <2>1, Zenon DEF KeysOf
  <1>4. ASSUME NEW k \in KeysOf(ev)
        PROVE  search[k] = Documents[k]
    <2>1. KeysOf(Pending(x)) = {} /\ k \in Keys
      BY <1>1, <1>2, KeysOfType, Zenon
    <2>2. \A r \in Sessions : k \notin KeysOf(Pending(ses[r]))
      BY <2>1, Zenon DEF Alone
    <2> QED BY <2>1, <2>2, Zenon DEF SearchInSync
  <1>5. ASSUME NEW i \in 1 .. m, ev[i].op # "replace"
        PROVE  D[ev[i].key] = search[ev[i].key]
    <2> DEFINE k == ev[i].key
    <2>1. k \in x.reads /\ k \in KeysOf(ev)
      BY <1>1, <1>3, <1>5, Zenon DEF Sound
    <2> HIDE DEF k
    <2>2. D[k] = Documents[k]
      BY <2>1, ReadsLast, Zenon
    <2> QED BY <1>4, <2>1, <2>2, Zenon DEF k
  <1>6. \A f, d : Fits(z, f, d) <=> Fits(x, f, d)
    BY Zenon DEF Fits
  <1>7. \A f, d : f.op = "replace" => Fits(x, f, d)
    BY Zenon DEF Fits
  <1>8. Chained(x, 1, D)
    BY <1>1, Zenon DEF Sound
  <1> HIDE DEF D
  <1>9. ASSUME NEW i \in 1 .. m
        PROVE  /\ First(ev, 1, i) => Fits(x, ev[i], search[ev[i].key])
               /\ \A j \in 1 .. i - 1 : Follows(ev, j, i) => Fits(x, ev[i], ev[j].doc)
    <2>1. First(ev, 1, i) => Fits(x, ev[i], D[ev[i].key])
      BY <1>8, Zenon DEF Chained
    <2>2. \A j \in 1 .. i - 1 : Follows(ev, j, i) => Fits(x, ev[i], ev[j].doc)
      BY <1>8, Zenon DEF Chained
    <2>3. First(ev, 1, i) => Fits(x, ev[i], search[ev[i].key])
      BY <1>5, <1>7, <2>1, Zenon
    <2> QED BY <2>2, <2>3, Zenon
  <1>10. Chained(z, 1, search)
    BY <1>6, <1>9, Zenon DEF Chained
  <1>11. ASSUME NEW i \in 1 .. m, Final(ev, i)
         PROVE  Documents'[ev[i].key] = ev[i].doc
    <2>1. ev[i].key \in DOMAIN x.writes /\ x.writes[ev[i].key] = ev[i].doc
      BY <1>1, <1>11, Zenon DEF Sound, WritesLast
    <2> QED BY <1>3, <2>1, CommitDocs, Zenon
  <1> QED BY <1>10, <1>11, Zenon DEF CleanIn

\* The transaction is committed.
Posted(x) == [x EXCEPT !.pc = "post"]

\* A session whose transaction has committed is to index all its events.
LEMMA PostPending ==
    ASSUME NEW x \in SessionType, x.next = 1, NEW z, z = Posted(x)
    PROVE  /\ z.pc = "post" /\ z.next = 1
           /\ z.events = x.events /\ z.stale = x.stale /\ z.tentative = x.tentative
           /\ KeysOf(Pending(z)) = KeysOf(x.events)
  <1>1. z \in SessionType
    BY Zenon DEF SessionType, Posted
  <1>2. /\ z.pc = "post" /\ z.next = 1
        /\ z.events = x.events /\ z.stale = x.stale /\ z.tentative = x.tentative
    BY Zenon DEF SessionType, Posted
  <1>3. KeysOf(Pending(z)) = {x.events[i].key : i \in 1 .. Len(x.events)}
    BY <1>1, <1>2, KeysOfType, SMTT(40)
  <1>4. DOMAIN x.events = 1 .. Len(x.events)
    BY DEF SessionType
  <1> QED BY <1>2, <1>3, <1>4, Zenon DEF KeysOf

\* A transaction commits, known to its session or not. tainted' has the keys
\* in doubt, and z is to index the events or leaves their keys in doubt.
LEMMA CommitSync ==
    ASSUME ~CommitAfterError, Held, SyncInv, NEW s \in Sessions, NEW z, ses' = [ses EXCEPT ![s] = z],
           Commits(s, z) \/ CommitsUnknown(s, z)
    PROVE  SyncInv'
  <1> DEFINE x == ses[s]
             mine == KeysOf(x.events)
  <1>1. /\ Committing(s) /\ ~Conflict(x) /\ Durable(x) /\ search' = search
        /\ tainted \cup InDoubt(s) \subseteq tainted'
    BY Zenon DEF Commits, CommitsUnknown
  <1>2. x \in SessionType /\ x.next = 1 /\ x.pc \in {"open", "ran"} /\ DOMAIN x.writes \subseteq mine
    BY <1>1, CommittingSound, HeldOf, Zenon
  <1>3. KeysOf(Pending(x)) = {} /\ mine \subseteq Keys
    BY <1>2, KeysOfType, Zenon
  <1>4. \A k \in Keys \ mine : Documents'[k] = Documents[k]
    BY <1>1, <1>2, CommitDocs, Zenon
  <1>5. PostInv /\ SearchInSync /\ tainted \subseteq tainted'
    BY <1>1, Zenon DEF SyncInv
  <1>6. \/ /\ z.pc = "post" /\ z.next = 1
           /\ z.events = x.events /\ z.stale = x.stale /\ z.tentative = x.tentative
           /\ KeysOf(Pending(z)) = mine
        \/ z.pc = "idle" /\ KeysOf(Pending(z)) = {} /\ mine \subseteq tainted'
    <2>1. CASE Commits(s, z)
      <3>1. z = Posted(x)
        BY <2>1, Zenon DEF Commits, Posted
      <3> QED BY <1>2, <3>1, PostPending, Zenon
    <2>2. CASE CommitsUnknown(s, z)
      <3>1. z.pc = "idle" /\ mine \subseteq tainted'
        BY <2>2, Zenon DEF CommitsUnknown
      <3>2. Pending(z) = <<>>
        BY <3>1, Zenon DEF Pending
      <3> QED BY <3>1, <3>2, SMTT(40) DEF KeysOf
    <2> QED BY <2>1, <2>2, Zenon
  <1>7. KeysOf(Pending(z)) \subseteq mine
    BY <1>6, Zenon
  <1>8. ASSUME NEW r \in Sessions
        PROVE  KeysOf(Pending(ses[r])) \subseteq Keys
    BY HeldOf, KeysOfType, Zenon
  <1>9. Spares(s, z)
    <2> SUFFICES ASSUME NEW r \in Sessions \ {s}, ~(KeysOf(Pending(ses[r])) \subseteq tainted')
                 PROVE  /\ \A k \in KeysOf(Pending(ses[r])) : search'[k] = search[k] /\ Documents'[k] = Documents[k]
                        /\ KeysOf(Pending(z)) \cap KeysOf(Pending(ses[r])) = {}
      BY Zenon DEF Spares
    <2>1. KeysOf(Pending(ses[r])) \cap mine = {} /\ KeysOf(Pending(ses[r])) \subseteq Keys
      BY <1>1, <1>8, DoubtIs, Zenon
    <2> QED BY <1>1, <1>4, <1>7, <2>1, Zenon
  <1>10. PostOf(s, z)
    <2> SUFFICES ASSUME z.pc = "post"
                 PROVE  /\ z.stale \subseteq tainted'
                        /\ \/ KeysOf(Pending(z)) \subseteq tainted'
                           \/ /\ CleanIn(z, search', Documents')
                              /\ \A r \in Sessions \ {s} : KeysOf(Pending(ses[r])) \cap KeysOf(Pending(z)) = {}
      BY Zenon DEF PostOf
    <2>1. /\ z.next = 1 /\ z.events = x.events /\ z.stale = x.stale /\ z.tentative = x.tentative
          /\ KeysOf(Pending(z)) = mine
      BY <1>6, Zenon
    <2>2. z.stale \subseteq tainted'
      BY <1>1, <2>1, DoubtIs, Zenon
    <2>3. CASE mine \subseteq tainted'
      BY <2>1, <2>2, <2>3, Zenon
    <2>4. CASE Alone(s) /\ mine \cap tainted = {}
      <3>1. CleanIn(z, search, Documents')
        BY <1>1, <1>5, <2>1, <2>4, CommitClean, Zenon
      <3> QED BY <1>1, <2>1, <2>2, <2>4, <3>1, Zenon DEF Alone
    <2> QED BY <1>1, <2>3, <2>4, DoubtIs, ZenonT(40)
  <1>11. SyncOf(s, z)
    <2> SUFFICES ASSUME NEW k \in Keys \ tainted', k \notin KeysOf(Pending(z))
                 PROVE  search'[k] = search[k] /\ Documents'[k] = Documents[k]
      BY <1>3, Zenon DEF SyncOf
    <2>1. k \notin mine
      BY <1>6, Zenon
    <2> QED BY <1>1, <1>4, <2>1, Zenon
  <1>12. PostInv'
    BY <1>5, <1>9, <1>10, OthersPost, Zenon
  <1>13. SearchInSync'
    BY <1>5, <1>11, SyncStays, Zenon
  <1> QED BY <1>12, <1>13, Zenon DEF SyncInv

\* Every step keeps the search index in step.
LEMMA SyncStep ==
    ASSUME ~CommitAfterError, Held, SyncInv, [Next]_vars
    PROVE  SyncInv'
  <1>1. CASE UNCHANGED vars
    <2>1. UNCHANGED <<hist, search, ses, tainted>>
      BY <1>1, Zenon DEF vars
    <2>2. Documents' = Documents
      BY <2>1, Zenon DEF Documents, DocsAfter
    <2> QED BY <2>1, <2>2, Zenon DEF SyncInv, PostInv, SearchInSync
  <1>2. CASE Next
    <2>0. PICK s \in Sessions : \E z : ses' = [ses EXCEPT ![s] = z] /\ Step(s, z)
      BY <1>2, StepIs, Zenon
    <2>1. PICK z : ses' = [ses EXCEPT ![s] = z] /\ Step(s, z)
      BY <2>0, Zenon
    <2>2. CASE Begins(s, z) \/ GoesOn(s, z) \/ GivesUp(s, z)
      <3>1. ses[s].pc # "post" /\ z.pc # "post" /\ UNCHANGED <<hist, search, tainted>>
        BY <2>2, Zenon DEF Begins, GoesOn, GivesUp
      <3> QED BY <2>1, <3>1, QuietSync, Zenon
    <2>3. CASE Commits(s, z) \/ CommitsUnknown(s, z)
      BY <2>1, <2>3, CommitSync, Zenon
    <2>4. CASE Indexes(s, z)
      BY <2>1, <2>4, IndexSync, Zenon
    <2>5. CASE StopsIndexing(s, z)
      BY <2>1, <2>5, StopSync, Zenon
    <2> QED BY <2>1, <2>2, <2>3, <2>4, <2>5, Zenon DEF Step
  <1> QED BY <1>1, <1>2, Zenon

\* The first documents are indexed.
LEMMA SyncStarts ==
    ASSUME Init
    PROVE  SyncInv
  <1>1. \A s \in Sessions : ses[s].pc = "idle"
    BY Zenon DEF Init, Idle
  <1>2. PostInv
    BY <1>1, Zenon DEF PostInv
  <1>3. SearchInSync
    BY FirstDocuments, Zenon DEF Init, SearchInSync
  <1> QED BY <1>2, <1>3, Zenon DEF SyncInv

\* The search index differs from the documents only for a known reason,
\* however commits, conflicts, retries, unknown results and the indexing of
\* several sessions interleave (search_indexer.go OnPostCommit), when
\* clients do not commit a transaction one of whose inserts was refused.
THEOREM SearchFollows ==
    ASSUME ~CommitAfterError
    PROVE  Spec => []SearchInSync
  <1>1. Init => Held /\ SyncInv
    BY HeldStarts, SyncStarts, Zenon
  <1>2. Held /\ SyncInv /\ [Next]_vars => Held' /\ SyncInv'
    BY HeldStep, SyncStep, Zenon
  <1>3. SyncInv => SearchInSync
    BY Zenon DEF SyncInv
  <1> QED BY <1>1, <1>2, <1>3, PTL DEF Spec

=============================================================================
