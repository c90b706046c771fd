------------------------ MODULE MetadataCacheSteps -------------------------
(***************************************************************************)
(* Every step of MetadataCache keeps the types of its variables, and a     *)
(* step of one request keeps what VersionInv says of it; and the facts     *)
(* about the operators that the proofs rest on.                            *)
(***************************************************************************)
EXTENDS MetadataCache, TLAPS

\* The latest of a set of revisions is a number.
LEMMA LatestType ==
    ASSUME NEW S \in SUBSET Nat
    PROVE  Latest(S) \in Nat
  <1>1. CASE \E v \in S : \A w \in S : w <= v
    <2>1. (CHOOSE v \in S : \A w \in S : w <= v) \in S
      BY <1>1, Zenon
    <2> QED BY <1>1, <2>1, Zenon DEF Latest
  <1>2. CASE ~ \E v \in S : \A w \in S : w <= v
    BY <1>2, Zenon DEF Latest
  <1> QED BY <1>1, <1>2, Zenon

\* What a reload loads has the type of a cached collection (reloadDatabase).
LEMMA ContentType ==
    ASSUME NEW m \in Metas
    PROVE  Content(m) \in Collections
  <1>1. {s.rev : s \in {x \in m.schemas : x.id = m.coll}} \in SUBSET Nat
    BY Zenon DEF Metas
  <1>2. LatestRev(m) \in Nat
    BY <1>1, LatestType, Zenon DEF LatestRev
  <1> QED BY <1>2, Zenon DEF Content, Collections, Metas

\* Whatever a statement sees, what it buffers is a DDL or nothing.
LEMMA StatementType ==
    ASSUME NEW s \in Statements, NEW c \in Collections, NEW m \in Metas
    PROVE  Statement(s, c, m) \in Ops
  <1>1. NewRev(c, m) \in Nat
    BY DEF NewRev, Collections, Metas
  <1> QED BY <1>1, Zenon DEF Collections, Statement, Statements, DropOp, CreateOp, UpdateOp, NoOp, Ops, Metas

\* The effect of a DDL is a metadata state.
LEMMA AppliedType ==
    ASSUME NEW o \in Ops, o.op # "none", NEW m \in Metas
    PROVE  Applied(o, m) \in Metas
  <1>1. WithSchema(o, m) \in SUBSET [id : Nat, rev : Nat, base : Nat]
    BY DEF WithSchema, Metas, Ops
  <1>2. NewDbVer(o, m) \in Nat
    BY Zenon DEF NewDbVer, Metas, Ops
  <1>3. CASE o.op = "create"
    BY <1>1, <1>2, <1>3 DEF Applied, Created, Metas, Ops
  <1>4. CASE o.op = "update"
    BY <1>1, <1>2, <1>4 DEF Applied, Updated, Metas, Ops
  <1>5. CASE o.op = "drop"
    BY <1>5 DEF Applied, Dropped, Metas, Ops
  <1> QED BY <1>3, <1>4, <1>5, Zenon DEF Ops

\* Next, one disjunct per action.
LEMMA NextSplit ==
    ASSUME Next
    PROVE  \/ \E r \in Reqs :
                 \/ AssignReadVersion(r)
                 \/ GetStartVersion(r)
                 \/ Track(r)
                 \/ Lock(r)
                 \/ ReadVersion(r)
                 \/ Reload(r)
                 \/ ReloadCommits(r)
                 \/ ReadInOwnTxn(r)
                 \/ RunOnCache(r)
                 \/ StopTracker(r)
                 \/ RetryOnChange(r)
                 \/ CommitDml(r)
                 \/ CommitSession(r)
                 \/ CommitOfError(r)
                 \/ CommitConflicts(r)
                 \/ RunTxnDml(r)
                 \/ RequestCommit(r)
                 \/ RollbackTransaction(r)
                 \/ Finish(r)
                 \/ ReloadFails(r)
                 \/ ReloadCommitFails(r)
                 \/ ConflictDml(r)
                 \/ CommitUnknown(r)
                 \/ \E k \in AllKinds, t \in Trackers : Begin(r, k, t)
                 \/ \E s \in Statements : RunDdl(r, s)
           \/ \E n \in Nodes : Restart(n)
  BY Zenon DEF Next, Advance, Client, Fault

\* Tip, the read versions and the states they lead to.
LEMMA LogType ==
    ASSUME LogTypeOK
    PROVE  /\ Tip \in Nat /\ Tip >= 1
           /\ \A v \in 1 .. Tip : log[v] \in Metas /\ Loaded(v) \in Tenants
  <1>1. Tip \in Nat /\ Tip >= 1 /\ \A v \in 1 .. Tip : log[v] \in Metas
    BY DEF LogTypeOK, Tip
  <1> QED BY <1>1, ContentType DEF Loaded, Tenants

\* The log after a commit: never shorter, and nothing in it has changed.
LEMMA CommittedType ==
    ASSUME LogTypeOK, StagedTypeOK, NEW r \in Reqs
    PROVE  /\ Committed(r) \in Seq(Metas)
           /\ Len(Committed(r)) >= Len(log)
           /\ \A i \in 1 .. Len(log) : Committed(r)[i] = log[i]
  <1>1. CASE op[r].op = "none"
    BY <1>1 DEF Committed, LogTypeOK
  <1>2. CASE op[r].op # "none"
    <2>1. op[r] \in Ops /\ log[Tip] \in Metas
      BY LogType DEF StagedTypeOK
    <2>2. Applied(op[r], log[Tip]) \in Metas
      BY <1>2, <2>1, AppliedType, Zenon
    <2> QED BY <1>2, <2>2 DEF Committed, LogTypeOK
  <1> QED BY <1>1, <1>2, Zenon

\* What a statement leaves in the transaction.
LEMMA RunDdlType ==
    ASSUME TypeOK, VersionsExist, NEW r \in Reqs, NEW s \in Statements, RunDdl(r, s)
    PROVE  /\ ReadVersionOf(r) \in 1 .. Tip
           /\ Statement(s, Visible(r), log[ReadVersionOf(r)]) \in Ops
           /\ StagedBy(Statement(s, Visible(r), log[ReadVersionOf(r)]), Visible(r)) \in Collections
  <1>1. ReadVersionOf(r) \in 1 .. Tip
    BY LogType DEF ReadVersionOf, VersionsExist, TypeOK, VersionTypeOK
  <1>2. log[ReadVersionOf(r)] \in Metas
    BY <1>1, LogType, Zenon DEF TypeOK
  <1>3. Visible(r) \in Collections
    BY NodesAssumption, Zenon DEF RunDdl, Visible, TypeOK, ServerTypeOK, Tenants
  <1>4. Statement(s, Visible(r), log[ReadVersionOf(r)]) \in Ops
    BY <1>2, <1>3, StatementType, Zenon
  <1>5. StagedBy(Statement(s, Visible(r), log[ReadVersionOf(r)]), Visible(r)) \in Collections
    BY <1>3, <1>4, Zenon DEF StagedBy, Empty, Ops, Collections
  <1> QED BY <1>1, <1>4, <1>5, Zenon

\* Updating one entry of a table with two keys.
LEMMA NestedExceptType ==
    ASSUME NEW S, NEW f \in [Nodes -> [Trackers -> S]],
           NEW n \in Nodes, NEW t \in Trackers, NEW v \in S
    PROVE  [f EXCEPT ![n][t] = v] \in [Nodes -> [Trackers -> S]]
  BY Zenon

\* A session that starts over, and one that ends.
LEMMA RestartedType ==
    ASSUME StagedTypeOK, NEW r \in Reqs, Restarted(r)
    PROVE  StagedTypeOK'
  BY Zenon DEF Restarted, StagedTypeOK, Results, NoOp, Ops

\* An answered session is one of the sessions (Execute, ReadOnlyExecute).
LEMMA AnsweredType ==
    ASSUME StagedTypeOK, NEW r \in Reqs, NEW a \in Results, Answered(r, a)
    PROVE  StagedTypeOK'
  BY Zenon DEF Answered, StagedTypeOK

\* Every step keeps the types.
LEMMA TypeStep ==
    ASSUME TypeOK, VersionsExist, [Next]_vars
    PROVE  TypeOK'
  <1> USE NodesAssumption DEF serverVars, trackVars, txVars
  <1> /\ LogTypeOK /\ ServerTypeOK /\ ControlTypeOK /\ VersionTypeOK /\ StagedTypeOK
      /\ faults \in Nat /\ Tip \in Nat
    BY LogType, Zenon DEF TypeOK
  <1>1. ASSUME NEW r \in Reqs, AssignReadVersion(r)
        PROVE  TypeOK'
    <2>1. VersionTypeOK'
      BY <1>1, Zenon DEF AssignReadVersion, VersionTypeOK
    <2> QED BY <1>1, <2>1, Zenon DEF TypeOK, AssignReadVersion, LogTypeOK, ServerTypeOK, ControlTypeOK, StagedTypeOK
  <1>2. ASSUME NEW r \in Reqs, GetStartVersion(r)
        PROVE  TypeOK'
    <2>1. ControlTypeOK'
      BY <1>2, Zenon DEF GetStartVersion, TrackedVersion, ControlTypeOK, PCs, AllKinds
    <2>2. VersionTypeOK'
      BY <1>2, Zenon DEF GetStartVersion, TrackedVersion, VersionTypeOK, ServerTypeOK, ControlTypeOK
    <2> QED BY <1>2, <2>1, <2>2, Zenon DEF TypeOK, GetStartVersion, LogTypeOK, ServerTypeOK, StagedTypeOK
  <1>3. ASSUME NEW r \in Reqs, Track(r)
        PROVE  TypeOK'
    <2>1. ControlTypeOK'
      BY <1>3, Zenon DEF Track, ControlTypeOK, PCs, AllKinds
    <2> QED BY <1>3, <2>1, Zenon DEF TypeOK, Track, LogTypeOK, ServerTypeOK, VersionTypeOK, StagedTypeOK
  <1>4. ASSUME NEW r \in Reqs, Lock(r)
        PROVE  TypeOK'
    <2>1. ControlTypeOK'
      BY <1>4, Zenon DEF Lock, ControlTypeOK, PCs, AllKinds
    <2>2. lock' = lock \/ lock' = [lock EXCEPT ![NodeOf[r]][tracker[r]] = r]
      BY <1>4, Zenon DEF Lock
    <2>3. lock' \in [Nodes -> [Trackers -> Reqs \cup {NoReq}]]
      <3>1. [lock EXCEPT ![NodeOf[r]][tracker[r]] = r] \in [Nodes -> [Trackers -> Reqs \cup {NoReq}]]
        BY NestedExceptType, Zenon DEF ServerTypeOK, ControlTypeOK
      <3> QED BY <2>2, <3>1, Zenon DEF ServerTypeOK
    <2>4. ServerTypeOK'
      BY <1>4, <2>3, Zenon DEF Lock, ServerTypeOK
    <2> QED BY <1>4, <2>1, <2>2, <2>3, <2>4, Zenon DEF TypeOK, Lock, LogTypeOK, VersionTypeOK, StagedTypeOK
  <1>5. ASSUME NEW r \in Reqs, ReadVersion(r)
        PROVE  TypeOK'
    <2>1. ControlTypeOK'
      BY <1>5, Zenon DEF ReadVersion, ControlTypeOK, PCs, AllKinds
    <2>2. VersionTypeOK'
      BY <1>5, Zenon DEF ReadVersion, VersionTypeOK
    <2> QED BY <1>5, <2>1, <2>2, Zenon DEF TypeOK, ReadVersion, LogTypeOK, ServerTypeOK, StagedTypeOK
  <1>6. ASSUME NEW r \in Reqs, Reload(r)
        PROVE  TypeOK'
    <2>1. ControlTypeOK'
      BY <1>6, Zenon DEF Reload, ControlTypeOK, PCs, AllKinds
    <2>2. rrv[r] > cache[NodeOf[r]].version => Loaded(rrv[r]) \in Tenants
      BY LogType DEF VersionsExist, VersionTypeOK, ServerTypeOK, Tenants
    <2>3. ServerTypeOK'
      BY <1>6, <2>2, Zenon DEF Reload, ServerTypeOK
    <2> QED BY <1>6, <2>1, <2>2, <2>3, Zenon DEF TypeOK, Reload, LogTypeOK, VersionTypeOK, StagedTypeOK
  <1>7. ASSUME NEW r \in Reqs, ReloadCommits(r)
        PROVE  TypeOK'
    <2>1. ControlTypeOK'
      BY <1>7, Zenon DEF ReloadCommits, Unlock, ControlTypeOK, PCs, AllKinds
    <2>2. ServerTypeOK'
      BY <1>7, Zenon DEF ReloadCommits, Unlock, ServerTypeOK, ControlTypeOK, VersionTypeOK
    <2>3. VersionTypeOK'
      BY <1>7, Zenon DEF ReloadCommits, Unlock, VersionTypeOK
    <2> QED BY <1>7, <2>1, <2>2, <2>3, Zenon DEF TypeOK, ReloadCommits, LogTypeOK, StagedTypeOK
  <1>8. ASSUME NEW r \in Reqs, ReadInOwnTxn(r)
        PROVE  TypeOK'
    <2>1. ControlTypeOK'
      BY <1>8, Zenon DEF ReadInOwnTxn, ControlTypeOK, PCs, AllKinds
    <2>2. VersionTypeOK'
      BY <1>8, Zenon DEF ReadInOwnTxn, VersionTypeOK
    <2> QED BY <1>8, <2>1, <2>2, Zenon DEF TypeOK, ReadInOwnTxn, LogTypeOK, ServerTypeOK, StagedTypeOK
  <1>9. ASSUME NEW r \in Reqs, RunOnCache(r)
        PROVE  TypeOK'
    <2>1. ControlTypeOK'
      BY <1>9, Zenon DEF RunOnCache, ControlTypeOK, PCs, AllKinds
    <2>2. VersionTypeOK'
      BY <1>9, Zenon DEF RunOnCache, VersionTypeOK, ServerTypeOK, Tenants
    <2>3. StagedTypeOK'
      BY <1>9, Zenon DEF RunOnCache, StagedTypeOK, Results, NoOp, Ops
    <2> QED BY <1>9, <2>1, <2>2, <2>3, Zenon DEF TypeOK, RunOnCache, LogTypeOK, ServerTypeOK
  <1>10. ASSUME NEW r \in Reqs, StopTracker(r)
        PROVE  TypeOK'
    <2>1. ControlTypeOK'
      BY <1>10, Zenon DEF StopTracker, ControlTypeOK, PCs, AllKinds
    <2>2. VersionTypeOK'
      BY <1>10, Zenon DEF StopTracker, VersionTypeOK
    <2> QED BY <1>10, <2>1, <2>2, Zenon DEF TypeOK, StopTracker, LogTypeOK, ServerTypeOK, StagedTypeOK
  <1>11. ASSUME NEW r \in Reqs, RetryOnChange(r)
        PROVE  TypeOK'
    <2>1. ControlTypeOK'
      BY <1>11, Zenon DEF RetryOnChange, Restarted, ControlTypeOK, PCs, AllKinds
    <2>2. VersionTypeOK'
      BY <1>11, Zenon DEF RetryOnChange, Restarted, VersionTypeOK
    <2>3. StagedTypeOK'
      BY <1>11, Zenon DEF RetryOnChange, Restarted, StagedTypeOK, Results, NoOp, Ops
    <2> QED BY <1>11, <2>1, <2>2, <2>3, Zenon DEF TypeOK, RetryOnChange, LogTypeOK, ServerTypeOK
  <1>12. ASSUME NEW r \in Reqs, CommitDml(r)
        PROVE  TypeOK'
    <2>1. ControlTypeOK'
      BY <1>12, Zenon DEF CommitDml, Answered, ControlTypeOK, PCs, AllKinds
    <2>2. StagedTypeOK'
      BY <1>12, Zenon DEF CommitDml, Answered, StagedTypeOK, Results, NoOp, Ops
    <2> QED BY <1>12, <2>1, <2>2, Zenon DEF TypeOK, CommitDml, Answered, LogTypeOK, ServerTypeOK, VersionTypeOK
  <1>13. ASSUME NEW r \in Reqs, CommitSession(r)
        PROVE  TypeOK'
    <2>1. LogTypeOK'
      BY <1>13, CommittedType DEF CommitSession, LogTypeOK
    <2>2. ControlTypeOK'
      BY <1>13, Zenon DEF CommitSession, ControlTypeOK, PCs, AllKinds
    <2>3. StagedTypeOK'
      BY <1>13, Zenon DEF CommitSession, StagedTypeOK, Results, NoOp, Ops
    <2> QED BY <1>13, <2>1, <2>2, <2>3, Zenon DEF TypeOK, CommitSession, ServerTypeOK, VersionTypeOK
  <1>14. ASSUME NEW r \in Reqs, CommitOfError(r)
        PROVE  TypeOK'
    <2>1. ControlTypeOK'
      BY <1>14, Zenon DEF CommitOfError, Answered, ControlTypeOK, PCs, AllKinds
    <2>2. StagedTypeOK'
      BY <1>14, Zenon DEF CommitOfError, Answered, StagedTypeOK, Results, NoOp, Ops
    <2> QED BY <1>14, <2>1, <2>2, Zenon DEF TypeOK, CommitOfError, Answered, LogTypeOK, ServerTypeOK, VersionTypeOK
  <1>15. ASSUME NEW r \in Reqs, CommitConflicts(r)
        PROVE  TypeOK'
    <2>1. ControlTypeOK'
      BY <1>15, Zenon DEF CommitConflicts, Restarted, Answered, ControlTypeOK, PCs, AllKinds
    <2>2. VersionTypeOK'
      BY <1>15 DEF CommitConflicts, Restarted, Answered, VersionTypeOK
    <2>3. StagedTypeOK'
      BY <1>15, RestartedType, AnsweredType, Zenon DEF CommitConflicts, TrackingFailed, Results
    <2> QED BY <1>15, <2>1, <2>2, <2>3, Zenon DEF TypeOK, CommitConflicts, LogTypeOK, ServerTypeOK
  <1>16. ASSUME NEW r \in Reqs, RunTxnDml(r)
        PROVE  TypeOK'
    <2>1. VersionTypeOK'
      BY <1>16, Zenon DEF RunTxnDml, ReadVersionOf, OldestUsed, VersionTypeOK, ServerTypeOK, Tenants
    <2>2. StagedTypeOK'
      BY <1>16, Zenon DEF RunTxnDml, ReadVersionOf, OldestUsed, StagedTypeOK, Results, NoOp, Ops
    <2> QED BY <1>16, <2>1, <2>2, Zenon DEF TypeOK, RunTxnDml, LogTypeOK, ServerTypeOK, ControlTypeOK
  <1>17. ASSUME NEW r \in Reqs, RequestCommit(r)
        PROVE  TypeOK'
    <2>1. ControlTypeOK'
      BY <1>17, Zenon DEF RequestCommit, ControlTypeOK, PCs, AllKinds
    <2> QED BY <1>17, <2>1, Zenon DEF TypeOK, RequestCommit, LogTypeOK, ServerTypeOK, VersionTypeOK, StagedTypeOK
  <1>18. ASSUME NEW r \in Reqs, RollbackTransaction(r)
        PROVE  TypeOK'
    <2>1. ControlTypeOK'
      BY <1>18, Zenon DEF RollbackTransaction, Answered, ControlTypeOK, PCs, AllKinds
    <2>2. StagedTypeOK'
      BY <1>18, Zenon DEF RollbackTransaction, Answered, StagedTypeOK, Results, NoOp, Ops
    <2> QED BY <1>18, <2>1, <2>2, Zenon DEF TypeOK, RollbackTransaction, Answered, LogTypeOK, ServerTypeOK, VersionTypeOK
  <1>19. ASSUME NEW r \in Reqs, Finish(r)
        PROVE  TypeOK'
    <2>1. ControlTypeOK'
      BY <1>19, Zenon DEF Finish, ControlTypeOK, PCs, AllKinds
    <2>2. VersionTypeOK'
      BY <1>19, Zenon DEF Finish, VersionTypeOK
    <2>3. StagedTypeOK'
      BY <1>19, Zenon DEF Finish, StagedTypeOK, Results, NoOp, Ops
    <2> QED BY <1>19, <2>1, <2>2, <2>3, Zenon DEF TypeOK, Finish, LogTypeOK, ServerTypeOK
  <1>20. ASSUME NEW r \in Reqs, ReloadFails(r)
        PROVE  TypeOK'
    <2>1. ServerTypeOK'
      BY <1>20, ZenonT(40) DEF ReloadFails, Unlock, TrackingFailed, Restarted, Answered, ServerTypeOK, ControlTypeOK, Tenants, Collections, Empty
    <2>2. ControlTypeOK'
      BY <1>20, Zenon DEF ReloadFails, Unlock, TrackingFailed, Restarted, Answered, ControlTypeOK, PCs, AllKinds
    <2>3. VersionTypeOK'
      BY <1>20 DEF ReloadFails, Unlock, TrackingFailed, Restarted, Answered, VersionTypeOK
    <2>4. StagedTypeOK'
      BY <1>20, RestartedType, AnsweredType, Zenon DEF ReloadFails, TrackingFailed, Results
    <2> QED BY <1>20, <2>1, <2>2, <2>3, <2>4 DEF TypeOK, ReloadFails, LogTypeOK
  <1>21. ASSUME NEW r \in Reqs, ReloadCommitFails(r)
        PROVE  TypeOK'
    <2>1. ServerTypeOK'
      BY <1>21, Zenon DEF ReloadCommitFails, Unlock, TrackingFailed, Restarted, Answered, ServerTypeOK, ControlTypeOK
    <2>2. ControlTypeOK'
      BY <1>21, Zenon DEF ReloadCommitFails, Unlock, TrackingFailed, Restarted, Answered, ControlTypeOK, PCs, AllKinds
    <2>3. VersionTypeOK'
      BY <1>21 DEF ReloadCommitFails, Unlock, TrackingFailed, Restarted, Answered, VersionTypeOK
    <2>4. StagedTypeOK'
      BY <1>21, RestartedType, AnsweredType, Zenon DEF ReloadCommitFails, TrackingFailed, Results
    <2> QED BY <1>21, <2>1, <2>2, <2>3, <2>4 DEF TypeOK, ReloadCommitFails, LogTypeOK
  <1>22. ASSUME NEW r \in Reqs, ConflictDml(r)
        PROVE  TypeOK'
    <2>1. ControlTypeOK'
      BY <1>22, Zenon DEF ConflictDml, Restarted, ControlTypeOK, PCs, AllKinds
    <2>2. VersionTypeOK'
      BY <1>22, Zenon DEF ConflictDml, Restarted, VersionTypeOK
    <2>3. StagedTypeOK'
      BY <1>22, Zenon DEF ConflictDml, Restarted, StagedTypeOK, Results, NoOp, Ops
    <2> QED BY <1>22, <2>1, <2>2, <2>3 DEF TypeOK, ConflictDml, LogTypeOK, ServerTypeOK
  <1>23. ASSUME NEW r \in Reqs, CommitUnknown(r)
        PROVE  TypeOK'
    <2>1. LogTypeOK'
      BY <1>23, CommittedType DEF CommitUnknown, Answered, LogTypeOK
    <2>2. ControlTypeOK'
      BY <1>23, Zenon DEF CommitUnknown, Answered, ControlTypeOK, PCs, AllKinds
    <2>3. StagedTypeOK'
      BY <1>23, Zenon DEF CommitUnknown, Answered, StagedTypeOK, Results, NoOp, Ops
    <2> QED BY <1>23, <2>1, <2>2, <2>3 DEF TypeOK, CommitUnknown, Answered, ServerTypeOK, VersionTypeOK
  <1>24. ASSUME NEW r \in Reqs, NEW k \in AllKinds, NEW t \in Trackers, Begin(r, k, t)
        PROVE  TypeOK'
    <2>1. ControlTypeOK'
      BY <1>24, Zenon DEF Begin, ControlTypeOK, PCs, AllKinds
    <2>2. VersionTypeOK'
      BY <1>24, Zenon DEF Begin, VersionTypeOK
    <2> QED BY <1>24, <2>1, <2>2, Zenon DEF TypeOK, Begin, LogTypeOK, ServerTypeOK, StagedTypeOK
  <1>25. ASSUME NEW r \in Reqs, NEW s \in Statements, RunDdl(r, s)
        PROVE  TypeOK'
    <2>1. /\ UNCHANGED <<log, serverVars, faults, kind, tracker, trackVars>>
          /\ pc' = [pc EXCEPT ![r] = IF kind[r] = "ddl" THEN "commit" ELSE "run"]
          /\ rv' = [rv EXCEPT ![r] = ReadVersionOf(r)]
          /\ used' = [used EXCEPT ![r] = OldestUsed(r)]
      BY <1>25, Zenon DEF RunDdl
    <2>2. LogTypeOK' /\ ServerTypeOK' /\ faults' \in Nat
      BY <2>1, Zenon DEF LogTypeOK, ServerTypeOK
    <2>3. ControlTypeOK'
      BY <2>1, Zenon DEF ControlTypeOK, PCs, AllKinds
    <2>4. OldestUsed(r) \in Nat /\ ReadVersionOf(r) \in Nat
      BY <1>25, RunDdlType DEF OldestUsed, VersionTypeOK, ServerTypeOK, Tenants
    <2>5. VersionTypeOK'
      BY <2>1, <2>4, Zenon DEF VersionTypeOK
    <2>6. StagedTypeOK'
      BY <1>25, RunDdlType, ZenonT(40) DEF RunDdl, StagedTypeOK, Results
    <2> QED BY <2>2, <2>3, <2>5, <2>6, Zenon DEF TypeOK
  <1>26. ASSUME NEW n \in Nodes, Restart(n)
        PROVE  TypeOK'
    <2>1. Loaded(Tip) \in Tenants
      BY LogType
    <2>2. ServerTypeOK'
      BY <1>26, <2>1, Zenon DEF Restart, ServerTypeOK
    <2>3. ControlTypeOK'
      BY <1>26, Zenon DEF Restart, ControlTypeOK, PCs, AllKinds
    <2>4. VersionTypeOK'
      BY <1>26, Zenon DEF Restart, VersionTypeOK
    <2>5. StagedTypeOK'
      BY <1>26, Zenon DEF Restart, StagedTypeOK, Results, NoOp, Ops
    <2>6. LogTypeOK' /\ faults' \in Nat
      BY <1>26 DEF Restart, LogTypeOK
    <2> QED BY <2>2, <2>3, <2>4, <2>5, <2>6, Zenon DEF TypeOK
  <1>27. CASE UNCHANGED vars
    BY <1>27, Zenon DEF vars, TypeOK, LogTypeOK, ServerTypeOK, ControlTypeOK, VersionTypeOK, StagedTypeOK
  <1>28. CASE Next
    BY ONLY <1>28, NextSplit, <1>1, <1>2, <1>3, <1>4, <1>5, <1>6, <1>7, <1>8, <1>9, <1>10, <1>11, <1>12, <1>13, <1>14, <1>15, <1>16, <1>17, <1>18, <1>19, <1>20, <1>21, <1>22, <1>23, <1>24, <1>25, <1>26, Zenon
  <1> QED BY <1>27, <1>28, Zenon

-----------------------------------------------------------------------------
(* Versions.                                                                *)
\* What never goes back.
VersionsGrow ==
    /\ Len(log') >= Len(log)
    /\ \A m \in Nodes : cache'[m].version >= cache[m].version
    /\ \A m \in Nodes : \A j \in Trackers : tracked'[m][j] >= tracked[m][j]

\* What VersionInv says of the servers ...
ServersSound ==
    \A m \in Nodes : /\ cache[m].version \in 1 .. Tip
                     /\ \A j \in Trackers : tracked[m][j] <= cache[m].version

\* ... and of one request.
TenantVersion(q) == cache[NodeOf[q]].version
Sound(q) ==
    /\ rv[q] <= Tip /\ end[q] <= Tip /\ rrv[q] <= Tip
    /\ pc[q] \in {"read", "reload", "reloaded"} =>
         lock[NodeOf[q]][tracker[q]] = q /\ TrackedVersion(q) < end[q]
    /\ pc[q] \in {"reload", "reloaded"} => rrv[q] >= end[q]
    /\ pc[q] = "reloaded" => rrv[q] <= TenantVersion(q)
    /\ start[q] <= TenantVersion(q)
    /\ kind[q] = "dml" =>
         /\ Tracking(q) \/ pc[q] \in {"stop", "stopped"} => start[q] <= used[q]
         /\ pc[q] \notin {"again", "commit", "committed"}
         /\ Tracking(q) => after[q] = "stopped"
         /\ Tracking(q) \/ pc[q] = "stopped" => end[q] = rv[q] /\ rv[q] > 0
         /\ pc[q] = "done" => used[q] >= rv[q] /\ rv[q] > 0
    /\ kind[q] # "dml" =>
         /\ pc[q] \notin {"stop", "stopped"}
         /\ pc[q] # "idle" => after[q] # "stopped"
         /\ pc[q] \in {"run", "commit"} => after[q] = "run"
         /\ pc[q] = "run" => TenantVersion(q) >= end[q]
         /\ pc[q] = "done" /\ after[q] = "done" /\ result[q] = "committed"
              => TenantVersion(q) >= end[q]

\* The numbers Sound compares.
Numbers(q) ==
    /\ NodeOf[q] \in Nodes /\ tracker[q] \in Trackers
    /\ Tip \in Nat /\ TenantVersion(q) \in Nat /\ TrackedVersion(q) \in Nat
    /\ rv[q] \in Nat /\ start[q] \in Nat /\ end[q] \in Nat /\ rrv[q] \in Nat /\ used[q] \in Nat

\* They are numbers.
LEMMA NumbersType ==
    ASSUME TypeOK, NEW q \in Reqs
    PROVE  Numbers(q)
  BY NodesAssumption, LogType DEF TypeOK, ServerTypeOK, Tenants, ControlTypeOK, VersionTypeOK,
     Numbers, TenantVersion, TrackedVersion

\* They are after a step, too.
LEMMA NumbersNext ==
    ASSUME TypeOK', NEW q \in Reqs
    PROVE  Numbers(q)'
  BY NodesAssumption, SMTT(40) DEF TypeOK, LogTypeOK, Tip, ServerTypeOK, Tenants, ControlTypeOK, VersionTypeOK,
     Numbers, TenantVersion, TrackedVersion

\* A request is left alone by the steps of the others.
Stays(q) ==
    /\ pc'[q] = pc[q] /\ kind'[q] = kind[q] /\ tracker'[q] = tracker[q] /\ after'[q] = after[q]
    /\ rv'[q] = rv[q] /\ start'[q] = start[q] /\ end'[q] = end[q] /\ rrv'[q] = rrv[q]
    /\ used'[q] = used[q] /\ result'[q] = result[q] /\ staged'[q] = staged[q] /\ op'[q] = op[q]

\* Every operation writes the state of its own session only.
LEMMA OthersStay ==
    ASSUME TypeOK, NEW r \in Reqs, Advance(r) \/ Client(r) \/ Fault(r), NEW q \in Reqs \ {r}
    PROVE  Stays(q)
  <1> USE DEF Stays, trackVars, txVars
  <1> /\ pc \in [Reqs -> PCs] /\ kind \in [Reqs -> AllKinds] /\ tracker \in [Reqs -> Trackers]
      /\ after \in [Reqs -> {"run", "stopped", "done"}] /\ rv \in [Reqs -> Nat] /\ start \in [Reqs -> Nat]
      /\ end \in [Reqs -> Nat] /\ rrv \in [Reqs -> Nat] /\ used \in [Reqs -> Nat]
      /\ result \in [Reqs -> Results] /\ staged \in [Reqs -> Collections \cup {NotStaged}]
      /\ op \in [Reqs -> Ops]
    BY Zenon DEF TypeOK, ControlTypeOK, VersionTypeOK, StagedTypeOK
  <1>1. CASE AssignReadVersion(r)
    BY <1>1, Zenon DEF AssignReadVersion
  <1>2. CASE GetStartVersion(r)
    BY <1>2, Zenon DEF GetStartVersion
  <1>3. CASE Track(r)
    BY <1>3, Zenon DEF Track
  <1>4. CASE Lock(r)
    BY <1>4, Zenon DEF Lock
  <1>5. CASE ReadVersion(r)
    BY <1>5, Zenon DEF ReadVersion
  <1>6. CASE Reload(r)
    BY <1>6, Zenon DEF Reload
  <1>7. CASE ReloadCommits(r)
    BY <1>7, Zenon DEF ReloadCommits, Unlock
  <1>8. CASE ReadInOwnTxn(r)
    BY <1>8, Zenon DEF ReadInOwnTxn
  <1>9. CASE RunOnCache(r)
    BY <1>9, Zenon DEF RunOnCache
  <1>10. CASE StopTracker(r)
    BY <1>10, Zenon DEF StopTracker
  <1>11. CASE RetryOnChange(r)
    BY <1>11, Zenon DEF RetryOnChange, Restarted
  <1>12. CASE CommitDml(r)
    BY <1>12, Zenon DEF CommitDml, Answered
  <1>13. CASE CommitSession(r)
    BY <1>13, Zenon DEF CommitSession
  <1>14. CASE CommitOfError(r)
    BY <1>14, Zenon DEF CommitOfError, Answered
  <1>15. CASE CommitConflicts(r)
    BY <1>15 DEF CommitConflicts, Restarted, Answered
  <1>16. CASE RunTxnDml(r)
    BY <1>16, Zenon DEF RunTxnDml
  <1>17. CASE RequestCommit(r)
    BY <1>17, Zenon DEF RequestCommit
  <1>18. CASE RollbackTransaction(r)
    BY <1>18, Zenon DEF RollbackTransaction, Answered
  <1>19. CASE Finish(r)
    BY <1>19, Zenon DEF Finish
  <1>20. CASE ReloadFails(r)
    BY <1>20 DEF ReloadFails, Unlock, TrackingFailed, Restarted, Answered
  <1>21. CASE ReloadCommitFails(r)
    BY <1>21 DEF ReloadCommitFails, Unlock, TrackingFailed, Restarted, Answered
  <1>22. CASE ConflictDml(r)
    BY <1>22, Zenon DEF ConflictDml, Restarted
  <1>23. CASE CommitUnknown(r)
    BY <1>23, Zenon DEF CommitUnknown, Answered
  <1>24. ASSUME NEW k \in AllKinds, NEW t \in Trackers, Begin(r, k, t)
        PROVE  Stays(q)
    BY <1>24, Zenon DEF Begin
  <1>25. ASSUME NEW s \in Statements, RunDdl(r, s)
        PROVE  Stays(q)
    BY <1>25, Zenon DEF RunDdl
  <1> QED BY <1>1, <1>2, <1>3, <1>4, <1>5, <1>6, <1>7, <1>8, <1>9, <1>10, <1>11, <1>12, <1>13, <1>14, <1>15, <1>16, <1>17, <1>18, <1>19, <1>20, <1>21, <1>22, <1>23, <1>24, <1>25, ZenonT(40) DEF Advance, Client, Fault

\* The state of a session has its place in every table.
Writable(q) ==
    /\ q \in DOMAIN pc /\ q \in DOMAIN kind /\ q \in DOMAIN tracker /\ q \in DOMAIN after
    /\ q \in DOMAIN rv /\ q \in DOMAIN start /\ q \in DOMAIN end /\ q \in DOMAIN rrv
    /\ q \in DOMAIN used /\ q \in DOMAIN result
    /\ NodeOf[q] \in DOMAIN cache /\ cache[NodeOf[q]] \in Tenants
    /\ NodeOf[q] \in DOMAIN lock /\ tracker[q] \in DOMAIN lock[NodeOf[q]]
    /\ after[q] \in {"run", "stopped", "done"}

\* A step of the request itself does.
LEMMA OwnStep ==
    ASSUME NEW q \in Reqs, Advance(q) \/ Client(q) \/ Fault(q),
           Sound(q), Numbers(q), Numbers(q)', Writable(q),
           TrackedVersion(q) <= TenantVersion(q), TenantVersion(q) <= Tip, 1 <= Tip,
           TenantVersion(q)' >= TenantVersion(q), Tip' >= Tip
    PROVE  Sound(q)'
  <1> USE DEF Sound, Numbers, Writable, Tracking, serverVars, trackVars, txVars
  <1>1. CASE AssignReadVersion(q)
    BY <1>1, ZenonT(40) DEF AssignReadVersion, TenantVersion, TrackedVersion, Tip
  <1>2. CASE GetStartVersion(q)
    BY <1>2, Zenon DEF GetStartVersion, TenantVersion, TrackedVersion, Tip
  <1>3. CASE Track(q)
    <2>1. TenantVersion(q)' = TenantVersion(q) /\ TrackedVersion(q)' = TrackedVersion(q) /\ Tip' = Tip
      BY <1>3, Zenon DEF Track, TenantVersion, TrackedVersion, Tip
    <2> QED BY <1>3, <2>1, SMTT(40) DEF Track
  <1>4. CASE Lock(q)
    <2>1. TenantVersion(q)' = TenantVersion(q) /\ TrackedVersion(q)' = TrackedVersion(q) /\ Tip' = Tip
      BY <1>4, Zenon DEF Lock, TenantVersion, TrackedVersion, Tip
    <2> QED BY <1>4, <2>1, SMTT(30) DEF Lock
  <1>5. CASE ReadVersion(q)
    BY <1>5, Zenon DEF ReadVersion, TenantVersion, TrackedVersion, Tip
  <1>6. CASE Reload(q)
    <2>1. TenantVersion(q)' >= rrv[q]
      BY <1>6, SMTT(40) DEF Reload, TenantVersion, Loaded
    <2>2. TrackedVersion(q)' = TrackedVersion(q) /\ Tip' = Tip
      BY <1>6, Zenon DEF Reload, TrackedVersion, Tip
    <2> QED BY <1>6, <2>1, <2>2, SMTT(40) DEF Reload
  <1>7. CASE ReloadCommits(q)
    BY <1>7, SMTT(40) DEF ReloadCommits, Unlock, TenantVersion, TrackedVersion, Tip
  <1>8. CASE ReadInOwnTxn(q)
    BY <1>8, Zenon DEF ReadInOwnTxn, TenantVersion, TrackedVersion, Tip
  <1>9. CASE RunOnCache(q)
    BY <1>9, Zenon DEF RunOnCache, TenantVersion, TrackedVersion, Tip, AllKinds
  <1>10. CASE StopTracker(q)
    BY <1>10, SMTT(40) DEF StopTracker, TenantVersion, TrackedVersion, Tip
  <1>11. CASE RetryOnChange(q)
    BY <1>11, SMTT(40) DEF RetryOnChange, Restarted, TenantVersion, TrackedVersion, Tip
  <1>12. CASE CommitDml(q)
    BY <1>12, SMTT(40) DEF CommitDml, Answered, ChangeDetected, TenantVersion, TrackedVersion, Tip
  <1>13. CASE CommitSession(q)
    BY <1>13, SMTT(40) DEF CommitSession, TenantVersion, TrackedVersion
  <1>14. CASE CommitOfError(q)
    BY <1>14, Zenon DEF CommitOfError, Answered, TenantVersion, TrackedVersion, Tip
  <1>15. CASE CommitConflicts(q)
    BY <1>15, SMTT(40) DEF CommitConflicts, Restarted, Answered, TenantVersion, TrackedVersion, Tip
  <1>16. CASE RunTxnDml(q)
    BY <1>16, ZenonT(40) DEF RunTxnDml, TenantVersion, TrackedVersion, Tip, ReadVersionOf
  <1>17. CASE RequestCommit(q)
    BY <1>17, Zenon DEF RequestCommit, TenantVersion, TrackedVersion, Tip
  <1>18. CASE RollbackTransaction(q)
    BY <1>18, Zenon DEF RollbackTransaction, Answered, TenantVersion, TrackedVersion, Tip
  <1>19. CASE Finish(q)
    BY <1>19 DEF Finish, TenantVersion, TrackedVersion, Tip
  <1>20. CASE ReloadFails(q)
    <2> HIDE DEF Sound, Numbers, Writable, Tracking, serverVars, trackVars, txVars
    <2>1. TenantVersion(q)' = TenantVersion(q) /\ Tip' = Tip
      BY <1>20, Zenon DEF ReloadFails, TenantVersion, Tip, Tenants, Writable
    <2>2. pc'[q] = IF kind[q] = "dml" THEN "tracking" ELSE "done"
      BY <1>20, Zenon DEF ReloadFails, TrackingFailed, Restarted, Answered, Writable
    <2>3. rv'[q] \in {0, rv[q]} /\ rrv'[q] = 0 /\ (kind[q] # "dml" => result'[q] = "error")
      BY <1>20, Zenon DEF ReloadFails, Unlock, TrackingFailed, Restarted, Answered, Writable
    <2>4. UNCHANGED <<kind, tracker, after, start, end>> /\ pc[q] \in {"reload", "reloaded"}
      BY <1>20, Zenon DEF ReloadFails
    <2>5. /\ rv'[q] <= Tip' /\ end'[q] <= Tip' /\ rrv'[q] <= Tip' /\ start'[q] <= TenantVersion(q)'
          /\ kind'[q] = kind[q] /\ after'[q] = after[q]
      <3>1. rv[q] <= Tip /\ end[q] <= Tip /\ start[q] <= TenantVersion(q) /\ Tip \in Nat
        BY Zenon DEF Sound, Numbers
      <3> QED BY <2>1, <2>3, <2>4, <3>1
    <2>6. CASE kind[q] = "dml"
      BY <2>2, <2>5, <2>6, Zenon DEF Sound, Tracking
    <2>7. CASE kind[q] # "dml"
      <3>1. pc'[q] = "done" /\ result'[q] # "committed" /\ after[q] # "stopped"
        BY <2>2, <2>3, <2>4, <2>7, ZenonT(40) DEF Sound
      <3> QED BY <2>5, <2>7, <3>1, Zenon DEF Sound, Tracking
    <2> QED BY <2>6, <2>7, Zenon
  <1>21. CASE ReloadCommitFails(q)
    <2> HIDE DEF Sound, Numbers, Writable, Tracking, serverVars, trackVars, txVars
    <2>1. TenantVersion(q)' = TenantVersion(q) /\ Tip' = Tip
      BY <1>21, Zenon DEF ReloadCommitFails, TenantVersion, Tip, Tenants
    <2>2. pc'[q] = IF kind[q] = "dml" THEN "tracking" ELSE "done"
      BY <1>21, Zenon DEF ReloadCommitFails, TrackingFailed, Restarted, Answered, Writable
    <2>3. rv'[q] \in {0, rv[q]} /\ rrv'[q] = 0 /\ (kind[q] # "dml" => result'[q] = "error")
      BY <1>21, Zenon DEF ReloadCommitFails, Unlock, TrackingFailed, Restarted, Answered, Writable
    <2>4. UNCHANGED <<kind, tracker, after, start, end>> /\ pc[q] \in {"reload", "reloaded"}
      BY <1>21, Zenon DEF ReloadCommitFails
    <2>5. /\ rv'[q] <= Tip' /\ end'[q] <= Tip' /\ rrv'[q] <= Tip' /\ start'[q] <= TenantVersion(q)'
          /\ kind'[q] = kind[q] /\ after'[q] = after[q]
      <3>1. rv[q] <= Tip /\ end[q] <= Tip /\ start[q] <= TenantVersion(q) /\ Tip \in Nat
        BY Zenon DEF Sound, Numbers
      <3> QED BY <2>1, <2>3, <2>4, <3>1
    <2>6. CASE kind[q] = "dml"
      BY <2>2, <2>5, <2>6, Zenon DEF Sound, Tracking
    <2>7. CASE kind[q] # "dml"
      <3>1. pc'[q] = "done" /\ result'[q] # "committed" /\ after[q] # "stopped"
        BY <2>2, <2>3, <2>4, <2>7, Zenon DEF Sound
      <3> QED BY <2>5, <2>7, <3>1, Zenon DEF Sound, Tracking
    <2> QED BY <2>6, <2>7, Zenon
  <1>22. CASE ConflictDml(q)
    BY <1>22, SMTT(40) DEF ConflictDml, Restarted, TenantVersion, TrackedVersion, Tip
  <1>23. CASE CommitUnknown(q)
    BY <1>23, SMTT(40) DEF CommitUnknown, Answered, TenantVersion, TrackedVersion
  <1>24. ASSUME NEW k \in AllKinds, NEW t \in Trackers, Begin(q, k, t)
        PROVE  Sound(q)'
    BY <1>24, SMTT(40) DEF Begin, TenantVersion, TrackedVersion, Tip
  <1>25. ASSUME NEW s \in Statements, RunDdl(q, s)
        PROVE  Sound(q)'
    BY <1>25, Zenon DEF RunDdl, TenantVersion, TrackedVersion, Tip, ReadVersionOf
  <1> QED BY <1>1, <1>2, <1>3, <1>4, <1>5, <1>6, <1>7, <1>8, <1>9, <1>10, <1>11, <1>12, <1>13, <1>14, <1>15, <1>16, <1>17, <1>18, <1>19, <1>20, <1>21, <1>22, <1>23, <1>24, <1>25, ZenonT(40) DEF Advance, Client, Fault

=============================================================================
