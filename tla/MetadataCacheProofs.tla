------------------------ MODULE MetadataCacheProofs ------------------------
(***************************************************************************)
(* What MetadataCache's runs check on a few servers and requests, proved   *)
(* for any number of them, any number of DDLs and any number of faults.    *)
(***************************************************************************)
EXTENDS MetadataCacheSteps

\* VersionInv, server by server and request by request.
LEMMA SoundSplit ==
    ASSUME VersionInv
    PROVE  TypeOK /\ ServersSound /\ \A q \in Reqs : Sound(q)
  <1>1. TypeOK /\ ServersSound
    BY Zenon DEF VersionInv, VersionsExist, TrackedBehindCache, ServersSound
  <1>2. ASSUME NEW q \in Reqs
        PROVE  Sound(q)
    BY NumbersType, Zenon DEF VersionInv, VersionsExist, ReloadInv, StartInv, PhaseInv, InstantFresh,
       DmlSeesItsSnapshotSchema, Sound, TenantVersion
  <1> QED BY <1>1, <1>2, Zenon

\* The steps of a request that touch the log, a Tenant, a tracker or a lock.
LEMMA ServerFrame ==
    ASSUME NEW r \in Reqs, Advance(r) \/ Client(r) \/ Fault(r)
    PROVE  \/ UNCHANGED <<log, cache, tracked, lock>>
           \/ Lock(r) \/ Reload(r) \/ ReloadCommits(r) \/ ReloadFails(r) \/ ReloadCommitFails(r)
           \/ CommitSession(r) \/ CommitUnknown(r)
  BY Zenon DEF serverVars, Advance, Client, Fault, AssignReadVersion, GetStartVersion, Track, ReadVersion,
     ReadInOwnTxn, RunOnCache, StopTracker, RetryOnChange, CommitDml, CommitOfError, CommitConflicts,
     RunTxnDml, RequestCommit, RollbackTransaction, Finish, ConflictDml, Begin, RunDdl

\* A version that is not before another one.
LEMMA AtOrAfter ==
    ASSUME NEW b \in Nat, NEW a \in Nat, NEW n \in 1 .. b, n >= a
    PROVE  n \in a .. b
  OBVIOUS

\* No step takes a version back, and no tracker overtakes its Tenant.
LEMMA ServerStep ==
    ASSUME VersionInv, TypeOK', [Next]_vars
    PROVE  VersionsGrow /\ ServersSound'
  <1> USE NodesAssumption DEF VersionsGrow, ServersSound, Tip
  <1>1. TypeOK /\ ServersSound /\ \A q \in Reqs : Sound(q) /\ Numbers(q)
    BY SoundSplit, NumbersType, Zenon
  <1>2. /\ Len(log) \in Nat /\ Len(log') \in Nat /\ Len(log) >= 1
        /\ cache \in [Nodes -> Tenants] /\ tracked \in [Nodes -> [Trackers -> Nat]]
        /\ \A m \in Nodes : cache[m].version \in Nat /\ cache'[m].version \in Nat
        /\ \A m \in Nodes : \A j \in Trackers : tracked[m][j] \in Nat /\ tracked'[m][j] \in Nat
    BY <1>1 DEF TypeOK, LogTypeOK, ServerTypeOK, Tenants
  <1>3. ASSUME NEW r \in Reqs, Reload(r)
        PROVE  VersionsGrow /\ ServersSound'
    <2>1. UNCHANGED <<log, tracked>>
      BY <1>3, Zenon DEF Reload
    <2>2. ASSUME NEW m \in Nodes
          PROVE  cache'[m].version >= cache[m].version /\ cache'[m].version <= Len(log)
      BY <1>1, <1>2, <1>3 DEF Reload, Loaded, Sound, Numbers
    <2>3. ASSUME NEW m \in Nodes, NEW j \in Trackers
          PROVE  tracked[m][j] <= cache'[m].version
      <3>1. tracked[m][j] <= cache[m].version /\ cache[m].version <= cache'[m].version
        BY <1>1, <2>2, Zenon
      <3> QED BY <1>2, <3>1
    <2> QED BY <1>1, <1>2, <2>1, <2>2, <2>3
  <1>4. ASSUME NEW r \in Reqs, ReloadCommits(r)
        PROVE  VersionsGrow /\ ServersSound'
    <2>1. UNCHANGED <<log, cache>>
      BY <1>4, Zenon DEF ReloadCommits
    <2>2. /\ Numbers(r) /\ TrackedVersion(r) < rrv[r] /\ rrv[r] <= cache[NodeOf[r]].version
      <3>1. pc[r] = "reloaded" /\ Sound(r) /\ Numbers(r)
        BY <1>1, <1>4, Zenon DEF ReloadCommits
      <3>2. /\ TrackedVersion(r) < end[r] /\ rrv[r] >= end[r] /\ rrv[r] <= cache[NodeOf[r]].version
            /\ TrackedVersion(r) \in Nat /\ end[r] \in Nat /\ rrv[r] \in Nat
        BY <3>1, Zenon DEF Sound, Numbers, TenantVersion
      <3> QED BY <3>1, <3>2
    <2>3. ASSUME NEW m \in Nodes, NEW j \in Trackers
          PROVE  tracked'[m][j] >= tracked[m][j] /\ tracked'[m][j] <= cache[m].version
      <3>1. tracked' = [tracked EXCEPT ![NodeOf[r]][tracker[r]] = rrv[r]]
        BY <1>4, Zenon DEF ReloadCommits
      <3>2. CASE m = NodeOf[r] /\ j = tracker[r]
        <4>1. tracked'[m][j] = rrv[r]
          BY <1>2, <3>1, <3>2, Zenon
        <4>2. tracked[m][j] < rrv[r] /\ rrv[r] <= cache[m].version /\ rrv[r] \in Nat /\ tracked[m][j] \in Nat
          BY <1>2, <2>2, <3>2, Zenon DEF TrackedVersion, Numbers
        <4> QED BY <4>1, <4>2
      <3>3. CASE ~(m = NodeOf[r] /\ j = tracker[r])
        <4>1. tracked'[m][j] = tracked[m][j]
          BY <1>2, <3>1, <3>3, Zenon
        <4>2. tracked[m][j] <= cache[m].version /\ tracked[m][j] \in Nat
          BY <1>1, <1>2, Zenon
        <4> QED BY <4>1, <4>2
      <3> QED BY <3>2, <3>3, Zenon
    <2> QED BY <1>1, <1>2, <2>1, <2>3
  <1>5. ASSUME NEW r \in Reqs, ReloadFails(r)
        PROVE  VersionsGrow /\ ServersSound'
    <2>1. UNCHANGED <<log, tracked>>
      BY <1>5, Zenon DEF ReloadFails
    <2>2. ASSUME NEW m \in Nodes
          PROVE  cache'[m].version = cache[m].version
      BY <1>2, <1>5 DEF ReloadFails, Tenants
    <2> QED BY <1>1, <1>2, <2>1, <2>2, SMTT(40)
  <1>6. ASSUME NEW r \in Reqs, CommitSession(r) \/ CommitUnknown(r)
        PROVE  VersionsGrow /\ ServersSound'
    <2>1. UNCHANGED <<cache, tracked>> /\ log' \in {log, Committed(r)}
      BY <1>6, Zenon DEF CommitSession, CommitUnknown, serverVars
    <2>2. Len(log') >= Len(log)
      BY <1>1, <1>2, <2>1, CommittedType DEF TypeOK
    <2> QED BY <1>1, <1>2, <2>1, <2>2
  <1>7. ASSUME NEW n \in Nodes, Restart(n)
        PROVE  VersionsGrow /\ ServersSound'
    <2>1. Loaded(Tip).version = Tip
      BY Zenon DEF Loaded
    <2>2. log' = log
      BY <1>7, Zenon DEF Restart
    <2>3. ASSUME NEW m \in Nodes
          PROVE  /\ cache'[m].version >= cache[m].version /\ cache'[m].version <= Len(log)
                 /\ \A j \in Trackers : tracked'[m][j] >= tracked[m][j] /\ tracked'[m][j] <= cache'[m].version
      BY <1>1, <1>2, <1>7, <2>1 DEF Restart
    <2> QED BY <1>1, <1>2, <2>2, <2>3
  <1>8. CASE UNCHANGED <<log, cache, tracked>>
    BY <1>1, <1>2, <1>8
  <1>9. ASSUME NEW r \in Reqs, Advance(r) \/ Client(r) \/ Fault(r)
        PROVE  VersionsGrow /\ ServersSound'
    <2>1. CASE Lock(r) \/ ReloadCommitFails(r)
      BY <1>8, <2>1, Zenon DEF Lock, ReloadCommitFails
    <2> HIDE DEF VersionsGrow, ServersSound
    <2> QED BY <1>3, <1>4, <1>5, <1>6, <1>8, <1>9, <2>1, ServerFrame, Zenon
  <1>10. CASE UNCHANGED vars
    BY <1>8, <1>10, Zenon DEF vars, serverVars
  <1> HIDE DEF VersionsGrow, ServersSound
  <1> QED BY <1>7, <1>9, <1>10, Zenon DEF Next

\* What the Tenant of a request has reached it does not lose.
LEMMA TenantKeeps ==
    ASSUME TypeOK, TypeOK', VersionsGrow, NEW q \in Reqs
    PROVE  TenantVersion(q)' >= TenantVersion(q) /\ Tip' >= Tip
  BY NodesAssumption, Zenon DEF VersionsGrow, TenantVersion, Tip

\* What is known of a request before it takes a step.
LEMMA BeforeStep ==
    ASSUME VersionInv, TypeOK', VersionsGrow, NEW q \in Reqs
    PROVE  /\ Sound(q) /\ Numbers(q) /\ Numbers(q)'
           /\ TrackedVersion(q) <= TenantVersion(q) /\ TenantVersion(q) <= Tip /\ 1 <= Tip
           /\ TenantVersion(q)' >= TenantVersion(q) /\ Tip' >= Tip
  <1>1. Sound(q) /\ ServersSound /\ TypeOK
    BY SoundSplit, Zenon
  <1>2. Numbers(q) /\ Numbers(q)'
    BY <1>1, NumbersType, NumbersNext, Zenon
  <1>3. TrackedVersion(q) <= TenantVersion(q) /\ TenantVersion(q) <= Tip /\ 1 <= Tip
    BY <1>1, <1>2, SMTT(40) DEF ServersSound, Numbers, TrackedVersion, TenantVersion
  <1> QED BY <1>1, <1>2, <1>3, TenantKeeps, Zenon

\* The lock a request holds, and the tracker it protects, are left alone too.
LEMMA LockKept ==
    ASSUME VersionInv, NEW r \in Reqs, Advance(r) \/ Client(r) \/ Fault(r), NEW q \in Reqs \ {r},
           lock[NodeOf[q]][tracker[q]] = q
    PROVE  /\ lock'[NodeOf[q]][tracker[q]] = q
           /\ tracked'[NodeOf[q]][tracker[q]] = tracked[NodeOf[q]][tracker[q]]
  <1>1. /\ Sound(r) /\ Numbers(r) /\ Numbers(q)
        /\ lock \in [Nodes -> [Trackers -> Reqs \cup {NoReq}]] /\ tracked \in [Nodes -> [Trackers -> Nat]]
    BY SoundSplit, NumbersType, Zenon DEF TypeOK, ServerTypeOK
  <1>2. CASE UNCHANGED <<tracked, lock>>
    BY <1>2, Zenon
  <1>3. CASE Lock(r)
    BY <1>1, <1>3, NoReqAssumption, SMTT(40) DEF Lock, Unlocked, Numbers
  <1>4. CASE ReloadCommits(r)
    BY <1>1, <1>4, Zenon DEF ReloadCommits, Unlock, Sound, Numbers
  <1>5. CASE ReloadFails(r)
    BY <1>1, <1>5, Zenon DEF ReloadFails, Unlock, Sound, Numbers
  <1>6. CASE ReloadCommitFails(r)
    BY <1>1, <1>6, Zenon DEF ReloadCommitFails, Unlock, Sound, Numbers
  <1> QED BY <1>2, <1>3, <1>4, <1>5, <1>6, ServerFrame, Zenon DEF Reload, CommitSession, CommitUnknown, serverVars

\* A step of another request keeps what holds of this one.
LEMMA OtherStep ==
    ASSUME VersionInv, TypeOK', VersionsGrow,
           NEW r \in Reqs, Advance(r) \/ Client(r) \/ Fault(r), NEW q \in Reqs \ {r}
    PROVE  Sound(q)'
  <1>1. TypeOK /\ Sound(q) /\ Numbers(q)
    BY SoundSplit, NumbersType, Zenon
  <1>2. Numbers(q)'
    BY NumbersNext, Zenon
  <1>3. Stays(q) /\ TenantVersion(q)' >= TenantVersion(q) /\ Tip' >= Tip
    BY <1>1, OthersStay, TenantKeeps, Zenon
  <1>4. lock[NodeOf[q]][tracker[q]] = q =>
          /\ lock'[NodeOf[q]][tracker'[q]] = q
          /\ TrackedVersion(q)' = TrackedVersion(q)
    <2> SUFFICES ASSUME lock[NodeOf[q]][tracker[q]] = q
                 PROVE  /\ lock'[NodeOf[q]][tracker'[q]] = q
                        /\ tracked'[NodeOf[q]][tracker'[q]] = tracked[NodeOf[q]][tracker[q]]
      BY Zenon DEF TrackedVersion
    <2>1. tracker'[q] = tracker[q]
      BY <1>3, Zenon DEF Stays
    <2>2. /\ lock'[NodeOf[q]][tracker[q]] = q
          /\ tracked'[NodeOf[q]][tracker[q]] = tracked[NodeOf[q]][tracker[q]]
      BY LockKept, Zenon
    <2> QED BY <2>1, <2>2, Zenon
  <1>5. /\ rv[q] <= Tip' /\ end[q] <= Tip' /\ rrv[q] <= Tip' /\ start[q] <= TenantVersion(q)'
        /\ rrv[q] <= TenantVersion(q) => rrv[q] <= TenantVersion(q)'
        /\ TenantVersion(q) >= end[q] => TenantVersion(q)' >= end[q]
    <2>1. /\ rv[q] <= Tip /\ end[q] <= Tip /\ rrv[q] <= Tip /\ start[q] <= TenantVersion(q)
          /\ rv[q] \in Nat /\ end[q] \in Nat /\ rrv[q] \in Nat /\ start[q] \in Nat
          /\ Tip \in Nat /\ Tip' \in Nat /\ TenantVersion(q) \in Nat /\ TenantVersion(q)' \in Nat
      BY <1>1, <1>2, Zenon DEF Sound, Numbers
    <2> QED BY <1>3, <2>1
  <1> QED BY <1>1, <1>3, <1>4, <1>5, Zenon DEF Stays, Sound, Tracking

\* A server that dies takes its requests with it and leaves the others alone.
LEMMA RestartStep ==
    ASSUME VersionInv, TypeOK', VersionsGrow, NEW n \in Nodes, Restart(n), NEW q \in Reqs
    PROVE  Sound(q)'
  <1>1. /\ Sound(q) /\ Numbers(q) /\ Numbers(q)'
        /\ TenantVersion(q)' >= TenantVersion(q) /\ Tip' >= Tip
    BY BeforeStep, Zenon
  <1>2. CASE NodeOf[q] = n
    <2>1. /\ pc'[q] = "idle" /\ kind'[q] = "dml"
          /\ rv'[q] = 0 /\ start'[q] = 0 /\ end'[q] = 0 /\ rrv'[q] = 0
      BY <1>2, Zenon DEF Restart
    <2> QED BY <1>1, <2>1, SMTT(40) DEF Sound, Numbers, Tracking
  <1>3. CASE NodeOf[q] # n
    <2>1. Stays(q)
      BY <1>3, Zenon DEF Restart, Stays
    <2>2. lock'[NodeOf[q]] = lock[NodeOf[q]] /\ tracked'[NodeOf[q]] = tracked[NodeOf[q]]
      BY <1>1, <1>3, SoundSplit, Zenon DEF Restart, Numbers, TypeOK, ServerTypeOK
    <2> QED BY <1>1, <2>1, <2>2, SMTT(40) DEF Stays, Sound, Numbers, Tracking, TrackedVersion
  <1> QED BY <1>2, <1>3, Zenon

\* Every step keeps VersionInv.
LEMMA StepVersionInv ==
    ASSUME VersionInv, [Next]_vars
    PROVE  VersionInv' /\ VersionsGrow
  <1>1. TypeOK'
    BY TypeStep, Zenon DEF VersionInv
  <1>2. VersionsGrow /\ ServersSound'
    BY <1>1, ServerStep, Zenon
  <1>3. ASSUME NEW q \in Reqs
        PROVE  Sound(q)'
    <2>1. ASSUME NEW r \in Reqs, Advance(r) \/ Client(r) \/ Fault(r)
          PROVE  Sound(q)'
      <3>1. CASE q = r
        <4>1. Writable(q)
          BY SoundSplit, NodesAssumption
             DEF TypeOK, ServerTypeOK, ControlTypeOK, VersionTypeOK, StagedTypeOK, Writable
        <4> QED BY <1>1, <1>2, <2>1, <3>1, <4>1, BeforeStep, OwnStep, Zenon
      <3> QED BY <1>1, <1>2, <2>1, <3>1, OtherStep, Zenon
    <2>2. ASSUME NEW n \in Nodes, Restart(n)
          PROVE  Sound(q)'
      BY <1>1, <1>2, <2>2, RestartStep, Zenon
    <2>3. CASE UNCHANGED vars
      <3>1. Sound(q)
        BY SoundSplit, Zenon
      <3>2. Stays(q) /\ Tip' = Tip /\ TenantVersion(q)' = TenantVersion(q)
            /\ TrackedVersion(q)' = TrackedVersion(q) /\ lock' = lock
        BY <2>3, Zenon DEF vars, serverVars, trackVars, txVars, Stays, Tip, TenantVersion, TrackedVersion
      <3> QED BY <3>1, <3>2, Zenon DEF Stays, Sound, Tracking
    <2> QED BY <2>1, <2>2, <2>3, Zenon DEF Next
  <1>4. ASSUME NEW q \in Reqs
        PROVE  Numbers(q)'
    BY <1>1, NumbersNext, Zenon
  <1>5. VersionsExist' /\ TrackedBehindCache'
    BY <1>2, <1>3 DEF ServersSound, Sound, VersionsExist, TrackedBehindCache
  <1>6. ReloadInv' /\ StartInv' /\ PhaseInv'
    BY <1>3, Zenon DEF Sound, ReloadInv, StartInv, PhaseInv, TenantVersion
  <1>7. InstantFresh' /\ DmlSeesItsSnapshotSchema'
    BY <1>3, Zenon DEF Sound, InstantFresh, DmlSeesItsSnapshotSchema, TenantVersion
  <1> QED BY <1>1, <1>2, <1>5, <1>6, <1>7, Zenon DEF VersionInv

-----------------------------------------------------------------------------
(* The history and the Tenants taken from it.                               *)

\* Only a commit extends the log.
LEMMA LogStep ==
    ASSUME [Next]_vars
    PROVE  log' = log \/ (cache' = cache /\ \E q \in Reqs : log' = Committed(q))
  <1>1. ASSUME NEW r \in Reqs, CommitSession(r) \/ CommitUnknown(r)
        PROVE  log' = log \/ (cache' = cache /\ log' = Committed(r))
    BY <1>1, Zenon DEF CommitSession, CommitUnknown, serverVars
  <1>2. \/ log' = log
        \/ \E r \in Reqs : CommitSession(r) \/ CommitUnknown(r)
    BY ServerFrame, Zenon DEF Next, Lock, Reload, ReloadCommits, ReloadFails, ReloadCommitFails, Restart, vars
  <1> QED BY <1>1, <1>2, Zenon

\* A commit never rewrites history.
LEMMA HistoryStep ==
    ASSUME TypeOK, [Next]_vars
    PROVE  /\ Len(log') >= Len(log)
           /\ \A i \in 1 .. Len(log) : log'[i] = log[i]
           /\ SubSeq(log', 1, Len(log)) = log
  <1>1. log \in Seq(Metas) /\ Len(log) \in Nat
    BY DEF TypeOK, LogTypeOK
  <1>2. log' \in Seq(Metas) /\ Len(log') >= Len(log) /\ \A i \in 1 .. Len(log) : log'[i] = log[i]
    <2>1. CASE log' = log
      BY <1>1, <2>1
    <2>2. ASSUME NEW q \in Reqs, log' = Committed(q)
          PROVE  log' \in Seq(Metas) /\ Len(log') >= Len(log) /\ \A i \in 1 .. Len(log) : log'[i] = log[i]
      BY <2>2, CommittedType, Zenon DEF TypeOK
    <2> QED BY <2>1, <2>2, LogStep, Zenon
  <1>3. SubSeq(log', 1, Len(log)) = log
    <2> DEFINE t == SubSeq(log', 1, Len(log))
    <2>1. t \in Seq(Metas) /\ Len(t) = Len(log) /\ \A i \in 1 .. Len(log) : t[i] = log'[i]
      BY <1>1, <1>2
    <2>2. \A i \in 1 .. Len(log) : t[i] = log[i]
      BY <1>2, <2>1, Zenon
    <2> HIDE DEF t
    <2> QED BY <1>1, <2>1, <2>2
  <1> QED BY <1>2, <1>3, Zenon

\* What a step can make of a Tenant.
LEMMA CacheStep ==
    ASSUME VersionInv, [Next]_vars
    PROVE  \A m \in Nodes :
             \/ cache'[m] = cache[m]
             \/ (\E r \in Reqs : ReloadFails(r)) /\ ~cache'[m].whole /\ cache'[m].content = Empty
             \/ \E v \in 1 .. Tip : cache'[m] = Loaded(v)
  <1>1. cache \in [Nodes -> Tenants] /\ \A q \in Reqs : Sound(q) /\ Numbers(q)
    BY SoundSplit, NumbersType, Zenon DEF TypeOK, ServerTypeOK
  <1>2. ASSUME NEW r \in Reqs, Reload(r), NEW m \in Nodes
        PROVE  cache'[m] = cache[m] \/ \E v \in 1 .. Tip : cache'[m] = Loaded(v)
    <2>1. rrv[r] > TenantVersion(r) => rrv[r] \in 1 .. Tip
      <3>1. Sound(r) /\ Numbers(r)
        BY <1>1, Zenon
      <3> QED BY ONLY <3>1 DEF Sound, Numbers
    <2> QED BY <1>1, <1>2, <2>1, Zenon DEF Reload, TenantVersion
  <1>3. ASSUME NEW r \in Reqs, ReloadFails(r), NEW m \in Nodes
        PROVE  cache'[m] = cache[m] \/ (~cache'[m].whole /\ cache'[m].content = Empty)
    BY <1>1, <1>3, Zenon DEF ReloadFails, Tenants
  <1>4. ASSUME NEW n \in Nodes, Restart(n), NEW m \in Nodes
        PROVE  cache'[m] = cache[m] \/ \E v \in 1 .. Tip : cache'[m] = Loaded(v)
    <2>1. Tip \in 1 .. Tip
      BY LogType DEF VersionInv, TypeOK
    <2>2. cache' = [cache EXCEPT ![n] = Loaded(Tip)]
      BY <1>4, Zenon DEF Restart
    <2> QED BY <1>1, <2>1, <2>2, Zenon
  <1>5. ASSUME cache' = cache, NEW m \in Nodes
        PROVE  cache'[m] = cache[m]
    BY <1>5, Zenon
  <1>6. \/ cache' = cache
        \/ \E r \in Reqs : Reload(r) \/ ReloadFails(r)
        \/ \E n \in Nodes : Restart(n)
    BY ServerFrame, Zenon DEF Next, Lock, ReloadCommits, ReloadCommitFails, CommitSession, CommitUnknown,
       serverVars, vars
  <1> QED BY <1>2, <1>3, <1>4, <1>5, <1>6, Zenon

\* A Tenant stays a snapshot, since the history it was taken from stays.
LEMMA SnapshotStep ==
    ASSUME VersionInv, CacheIsSnapshot, [Next]_vars
    PROVE  CacheIsSnapshot'
  <1>1. SUFFICES ASSUME NEW m \in Nodes, cache'[m].whole
                 PROVE  cache'[m].content = Content(log'[cache'[m].version])
    BY Zenon DEF CacheIsSnapshot
  <1>2. \A v \in 1 .. Tip : log'[v] = log[v]
    BY HistoryStep, Zenon DEF Tip, VersionInv
  <1>3. CASE cache'[m] = cache[m]
    BY <1>1, <1>2, <1>3, Zenon DEF CacheIsSnapshot, VersionsExist, VersionInv
  <1>4. ASSUME NEW v \in 1 .. Tip, cache'[m] = Loaded(v)
        PROVE  cache'[m].content = Content(log'[cache'[m].version])
    BY <1>2, <1>4 DEF Loaded
  <1> QED BY <1>1, <1>3, <1>4, CacheStep, Zenon

-----------------------------------------------------------------------------
(* A request that is told a collection does not exist.                      *)

\* What a request that has found no collection is bound to: it looked in a
\* Tenant of a version the name was free at, and unless it is a write, whose
\* version is checked once more by Stop, it has its answer.  Only a DDL
\* request or an explicit transaction has a staged database to look in.
Told(q) ==
    /\ pc[q] = "idle" => staged[q] = NotStaged /\ result[q] = "none"
    /\ kind[q] \in {"dml", "instant"} => staged[q] = NotStaged
    /\ result[q] = "notfound" =>
         /\ used[q] \in 1 .. Tip /\ log[used[q]].coll = 0
         /\ kind[q] # "dml" => pc[q] = "done" /\ used[q] >= end[q]

\* The inductive invariant: no Tenant was left reset by a reload that failed.
HonestInv == (\A n \in Nodes : cache[n].whole) /\ \A q \in Reqs : Told(q)

\* What was told stays true when the log grows.
LEMMA ToldKept ==
    ASSUME TypeOK, [Next]_vars, NEW q \in Reqs, used[q] \in 1 .. Tip, log[used[q]].coll = 0
    PROVE  used[q] \in 1 .. Tip' /\ log'[used[q]].coll = 0
  <1>1. Len(log) \in Nat /\ Len(log') >= Len(log) /\ log'[used[q]] = log[used[q]]
    BY HistoryStep DEF Tip
  <1>2. Len(log') \in Nat
    BY TypeStep DEF TypeOK, LogTypeOK
  <1> QED BY <1>1, <1>2 DEF Tip

\* The lookup itself: the Tenant is the metadata of the version it claims.
LEMMA LookedUp ==
    ASSUME VersionInv, CacheIsSnapshot, HonestInv, NEW q \in Reqs, RunOnCache(q)
    PROVE  Told(q)'
  <1>1. /\ TypeOK /\ Sound(q) /\ Numbers(q) /\ Told(q) /\ cache[NodeOf[q]].whole
        /\ cache[NodeOf[q]].version \in 1 .. Tip
    BY SoundSplit, NumbersType, NodesAssumption, Zenon DEF HonestInv, Numbers, VersionInv, VersionsExist
  <1>2. staged[q] = NotStaged
    BY <1>1, Zenon DEF RunOnCache, Told
  <1>3. Visible(q).id = log[cache[NodeOf[q]].version].coll
    <2>1. cache[NodeOf[q]].content = Content(log[cache[NodeOf[q]].version])
      BY <1>1, Zenon DEF CacheIsSnapshot, Numbers
    <2>2. Content(log[cache[NodeOf[q]].version]).id = log[cache[NodeOf[q]].version].coll
      BY Zenon DEF Content
    <2> QED BY <1>2, <2>1, <2>2, Zenon DEF Visible
  <1>4. /\ log' = log /\ kind' = kind /\ end' = end /\ staged' = staged
        /\ used'[q] = cache[NodeOf[q]].version
        /\ result'[q] = IF Visible(q).id = 0 THEN "notfound" ELSE "ok"
        /\ pc'[q] = IF kind[q] = "dml" THEN "stop" ELSE "done"
    BY <1>1, Zenon DEF RunOnCache, TypeOK, ControlTypeOK, VersionTypeOK, StagedTypeOK, trackVars
  <1>5. kind[q] # "dml" => cache[NodeOf[q]].version >= end[q]
    BY <1>1, Zenon DEF RunOnCache, Sound, TenantVersion
  <1> QED BY <1>1, <1>2, <1>3, <1>4, <1>5, Zenon DEF Told, Tip

\* A step of the request itself.
LEMMA ToldOwn ==
    ASSUME VersionInv, CacheIsSnapshot, HonestInv, [Next]_vars,
           NEW q \in Reqs, Advance(q) \/ Client(q) \/ Fault(q), ~ReloadFails(q)
    PROVE  Told(q)'
  <1>1. Told(q) /\ Sound(q) /\ Numbers(q) /\ TypeOK
    BY SoundSplit, NumbersType, Zenon DEF HonestInv
  <1>2. /\ pc \in [Reqs -> PCs] /\ kind \in [Reqs -> AllKinds] /\ result \in [Reqs -> Results]
        /\ staged \in [Reqs -> Collections \cup {NotStaged}] /\ used \in [Reqs -> Nat]
        /\ after[q] \in {"run", "stopped", "done"}
        /\ end \in [Reqs -> Nat]
    BY <1>1, Zenon DEF TypeOK, ControlTypeOK, VersionTypeOK, StagedTypeOK
  <1>3. ASSUME used[q] \in 1 .. Tip, log[used[q]].coll = 0
        PROVE  used[q] \in 1 .. Tip' /\ log'[used[q]].coll = 0
    BY <1>1, <1>3, ToldKept, Zenon
  <1> HIDE DEF Tip
  <1> USE DEF Told, Sound, Numbers, trackVars, txVars
  <1>4. CASE UNCHANGED <<kind, result, staged, used>> /\ pc[q] # "done" /\ pc'[q] # "idle"
             /\ (end' = end \/ kind[q] = "dml")
    BY <1>1, <1>2, <1>3, <1>4, ZenonT(40)
  <1>5. CASE \/ AssignReadVersion(q) \/ GetStartVersion(q) \/ Track(q) \/ Lock(q) \/ ReadVersion(q)
             \/ Reload(q) \/ ReloadCommits(q) \/ StopTracker(q) \/ RequestCommit(q)
    <2>1. UNCHANGED <<kind, result, staged, used>> /\ pc[q] # "done"
      BY <1>5, Zenon DEF AssignReadVersion, GetStartVersion, Track, Lock, ReadVersion, Reload, ReloadCommits,
         StopTracker, RequestCommit
    <2>2. pc'[q] # "idle"
      BY <1>2, <1>5, Zenon DEF AssignReadVersion, GetStartVersion, Track, Lock, ReadVersion, Reload,
         ReloadCommits, StopTracker, RequestCommit
    <2>3. end' = end \/ kind[q] = "dml"
      BY <1>1, <1>5, ZenonT(40) DEF AssignReadVersion, GetStartVersion, Track, Lock, ReadVersion, Reload,
         ReloadCommits, StopTracker, RequestCommit, Unlock
    <2> QED BY <1>4, <2>1, <2>2, <2>3, ZenonT(40)
  <1>6. CASE ReadInOwnTxn(q)
    BY <1>1, <1>2, <1>6, ZenonT(40) DEF ReadInOwnTxn
  <1>7. CASE RunOnCache(q)
    BY <1>7, LookedUp, ZenonT(40)
  <1>8. CASE RetryOnChange(q) \/ ConflictDml(q)
    BY <1>1, <1>2, <1>8, ZenonT(40) DEF RetryOnChange, ConflictDml, Restarted
  <1>9. CASE CommitDml(q)
    BY <1>1, <1>2, <1>3, <1>9, Zenon DEF CommitDml, Answered
  <1>10. CASE CommitSession(q) \/ CommitOfError(q) \/ RollbackTransaction(q) \/ CommitUnknown(q)
    BY <1>1, <1>2, <1>10, ZenonT(40) DEF CommitSession, CommitOfError, RollbackTransaction, CommitUnknown, Answered
  <1>11. CASE CommitConflicts(q)
    BY <1>1, <1>2, <1>11, ZenonT(40) DEF CommitConflicts, Restarted, Answered
  <1>12. CASE RunTxnDml(q)
    BY <1>1, <1>2, <1>12, ZenonT(40) DEF RunTxnDml
  <1>13. CASE Finish(q)
    BY <1>1, <1>2, <1>13, ZenonT(40) DEF Finish
  <1>14. CASE ReloadCommitFails(q)
    BY <1>1, <1>2, <1>14, ZenonT(40) DEF ReloadCommitFails, TrackingFailed, Restarted, Answered
  <1>15. ASSUME NEW k \in AllKinds, NEW t \in Trackers, Begin(q, k, t)
         PROVE  Told(q)'
    BY <1>1, <1>2, <1>15, Zenon DEF Begin
  <1>16. ASSUME NEW s \in Statements, RunDdl(q, s)
         PROVE  Told(q)'
    <2>1. kind'[q] \notin {"dml", "instant"} /\ pc'[q] # "idle" /\ result'[q] # "notfound"
      BY <1>2, <1>16, Zenon DEF RunDdl
    <2> QED BY <2>1, Zenon
  <1> HIDE DEF Told, Sound, Numbers, trackVars, txVars
  <1> QED BY <1>5, <1>6, <1>7, <1>8, <1>9, <1>10, <1>11, <1>12, <1>13, <1>14, <1>15, <1>16, Zenon
          DEF Advance, Client, Fault

\* Every step but a failing reload keeps HonestInv.
LEMMA HonestStep ==
    ASSUME VersionInv, CacheIsSnapshot, HonestInv, [Next]_vars, [\A r \in Reqs : ~ReloadFails(r)]_vars
    PROVE  HonestInv'
  <1>1. TypeOK /\ (\A q \in Reqs : Told(q)) /\ \A n \in Nodes : cache[n].whole
    BY Zenon DEF HonestInv, VersionInv
  <1>2. ASSUME NEW q \in Reqs, Stays(q)
        PROVE  Told(q)'
    <2>1. Told(q)
      BY <1>1, Zenon
    <2>2. used[q] \in 1 .. Tip /\ log[used[q]].coll = 0 => used[q] \in 1 .. Tip' /\ log'[used[q]].coll = 0
      BY <1>1, ToldKept, Zenon
    <2> QED BY <1>2, <2>1, <2>2, Zenon DEF Told, Stays
  <1>3. ASSUME NEW q \in Reqs
        PROVE  Told(q)'
    <2>1. ASSUME NEW r \in Reqs, Advance(r) \/ Client(r) \/ Fault(r)
          PROVE  Told(q)'
      <3>1. CASE q # r
        BY <1>1, <1>2, <2>1, <3>1, OthersStay, Zenon
      <3>2. CASE q = r /\ ~ReloadFails(r)
        BY <2>1, <3>2, ToldOwn, Zenon
      <3>3. CASE UNCHANGED vars
        BY <1>2, <3>3, Zenon DEF vars, trackVars, txVars, Stays
      <3> QED BY <3>1, <3>2, <3>3, Zenon
    <2>2. ASSUME NEW n \in Nodes, Restart(n)
          PROVE  Told(q)'
      <3>1. CASE NodeOf[q] = n
        <4>1. pc'[q] = "idle" /\ kind'[q] = "dml" /\ staged'[q] = NotStaged /\ result'[q] = "none"
          BY <2>2, <3>1, Zenon DEF Restart
        <4> QED BY <4>1, Zenon DEF Told
      <3>2. CASE NodeOf[q] # n
        BY <1>2, <2>2, <3>2, Zenon DEF Restart, Stays
      <3> QED BY <3>1, <3>2, Zenon
    <2>3. CASE UNCHANGED vars
      BY <1>2, <2>3, Zenon DEF vars, trackVars, txVars, Stays
    <2> QED BY <2>1, <2>2, <2>3, Zenon DEF Next
  <1>4. ASSUME NEW n \in Nodes
        PROVE  cache'[n].whole
    <2>1. CASE cache'[n] = cache[n]
      BY <1>1, <2>1, Zenon
    <2>2. ASSUME NEW v \in 1 .. Tip, cache'[n] = Loaded(v)
          PROVE  cache'[n].whole
      <3>1. Loaded(v).whole = TRUE
        BY Zenon DEF Loaded
      <3> QED BY <2>2, <3>1, Zenon
    <2>3. CASE \E r \in Reqs : ReloadFails(r)
      <3>1. UNCHANGED vars
        BY <2>3, Zenon
      <3> QED BY <1>1, <3>1, Zenon DEF vars, serverVars
    <2> QED BY <2>1, <2>2, <2>3, CacheStep, Zenon
  <1> QED BY <1>3, <1>4, Zenon DEF HonestInv

-----------------------------------------------------------------------------
(* The chain of revisions of a collection.                                  *)

\* What holds of every metadata state: ids are given out once, and the
\* revisions of the live collection follow each other without a gap, each
\* checked against the one before.
MetaSound(m) ==
    /\ m.nextId > 0 /\ m.coll < m.nextId
    /\ \A s \in m.schemas : s.id \in 1 .. m.nextId - 1
    /\ \A s \in m.schemas : s.id = m.coll =>
         /\ s.rev >= 1 /\ s.base = s.rev - 1
         /\ s.rev > 1 => \E t \in m.schemas : t.id = s.id /\ t.rev = s.rev - 1

\* What holds of an earlier state m and a later one k: the schemas of the
\* collection that is live later have been there since they were stored.
Grows(m, k) ==
    /\ m.nextId <= k.nextId
    /\ k.coll # 0 /\ k.coll < m.nextId => \A s \in m.schemas : s.id = k.coll => s \in k.schemas

\* What a buffered DDL that commits has in common with the state it is
\* applied to.
Fits(o, m) ==
    /\ o.op = "create" => o.rev = 1 /\ o.base = 0 /\ o.id = m.nextId
    /\ o.op = "update" =>
         /\ o.id \in 1 .. m.nextId - 1 /\ o.rev = o.base + 1
         /\ o.id = m.coll /\ o.base > 0 => \E t \in m.schemas : t.id = o.id /\ t.rev = o.base

\* The latest revision is the greatest, when there is one.
LEMMA LatestIs ==
    ASSUME NEW S \in SUBSET Nat, NEW k \in S, \A w \in S : w <= k
    PROVE  Latest(S) = k
  <1> DEFINE v == CHOOSE u \in S : \A w \in S : w <= u
  <1>1. \E u \in S : \A w \in S : w <= u
    BY Zenon
  <1>2. v \in S /\ \A w \in S : w <= v
    BY <1>1, Zenon
  <1>3. Latest(S) = v
    BY <1>1, Zenon DEF Latest
  <1> HIDE DEF v
  <1> QED BY <1>2, <1>3

\* A latest revision other than 0 is one of the revisions.
LEMMA LatestIn ==
    ASSUME NEW S \in SUBSET Nat, Latest(S) # 0
    PROVE  Latest(S) \in S
  <1>1. \E v \in S : \A w \in S : w <= v
    BY Zenon DEF Latest
  <1>2. (CHOOSE v \in S : \A w \in S : w <= v) \in S
    BY <1>1, Zenon
  <1> QED BY <1>1, <1>2, Zenon DEF Latest

\* Revisions without a gap, each checked against its predecessor, are a chain.
LEMMA ChainOfSound ==
    ASSUME NEW m \in Metas, MetaSound(m), NEW s \in m.schemas, s.id = m.coll
    PROVE  s.base = Latest({x.rev : x \in {y \in {z \in m.schemas : z.id = m.coll} : y.rev < s.rev}})
  <1> DEFINE R == {x.rev : x \in {y \in {z \in m.schemas : z.id = m.coll} : y.rev < s.rev}}
  <1>1. s.rev \in Nat /\ s.base \in Nat /\ s.rev >= 1 /\ s.base = s.rev - 1
    BY Zenon DEF Metas, MetaSound
  <1>2. R \in SUBSET Nat /\ \A w \in R : w < s.rev /\ w >= 1
    BY Zenon DEF Metas, MetaSound
  <1>3. CASE s.rev = 1
    <2>1. R = {}
      BY <1>2, <1>3
    <2>2. Latest({}) = 0
      BY Zenon DEF Latest
    <2>3. s.base = 0
      BY <1>1, <1>3
    <2> QED BY <2>1, <2>2, <2>3, Zenon
  <1>4. CASE s.rev > 1
    <2>1. PICK t \in m.schemas : t.id = s.id /\ t.rev = s.rev - 1
      BY <1>4, Zenon DEF MetaSound
    <2>2. t.rev \in R
      BY <1>1, <2>1
    <2>3. \A w \in R : w <= t.rev
      BY <1>1, <1>2, <2>1
    <2> HIDE DEF R
    <2>4. Latest(R) = t.rev
      BY <1>2, <2>2, <2>3, LatestIs, Zenon
    <2> QED BY <1>1, <2>1, <2>4, Zenon DEF R
  <1> QED BY <1>1, <1>3, <1>4

\* A collection that is not there has no revision, and a revision that is
\* the latest of one is stored.
LEMMA LatestRevStored ==
    ASSUME NEW m \in Metas, MetaSound(m)
    PROVE  /\ m.coll = 0 => LatestRev(m) = 0
           /\ LatestRev(m) > 0 => \E t \in m.schemas : t.id = m.coll /\ t.rev = LatestRev(m)
  <1> DEFINE R == {s.rev : s \in {x \in m.schemas : x.id = m.coll}}
  <1>1. R \in SUBSET Nat /\ LatestRev(m) = Latest(R)
    BY Zenon DEF Metas, LatestRev
  <1>2. m.coll = 0 => R = {}
    BY DEF MetaSound
  <1>3. Latest({}) = 0
    BY Zenon DEF Latest
  <1>4. ASSUME LatestRev(m) > 0
        PROVE  LatestRev(m) \in R
    <2> HIDE DEF R
    <2> QED BY <1>1, <1>4, LatestIn
  <1> QED BY <1>1, <1>2, <1>3, <1>4, Zenon

\* A DDL that fits keeps a sound state sound,
LEMMA AppliedSound ==
    ASSUME NEW m \in Metas, MetaSound(m), NEW o \in Ops, o.op # "none", Fits(o, m)
    PROVE  MetaSound(Applied(o, m))
  <1> USE DEF Metas, Ops
  <1>1. CASE o.op = "create"
    <2> DEFINE k == Created(o, m)
    <2>1. /\ k.coll = o.id /\ k.nextId = m.nextId + 1
          /\ k.schemas = m.schemas \cup {[id |-> o.id, rev |-> o.rev, base |-> o.base]}
      BY Zenon DEF Created, WithSchema
    <2>2. o.id = m.nextId /\ o.rev = 1 /\ o.base = 0
      BY <1>1, Zenon DEF Fits
    <2>3. \A s \in m.schemas : s.id \in 1 .. m.nextId - 1
      BY Zenon DEF MetaSound
    <2> HIDE DEF k
    <2>4. MetaSound(k)
      BY <2>1, <2>2, <2>3 DEF MetaSound
    <2> QED BY <1>1, <2>4, Zenon DEF Applied, k
  <1>2. CASE o.op = "update"
    <2> DEFINE k == Updated(o, m)
    <2>1. /\ k.coll = m.coll /\ k.nextId = m.nextId
          /\ k.schemas = m.schemas \cup {[id |-> o.id, rev |-> o.rev, base |-> o.base]}
      BY Zenon DEF Updated, WithSchema
    <2>2. /\ o.id \in 1 .. m.nextId - 1 /\ o.rev = o.base + 1
          /\ o.id = m.coll /\ o.base > 0 => \E t \in m.schemas : t.id = o.id /\ t.rev = o.base
      BY <1>2, Zenon DEF Fits
    <2> HIDE DEF k
    <2>3. MetaSound(k)
      BY <2>1, <2>2, SMTT(40) DEF MetaSound
    <2> QED BY <1>2, <2>3, Zenon DEF Applied, k
  <1>3. CASE o.op = "drop"
    BY <1>3, SMTT(40) DEF Applied, Dropped, MetaSound
  <1> QED BY <1>1, <1>2, <1>3, Zenon

\* and what is live after it has been there as long as before.
LEMMA AppliedGrows ==
    ASSUME NEW m \in Metas, NEW k \in Metas, Grows(m, k), NEW o \in Ops, o.op # "none", Fits(o, k)
    PROVE  Grows(m, Applied(o, k))
  BY SMTT(40) DEF Metas, Ops, Grows, Fits, Applied, Created, Updated, Dropped, WithSchema

\* The history: every state is sound, a later one has grown from an earlier
\* one, and as long as nobody writes the dictionary no id is given out.
HistorySound ==
    /\ \A i \in 1 .. Tip : MetaSound(log[i])
    /\ \A i \in 1 .. Tip : \A j \in i .. Tip : Grows(log[i], log[j])
    /\ \A i \in 1 .. Tip : \A j \in i .. Tip :
         (\A k \in i + 1 .. j : 0 \notin log[k].writes) => log[i].nextId = log[j].nextId

\* What a Tenant holds is the metadata of some version, or nothing at all.
TenantsFromLog ==
    \A n \in Nodes : cache[n].content = Empty \/ \E v \in 1 .. Tip : cache[n].content = Content(log[v])

\* What a transaction has buffered: the id a create takes is the next one of
\* its snapshot; an update is checked against some version of the collection,
\* whichever the Tenant was at.
Buffered(q) ==
    /\ op[q].op = "create" =>
         /\ op[q].rev = 1 /\ op[q].base = 0
         /\ rv[q] \in 1 .. Tip /\ op[q].id = log[rv[q]].nextId
    /\ op[q].op = "update" =>
         /\ op[q].rev = op[q].base + 1 /\ op[q].id # 0
         /\ \E v \in 1 .. Tip : log[v].coll = op[q].id /\ LatestRev(log[v]) = op[q].base

\* The inductive invariant behind SchemaChain.
ChainInv == HistorySound /\ TenantsFromLog /\ \A q \in Reqs : Buffered(q)

\* A DDL that commits without a conflict fits the latest state, although it
\* was computed from its snapshot and from a Tenant older or newer than that.
LEMMA CommitFits ==
    ASSUME TypeOK, ChainInv, NEW q \in Reqs, op[q].op # "none", ~Conflicts(q)
    PROVE  Fits(op[q], log[Tip])
  <1>1. /\ Tip \in Nat /\ Tip \in 1 .. Tip /\ \A i \in 1 .. Tip : log[i] \in Metas
        /\ op[q] \in Ops
    BY SMTT(40) DEF TypeOK, LogTypeOK, Tip, StagedTypeOK
  <1>2. Buffered(q) /\ HistorySound
    BY Zenon DEF ChainInv
  <1>3. ASSUME op[q].op = "create"
        PROVE  op[q].rev = 1 /\ op[q].base = 0 /\ op[q].id = log[Tip].nextId
    <2>1. rv[q] \in 1 .. Tip /\ op[q].id = log[rv[q]].nextId /\ op[q].rev = 1 /\ op[q].base = 0
      BY <1>2, <1>3, Zenon DEF Buffered
    <2>2. Tip \in rv[q] .. Tip
      BY <1>1, <2>1
    <2>3. \A k \in rv[q] + 1 .. Tip : 0 \notin log[k].writes
      BY Zenon DEF Conflicts
    <2>4. log[rv[q]].nextId = log[Tip].nextId
      BY <1>2, <2>1, <2>2, <2>3, Zenon DEF HistorySound
    <2> QED BY <2>1, <2>4, Zenon
  <1>4. ASSUME op[q].op = "update"
        PROVE  /\ op[q].id \in 1 .. log[Tip].nextId - 1 /\ op[q].rev = op[q].base + 1
               /\ op[q].id = log[Tip].coll /\ op[q].base > 0 =>
                    \E t \in log[Tip].schemas : t.id = op[q].id /\ t.rev = op[q].base
    <2>1. op[q].rev = op[q].base + 1 /\ op[q].id # 0
      BY <1>2, <1>4, Zenon DEF Buffered
    <2>2. PICK v \in 1 .. Tip : log[v].coll = op[q].id /\ LatestRev(log[v]) = op[q].base
      BY <1>2, <1>4, Zenon DEF Buffered
    <2>3. Tip \in v .. Tip
      BY <1>1
    <2>4. log[v] \in Metas /\ log[Tip] \in Metas /\ MetaSound(log[v]) /\ Grows(log[v], log[Tip])
      BY <1>1, <1>2, <2>3, Zenon DEF HistorySound
    <2>5. log[v].coll < log[v].nextId /\ log[v].nextId <= log[Tip].nextId
      BY <2>4, Zenon DEF MetaSound, Grows
    <2>6. op[q].id \in 1 .. log[Tip].nextId - 1
      BY <1>1, <2>1, <2>2, <2>4, <2>5, SMTT(40) DEF Metas, Ops
    <2>7. ASSUME op[q].id = log[Tip].coll, op[q].base > 0
          PROVE  \E t \in log[Tip].schemas : t.id = op[q].id /\ t.rev = op[q].base
      <3>1. PICK t \in log[v].schemas : t.id = log[v].coll /\ t.rev = LatestRev(log[v])
        BY <2>2, <2>4, <2>7, LatestRevStored, Zenon
      <3>2. t \in log[Tip].schemas
        BY <2>1, <2>2, <2>4, <2>5, <2>7, <3>1, Zenon DEF Grows
      <3> QED BY <2>2, <3>1, <3>2, Zenon
    <2> QED BY <2>1, <2>6, <2>7, Zenon
  <1> QED BY <1>3, <1>4, Zenon DEF Fits

\* What is appended to the log is a DDL that met no conflict.
LEMMA AppendStep ==
    ASSUME [Next]_vars
    PROVE  \/ log' = log
           \/ \E q \in Reqs : /\ op[q].op # "none" /\ ~Conflicts(q)
                              /\ log' = Append(log, Applied(op[q], log[Tip]))
  <1>1. ASSUME NEW r \in Reqs, CommitSession(r) \/ CommitUnknown(r)
        PROVE  \/ log' = log
               \/ /\ op[r].op # "none" /\ ~Conflicts(r)
                  /\ log' = Append(log, Applied(op[r], log[Tip]))
    BY <1>1, Zenon DEF CommitSession, CommitUnknown, Committed
  <1>2. \/ log' = log
        \/ \E r \in Reqs : CommitSession(r) \/ CommitUnknown(r)
    BY ServerFrame, Zenon DEF Next, Lock, Reload, ReloadCommits, ReloadFails, ReloadCommitFails, Restart, vars
  <1> QED BY <1>1, <1>2, Zenon

\* What Append does to a sequence.
LEMMA AppendIs ==
    ASSUME NEW S, NEW s \in Seq(S), NEW e \in S
    PROVE  /\ Len(Append(s, e)) = Len(s) + 1 /\ Append(s, e)[Len(s) + 1] = e
           /\ \A i \in 1 .. Len(s) : Append(s, e)[i] = s[i]
  BY SMTT(40)

\* The history stays sound.
LEMMA HistorySoundStep ==
    ASSUME TypeOK, ChainInv, [Next]_vars
    PROVE  HistorySound'
  <1>1. HistorySound /\ log \in Seq(Metas) /\ Len(log) \in Nat /\ Len(log) >= 1 /\ Tip = Len(log)
    BY SMTT(40) DEF ChainInv, TypeOK, LogTypeOK, Tip
  <1>2. CASE log' = log
    BY <1>1, <1>2, ZenonT(40) DEF HistorySound, Tip
  <1>3. ASSUME NEW q \in Reqs, op[q].op # "none", ~Conflicts(q),
               log' = Append(log, Applied(op[q], log[Tip]))
        PROVE  HistorySound'
    <2> DEFINE o == op[q]
               m == log[Tip]
               k == Applied(o, m)
    <2>1. o \in Ops /\ m \in Metas /\ Tip \in 1 .. Tip
      BY <1>1 DEF TypeOK, StagedTypeOK
    <2>2. Fits(o, m) /\ MetaSound(m)
      BY <1>1, <1>3, <2>1, CommitFits, Zenon DEF HistorySound
    <2>3. k \in Metas /\ MetaSound(k)
      BY <1>3, <2>1, <2>2, AppliedType, AppliedSound, Zenon
    <2>4. \A i \in 1 .. Tip : Grows(log[i], k)
      <3>1. SUFFICES ASSUME NEW i \in 1 .. Tip PROVE Grows(log[i], k)
        BY Zenon
      <3>2. Tip \in i .. Tip /\ log[i] \in Metas
        BY <1>1, <2>1
      <3>3. Grows(log[i], m)
        BY <1>1, <3>2, Zenon DEF HistorySound
      <3> QED BY <1>3, <2>1, <2>2, <3>2, <3>3, AppliedGrows, Zenon
    <2>5. 0 \notin k.writes => k.nextId = m.nextId
      BY <1>3, <2>1, Zenon DEF Applied, Created, Updated, Dropped, Ops
    <2>6. Grows(k, k)
      BY <2>3, SMTT(40) DEF Grows, Metas
    <2> HIDE DEF o, m, k
    <2>7. /\ log' = Append(log, k) /\ Tip' = Tip + 1 /\ log'[Tip + 1] = k
          /\ \A i \in 1 .. Tip : log'[i] = log[i]
      <3>1. log' = Append(log, k)
        BY <1>3, Zenon DEF o, m, k
      <3>2. Len(log') = Tip + 1 /\ log'[Tip + 1] = k /\ \A i \in 1 .. Tip : log'[i] = log[i]
        BY <1>1, <2>3, <3>1, AppendIs
      <3> QED BY <3>1, <3>2, Zenon DEF Tip
    <2>8. ASSUME NEW i \in 1 .. Tip + 1
          PROVE  MetaSound(log'[i])
      BY <1>1, <2>3, <2>7 DEF HistorySound
    <2>9. ASSUME NEW i \in 1 .. Tip + 1, NEW j \in i .. Tip + 1
          PROVE  Grows(log'[i], log'[j])
      <3>1. CASE j <= Tip
        <4>1. i \in 1 .. Tip /\ j \in i .. Tip /\ j \in 1 .. Tip
          BY <1>1, <3>1
        <4> QED BY <1>1, <2>7, <4>1, Zenon DEF HistorySound
      <3>2. CASE j = Tip + 1 /\ i <= Tip
        BY <1>1, <2>4, <2>7, <3>2
      <3>3. CASE i = Tip + 1 /\ j = Tip + 1
        BY <2>6, <2>7, <3>3, Zenon
      <3> QED BY <1>1, <3>1, <3>2, <3>3, SMTT(40)
    <2>10. ASSUME NEW i \in 1 .. Tip + 1, NEW j \in i .. Tip + 1,
                  \A l \in i + 1 .. j : 0 \notin log'[l].writes
           PROVE  log'[i].nextId = log'[j].nextId
      <3>1. CASE j <= Tip
        <4>1. i \in 1 .. Tip /\ j \in i .. Tip /\ j \in 1 .. Tip
          BY <1>1, <3>1
        <4>2. \A l \in i + 1 .. j : 0 \notin log[l].writes
          BY <1>1, <2>7, <2>10, <4>1
        <4>3. log[i].nextId = log[j].nextId
          BY <1>1, <4>1, <4>2, Zenon DEF HistorySound
        <4> QED BY <2>7, <4>1, <4>3, Zenon
      <3>2. CASE j = Tip + 1 /\ i <= Tip
        <4>1. i \in 1 .. Tip /\ Tip \in i .. Tip /\ Tip \in 1 .. Tip
          BY <1>1, <3>2
        <4>2. \A l \in i + 1 .. Tip : 0 \notin log[l].writes
          BY <1>1, <2>7, <2>10, <3>2, <4>1
        <4>3. log[i].nextId = log[Tip].nextId
          BY <1>1, <4>1, <4>2, Zenon DEF HistorySound
        <4>4. Tip + 1 \in i + 1 .. j
          BY <1>1, <3>2
        <4>5. 0 \notin k.writes
          BY <2>7, <2>10, <4>4, Zenon
        <4> QED BY <2>5, <2>7, <3>2, <4>1, <4>3, <4>5, Zenon DEF m
      <3>3. CASE i = Tip + 1 /\ j = Tip + 1
        BY <3>3, Zenon
      <3> QED BY <1>1, <3>1, <3>2, <3>3
    <2> QED BY <2>7, <2>8, <2>9, <2>10, ZenonT(40) DEF HistorySound
  <1> QED BY <1>2, <1>3, AppendStep, Zenon

\* A Tenant stays one of the versions there were.
LEMMA TenantsFromLogStep ==
    ASSUME VersionInv, TenantsFromLog, [Next]_vars
    PROVE  TenantsFromLog'
  <1>1. Len(log) \in Nat /\ Len(log') >= Len(log) /\ \A i \in 1 .. Len(log) : log'[i] = log[i]
    BY HistoryStep DEF VersionInv, TypeOK, LogTypeOK
  <1>2. Len(log') \in Nat
    BY TypeStep DEF VersionInv, TypeOK, LogTypeOK
  <1>3. ASSUME NEW v \in 1 .. Tip
        PROVE  v \in 1 .. Tip' /\ Content(log[v]) = Content(log'[v])
    BY <1>1, <1>2 DEF Tip
  <1>4. SUFFICES ASSUME NEW n \in Nodes
                 PROVE  \/ cache'[n].content = Empty
                        \/ \E v \in 1 .. Tip' : cache'[n].content = Content(log'[v])
    BY Zenon DEF TenantsFromLog
  <1>5. CASE cache'[n] = cache[n]
    BY <1>3, <1>5, Zenon DEF TenantsFromLog
  <1>6. ASSUME NEW v \in 1 .. Tip, cache'[n] = Loaded(v)
        PROVE  \E u \in 1 .. Tip' : cache'[n].content = Content(log'[u])
    <2>1. cache'[n].content = Content(log[v])
      BY <1>6, SMTT(40) DEF Loaded
    <2> QED BY <1>3, <2>1, Zenon
  <1> QED BY <1>5, <1>6, CacheStep, Zenon

\* What is buffered stays right while the log grows, since a create has its
\* snapshot already.
LEMMA BufferKept ==
    ASSUME TypeOK, [Next]_vars, NEW q \in Reqs, Buffered(q),
           op'[q] = op[q], rv'[q] = rv[q] \/ rv[q] = 0
    PROVE  Buffered(q)'
  <1>1. Len(log) \in Nat /\ Len(log') >= Len(log) /\ \A i \in 1 .. Len(log) : log'[i] = log[i]
    BY HistoryStep DEF TypeOK, LogTypeOK
  <1>2. Len(log') \in Nat
    BY TypeStep, SMTT(40) DEF TypeOK, LogTypeOK
  <1>3. ASSUME NEW v \in 1 .. Tip
        PROVE  v \in 1 .. Tip' /\ log'[v] = log[v] /\ LatestRev(log'[v]) = LatestRev(log[v])
    BY <1>1, <1>2, SMTT(40) DEF Tip
  <1>4. ASSUME op[q].op = "create"
        PROVE  rv'[q] \in 1 .. Tip' /\ op'[q].id = log'[rv'[q]].nextId
    <2>1. rv[q] \in 1 .. Tip /\ op[q].id = log[rv[q]].nextId
      BY <1>4, Zenon DEF Buffered
    <2>2. rv'[q] = rv[q]
      BY <2>1
    <2> QED BY <1>3, <2>1, <2>2, Zenon
  <1>5. ASSUME op[q].op = "update"
        PROVE  \E v \in 1 .. Tip' : log'[v].coll = op'[q].id /\ LatestRev(log'[v]) = op'[q].base
    <2>1. PICK v \in 1 .. Tip : log[v].coll = op[q].id /\ LatestRev(log[v]) = op[q].base
      BY <1>5, Zenon DEF Buffered
    <2>2. log'[v].coll = op'[q].id /\ LatestRev(log'[v]) = op'[q].base /\ v \in 1 .. Tip'
      BY <1>3, <2>1, Zenon
    <2> QED BY <2>2, Zenon
  <1> QED BY <1>4, <1>5, Zenon DEF Buffered

\* What a DDL statement of an unversioned database buffers.
LEMMA RunDdlBuffers ==
    ASSUME ~Versioned, VersionInv, ChainInv, NEW q \in Reqs, NEW s \in Statements, RunDdl(q, s)
    PROVE  Buffered(q)'
  <1> DEFINE c == cache[NodeOf[q]].content
             m == log[ReadVersionOf(q)]
             o == Statement(s, c, m)
  <1>1. /\ TypeOK /\ Sound(q) /\ Numbers(q) /\ Tip \in Nat /\ Tip >= 1 /\ op \in [Reqs -> Ops]
        /\ rv \in [Reqs -> Nat] /\ \A i \in 1 .. Tip : log[i] \in Metas
    BY SoundSplit, NumbersType, SMTT(40) DEF TypeOK, LogTypeOK, Tip, VersionTypeOK, StagedTypeOK
  <1>2. Visible(q) = c /\ log' = log
    BY ZenonT(40) DEF RunDdl, Visible
  <1>3. op'[q] = o /\ rv'[q] = ReadVersionOf(q)
    BY <1>1, <1>2, ZenonT(40) DEF RunDdl
  <1>4. ReadVersionOf(q) \in 1 .. Tip /\ m \in Metas
    <2>1. rv[q] \in Nat /\ rv[q] <= Tip
      BY <1>1, Zenon DEF Sound, Numbers
    <2>2. ReadVersionOf(q) \in 1 .. Tip
      BY <1>1, <2>1 DEF ReadVersionOf
    <2> QED BY <1>1, <2>2, Zenon
  <1>5. c \in Collections
    BY <1>1, Zenon DEF TypeOK, ServerTypeOK, Tenants, Numbers
  <1>6. \/ c.id = 0 /\ c.rev = 0
        \/ \E v \in 1 .. Tip : log[v].coll = c.id /\ LatestRev(log[v]) = c.rev
    <2>1. CASE c = Empty
      BY <2>1 DEF Empty
    <2>2. ASSUME NEW v \in 1 .. Tip, c = Content(log[v])
          PROVE  log[v].coll = c.id /\ LatestRev(log[v]) = c.rev
      BY <2>2, SMTT(40) DEF Content
    <2> HIDE DEF c
    <2>3. c = Empty \/ \E v \in 1 .. Tip : c = Content(log[v])
      BY <1>1, Zenon DEF c, ChainInv, TenantsFromLog, Numbers
    <2> QED BY <2>1, <2>2, <2>3, Zenon
  <1>7. c.id = 0 => c.rev = 0
    <2>1. ASSUME NEW v \in 1 .. Tip, log[v].coll = 0
          PROVE  LatestRev(log[v]) = 0
      BY <1>1, <2>1, LatestRevStored, Zenon DEF ChainInv, HistorySound
    <2> HIDE DEF c
    <2> QED BY <1>6, <2>1, Zenon
  <1> HIDE DEF c, m
  <1>8. ASSUME o.op = "create"
        PROVE  o.rev = 1 /\ o.base = 0 /\ o.id = m.nextId
    <2>1. o = CreateOp(c, m) /\ c.id = 0
      BY <1>8, Zenon DEF Statement, DropOp, UpdateOp, NoOp
    <2> QED BY <1>7, <1>8, <2>1, SMTT(40) DEF CreateOp, NoOp, NewRev
  <1>9. ASSUME o.op = "update"
        PROVE  o.id = c.id /\ c.id # 0 /\ o.rev = o.base + 1 /\ o.base = c.rev
    <2>1. o = UpdateOp(c, m) /\ c.id # 0
      BY <1>9, Zenon DEF Statement, DropOp, CreateOp, NoOp
    <2> QED BY <1>5, <1>9, <2>1, SMTT(40) DEF UpdateOp, NoOp, NewRev, Collections
  <1> HIDE DEF o
  <1>10. ASSUME o.op = "create"
         PROVE  rv'[q] \in 1 .. Tip' /\ o.id = log'[rv'[q]].nextId
    BY <1>2, <1>3, <1>4, <1>8, <1>10, Zenon DEF m, Tip
  <1>11. ASSUME o.op = "update"
         PROVE  \E v \in 1 .. Tip' : log'[v].coll = o.id /\ LatestRev(log'[v]) = o.base
    <2>1. PICK v \in 1 .. Tip : log[v].coll = c.id /\ LatestRev(log[v]) = c.rev
      BY <1>6, <1>9, <1>11, Zenon
    <2> QED BY <1>2, <1>9, <1>11, <2>1, Zenon DEF Tip
  <1> QED BY <1>3, <1>8, <1>9, <1>10, <1>11, Zenon DEF Buffered

\* What a request does to what it has buffered.
LEMMA BufferStep ==
    ASSUME TypeOK, NEW q \in Reqs, Advance(q) \/ Client(q) \/ Fault(q)
    PROVE  \/ op'[q] = NoOp
           \/ op'[q] = op[q] /\ (rv'[q] = rv[q] \/ rv[q] = 0)
           \/ \E s \in Statements : RunDdl(q, s)
  <1> USE DEF txVars
  <1> op \in [Reqs -> Ops] /\ rv \in [Reqs -> Nat]
    BY Zenon DEF TypeOK, VersionTypeOK, StagedTypeOK
  <1>1. CASE UNCHANGED <<op, rv>>
    BY <1>1, Zenon
  <1>2. CASE AssignReadVersion(q) \/ RunTxnDml(q)
    BY <1>2, ZenonT(40) DEF AssignReadVersion, RunTxnDml, ReadVersionOf
  <1>3. CASE RetryOnChange(q) \/ ConflictDml(q) \/ Finish(q)
    BY <1>3, Zenon DEF RetryOnChange, ConflictDml, Restarted, Finish
  <1>4. CASE CommitConflicts(q) \/ ReloadFails(q) \/ ReloadCommitFails(q)
    BY <1>4, Zenon DEF CommitConflicts, ReloadFails, ReloadCommitFails, TrackingFailed, Restarted, Answered
  <1>5. CASE \/ GetStartVersion(q) \/ Track(q) \/ Lock(q) \/ ReadVersion(q) \/ Reload(q) \/ ReloadCommits(q)
             \/ ReadInOwnTxn(q) \/ RunOnCache(q) \/ StopTracker(q) \/ CommitDml(q) \/ CommitSession(q)
             \/ CommitOfError(q) \/ RequestCommit(q) \/ RollbackTransaction(q) \/ CommitUnknown(q)
    BY <1>1, <1>5, Zenon DEF GetStartVersion, Track, Lock, ReadVersion, Reload, ReloadCommits, ReadInOwnTxn,
       RunOnCache, StopTracker, CommitDml, CommitSession, CommitOfError, RequestCommit, RollbackTransaction,
       CommitUnknown, Answered
  <1>6. ASSUME NEW k \in AllKinds, NEW t \in Trackers, Begin(q, k, t)
        PROVE  UNCHANGED <<op, rv>>
    BY <1>6, Zenon DEF Begin
  <1> QED BY <1>1, <1>2, <1>3, <1>4, <1>5, <1>6, Zenon DEF Advance, Client, Fault

\* Every step keeps ChainInv.
LEMMA ChainStep ==
    ASSUME ~Versioned, VersionInv, ChainInv, [Next]_vars
    PROVE  ChainInv'
  <1>1. TypeOK /\ TenantsFromLog /\ \A q \in Reqs : Buffered(q)
    BY Zenon DEF ChainInv, VersionInv
  <1>2. HistorySound' /\ TenantsFromLog'
    BY <1>1, HistorySoundStep, TenantsFromLogStep, Zenon
  <1>3. ASSUME NEW q \in Reqs
        PROVE  Buffered(q)'
    <2>1. ASSUME op'[q] = op[q], rv'[q] = rv[q] \/ rv[q] = 0
          PROVE  Buffered(q)'
      BY <1>1, <2>1, BufferKept, Zenon
    <2>2. ASSUME op'[q] = NoOp
          PROVE  Buffered(q)'
      BY <2>2 DEF NoOp, Buffered
    <2>3. ASSUME NEW r \in Reqs, Advance(r) \/ Client(r) \/ Fault(r)
          PROVE  Buffered(q)'
      <3>1. CASE q # r
        BY <1>1, <2>1, <2>3, <3>1, OthersStay, Zenon DEF Stays
      <3>2. CASE q = r
        BY <1>1, <2>1, <2>2, <2>3, <3>2, BufferStep, RunDdlBuffers, ZenonT(40)
      <3> QED BY <3>1, <3>2, Zenon
    <2>4. ASSUME NEW n \in Nodes, Restart(n)
          PROVE  Buffered(q)'
      <3>1. op'[q] = NoOp \/ (op'[q] = op[q] /\ rv'[q] = rv[q])
        BY <2>4, Zenon DEF Restart
      <3> QED BY <2>1, <2>2, <3>1, Zenon
    <2>5. CASE UNCHANGED vars
      <3>1. op'[q] = op[q] /\ rv'[q] = rv[q]
        BY <2>5, Zenon DEF vars, txVars
      <3> QED BY <2>1, <3>1, Zenon
    <2> QED BY <2>3, <2>4, <2>5, Zenon DEF Next
  <1> QED BY <1>2, <1>3, Zenon DEF ChainInv

-----------------------------------------------------------------------------
(* The theorems.                                                            *)

(* The servers start with Tenants of the first version and no request.      *)
LEMMA InitVersionInv ==
    ASSUME Init
    PROVE  VersionInv /\ CacheIsSnapshot
  <1> USE NodesAssumption DEF Init
  <1>1. InitMeta \in Metas
    BY DEF InitMeta, Metas
  <1>2. Len(log) = 1 /\ log[1] = InitMeta /\ log \in Seq(Metas)
    BY <1>1, SMTT(40)
  <1>3. Loaded(1) \in Tenants /\ Loaded(1).version = 1
    BY <1>1, <1>2, ContentType, Zenon DEF Loaded, Tenants
  <1>4. TypeOK
    <2>1. LogTypeOK
      BY <1>2 DEF LogTypeOK
    <2>2. ServerTypeOK
      BY <1>3, Zenon DEF ServerTypeOK
    <2>3. ControlTypeOK
      BY Zenon DEF ControlTypeOK, AllKinds, PCs
    <2>4. VersionTypeOK
      BY Zenon DEF VersionTypeOK
    <2>5. StagedTypeOK
      BY Zenon DEF StagedTypeOK, NotStaged, NoOp, Ops, Collections, Results
    <2> QED BY <2>1, <2>2, <2>3, <2>4, <2>5, Zenon DEF TypeOK
  <1>5. VersionsExist /\ TrackedBehindCache
    BY <1>2, <1>3, SMTT(40) DEF VersionsExist, TrackedBehindCache, Tip
  <1>6. ReloadInv /\ PhaseInv /\ InstantFresh /\ DmlSeesItsSnapshotSchema
    BY Zenon DEF ReloadInv, PhaseInv, Tracking, InstantFresh, DmlSeesItsSnapshotSchema
  <1>7. StartInv
    BY <1>3, SMTT(40) DEF StartInv, Tracking
  <1>8. CacheIsSnapshot
    BY Zenon DEF CacheIsSnapshot, Loaded
  <1> QED BY <1>4, <1>5, <1>6, <1>7, <1>8, Zenon DEF VersionInv

\* The inductive invariant of the version protocol: at every moment a request
\* in stopTracking holds what its position says, for any number of servers,
\* trackers, requests, faults and DDLs.
THEOREM VersionsHold == Spec => []VersionInv
  <1>1. Init => VersionInv
    BY InitVersionInv, Zenon
  <1>2. VersionInv /\ [Next]_vars => VersionInv'
    BY StepVersionInv, Zenon
  <1> QED BY <1>1, <1>2, PTL DEF Spec

\* Every variable keeps its type.
THEOREM TypeCorrect == Spec => []TypeOK
  <1>1. VersionInv => TypeOK
    BY Zenon DEF VersionInv
  <1> QED BY <1>1, VersionsHold, PTL

\* No tracker runs ahead of the Tenant it stands for, whatever trackers of
\* other services reload it and wherever a reload fails.
THEOREM TrackersFollow == Spec => []TrackedBehindCache
  <1>1. VersionInv => TrackedBehindCache
    BY Zenon DEF VersionInv
  <1> QED BY <1>1, VersionsHold, PTL

\* InstantTracking returns only when the Tenant is at least as new as the
\* version it read (the guarantee in stopTracking's comment).
THEOREM InstantTrackingFresh == Spec => []InstantFresh
  <1>1. VersionInv => InstantFresh
    BY Zenon DEF VersionInv
  <1> QED BY <1>1, VersionsHold, PTL

\* A write never commits having overlooked a DDL that committed before its
\* snapshot (DeferredTracking, Stop and the retry of executeWithRetry).
THEOREM DeferredTrackingFresh == Spec => []DmlSeesItsSnapshotSchema
  <1>1. VersionInv => DmlSeesItsSnapshotSchema
    BY Zenon DEF VersionInv
  <1> QED BY <1>1, VersionsHold, PTL

\* A Tenant whose reload did not fail is the metadata of the version it
\* claims, since history is never rewritten.
THEOREM TenantsAreSnapshots == Spec => []CacheIsSnapshot
  <1>1. Init => CacheIsSnapshot
    BY InitVersionInv, Zenon
  <1>2. VersionInv /\ CacheIsSnapshot /\ [Next]_vars => CacheIsSnapshot'
    BY SnapshotStep, Zenon
  <1> QED BY <1>1, <1>2, VersionsHold, PTL DEF Spec

\* Neither a Tenant's version nor a tracker's goes back, and a commit never
\* rewrites the metadata committed before it.
THEOREM VersionsMonotonic == Spec => CacheMonotonic
  <1>1. VersionInv /\ [Next]_vars =>
          [/\ \A n \in Nodes : cache'[n].version >= cache[n].version
           /\ \A n \in Nodes : \A k \in Trackers : tracked'[n][k] >= tracked[n][k]
           /\ SubSeq(log', 1, Len(log)) = log]_vars
    BY StepVersionInv, HistoryStep, Zenon DEF VersionInv, VersionsGrow
  <1> QED BY <1>1, VersionsHold, PTL DEF Spec, CacheMonotonic

\* A request of a server none of whose reloads failed is told that a
\* collection does not exist only when there was a moment, no earlier than
\* its snapshot, when it did not (getCollection on the Tenant, and Stop).
\* After a reload that failed half-way the reset maps tell otherwise, and
\* the hypothesis says exactly that no reload does.
THEOREM NotFoundHonest ==
    Spec /\ [][\A r \in Reqs : ~ReloadFails(r)]_vars => []NotFoundIsHonest
  <1>1. Init => HonestInv
    BY DEF Init, HonestInv, Told, Loaded
  <1>2. VersionInv /\ CacheIsSnapshot /\ HonestInv /\ [Next]_vars /\ [\A r \in Reqs : ~ReloadFails(r)]_vars
          => HonestInv'
    BY HonestStep, Zenon
  <1>3. VersionInv /\ HonestInv => NotFoundIsHonest
    <2> SUFFICES ASSUME VersionInv, HonestInv, NEW r \in Reqs, pc[r] = "done", result[r] = "notfound"
                 PROVE  \E i \in (IF kind[r] = "dml" THEN rv[r] ELSE end[r]) .. Tip : log[i].coll = 0
      BY Zenon DEF NotFoundIsHonest
    <2>1. Told(r) /\ Sound(r) /\ Numbers(r)
      BY SoundSplit, NumbersType, Zenon DEF HonestInv
    <2>2. used[r] \in 1 .. Tip /\ log[used[r]].coll = 0
      BY <2>1, Zenon DEF Told
    <2>3. used[r] >= IF kind[r] = "dml" THEN rv[r] ELSE end[r]
      BY <2>1, Zenon DEF Told, Sound
    <2>4. used[r] \in (IF kind[r] = "dml" THEN rv[r] ELSE end[r]) .. Tip
      <3>1. rv[r] \in Nat /\ end[r] \in Nat /\ Tip \in Nat
        BY <2>1, Zenon DEF Numbers
      <3> QED BY <2>2, <2>3, <3>1, AtOrAfter, Zenon
    <2> QED BY <2>2, <2>4, Zenon
  <1> QED BY <1>1, <1>2, <1>3, VersionsHold, TenantsAreSnapshots, PTL DEF Spec

\* Every revision of the live collection of an unversioned database was
\* checked for compatibility against the one stored just before it, although
\* updateCollection checks it against the Tenant of its server: servers
\* whose Tenants lag, run ahead of the snapshot or were reset by a failed
\* reload cannot break the chain between them.
THEOREM SchemasChained ==
    ASSUME ~Versioned
    PROVE  Spec => []SchemaChain
  <1>1. Init => ChainInv
    <2> SUFFICES ASSUME Init
                 PROVE  ChainInv
      BY Zenon
    <2>1. Tip = 1 /\ log[1] = InitMeta
      BY Zenon DEF Init, Tip
    <2>2. MetaSound(InitMeta) /\ Grows(InitMeta, InitMeta)
      BY DEF InitMeta, MetaSound, Grows
    <2>3. HistorySound
      BY <2>1, <2>2, SMTT(40) DEF HistorySound
    <2>4. TenantsFromLog
      BY <2>1, SMTT(40) DEF Init, TenantsFromLog, Loaded
    <2>5. \A q \in Reqs : Buffered(q)
      BY Zenon DEF Init, NoOp, Buffered
    <2> QED BY <2>3, <2>4, <2>5, Zenon DEF ChainInv
  <1>2. VersionInv /\ ChainInv /\ [Next]_vars => ChainInv'
    BY ChainStep, Zenon
  <1>3. VersionInv /\ ChainInv => SchemaChain
    <2> SUFFICES ASSUME VersionInv, ChainInv
                 PROVE  SchemaChain
      BY Zenon
    <2>1. Tip \in 1 .. Tip /\ log[Tip] \in Metas
      BY DEF VersionInv, TypeOK, LogTypeOK, Tip
    <2>2. MetaSound(log[Tip])
      BY <2>1, Zenon DEF ChainInv, HistorySound
    <2> QED BY <2>1, <2>2, ChainOfSound, Zenon DEF SchemaChain
  <1> QED BY <1>1, <1>2, <1>3, VersionsHold, PTL DEF Spec

=============================================================================
