--------------------------- MODULE MetadataCache ---------------------------
(***************************************************************************)
(* The schema cache of the Tigris servers and the metadata version that    *)
(* keeps it honest.                                                        *)
(*                                                                         *)
(* Every server keeps one Tenant object in memory: the collections of the  *)
(* tenant, and the metadata version they were loaded at.  Every service of *)
(* a server (database, search, cache, realtime) has a CacheTracker of its  *)
(* own over that shared Tenant, holding the version it believes the Tenant *)
(* to be at.  Every DDL transaction overwrites one version key with its    *)
(* commit version, and a request compares the version key with its         *)
(* tracker to find out whether the Tenant has to be reloaded:              *)
(*                                                                         *)
(*  - a write (an implicit DML request) reads the version key as a         *)
(*    snapshot read of its own transaction, runs on the cache, and         *)
(*    compares afterwards (DeferredTracking, then Stop);                   *)
(*  - a DDL request, an explicit transaction, a read and every request of  *)
(*    the other services read it first, in a transaction of its own, and   *)
(*    reload before they run (InstantTracking).                            *)
(*                                                                         *)
(* FoundationDB is modelled by the sequence of committed metadata states:  *)
(* a commit appends, a read version is a length of that sequence, and a    *)
(* transaction conflicts when a key it read was written after its read     *)
(* version.  As each DDL commit sets the version key to its own commit     *)
(* version, the metadata version at a read version is that length itself.  *)
(***************************************************************************)
EXTENDS Integers, Sequences, FiniteSets

CONSTANTS
    Nodes,        \* the servers
    Trackers,     \* the cache trackers of a server, one per service
    DbTracker,    \* the tracker of the database service
    Reqs,         \* requests in flight
    NodeOf,       \* the server a request is sent to
    Kinds,        \* the kinds of request a behaviour may contain
    Versioned,    \* does the database use client-provided schema versions?
    MaxLog,       \* bound: metadata states the database goes through
    NoReq,        \* no request: the lock is free
    MaxFaults     \* bound: failed reloads, conflicts, commit failures, restarts

AllKinds == {"dml", "ddl", "txn", "instant"}

ASSUME NodesAssumption ==
    /\ NodeOf \in [Reqs -> Nodes]
    /\ DbTracker \in Trackers
    /\ Kinds \subseteq AllKinds
    /\ Versioned \in BOOLEAN
ASSUME BoundsAssumption == MaxLog \in Nat /\ MaxFaults \in Nat

ASSUME NoReqAssumption == NoReq \notin Reqs

VARIABLES
    log,          \* committed metadata states, oldest first
    cache,        \* Tenant: what a server has loaded, and at which version
    tracked,      \* CacheTracker.tenantVersions of each tracker of a server
    lock,         \* the write lock of each tracker
    faults,       \* faults injected so far
    \* The rest is per request.
    pc,           \* where it is
    kind,         \* what it is
    tracker,      \* the tracker of the service that handles it
    after,        \* where it continues when stopTracking has returned
    rv,           \* read version of its transaction, 0 before the first read
    start,        \* Tracker.startVersion
    end,          \* Tracker.endVersion
    rrv,          \* read version of the transaction that reloads
    used,         \* the version of the cached state its statement ran on
    staged,       \* the database its transaction has staged
    op,           \* the DDL its transaction has buffered
    result        \* its answer

serverVars == <<cache, tracked, lock>>
trackVars == <<after, start, end, rrv>>
txVars == <<rv, used, staged, op, result>>
vars == <<log, serverVars, faults, pc, kind, tracker, trackVars, txVars>>

-----------------------------------------------------------------------------
(* Metadata as the database holds it: the dictionary entry of a collection  *)
(* name (the id it was given, 0 when there is none), the next id, the       *)
(* schema version of the database, and the schema revisions stored under    *)
(* each id with the revision each of them was validated against.  "writes"  *)
(* is the set of keys the commit wrote: 0 for the dictionary entry of the   *)
(* name, an id for the range of the schemas stored under it.                *)

Tip == Len(log)

\* schema.Versions.Latest: the latest revision, 0 when there is none.
Latest(revs) ==
    IF \E v \in revs : \A w \in revs : w <= v
    THEN CHOOSE v \in revs : \A w \in revs : w <= v
    ELSE 0

\* createCollection on reload: the latest stored revision of the collection.
LatestRev(m) == Latest({s.rev : s \in {x \in m.schemas : x.id = m.coll}})
Content(m) == [id |-> m.coll, rev |-> LatestRev(m)]

\* A Tenant after reload has failed half-way: the maps were reset first.
Empty == [id |-> 0, rev |-> 0]

Loaded(v) == [version |-> v, content |-> Content(log[v]), whole |-> TRUE]

\* What a session looks a collection up in: the staged database of its
\* transaction, or the Tenant.
NotStaged == [id |-> -1, rev |-> 0]
Visible(r) == IF staged[r] # NotStaged THEN staged[r] ELSE cache[NodeOf[r]].content

NoOp == [op |-> "none", id |-> 0, rev |-> 0, base |-> 0]

InitMeta == [coll |-> 1, nextId |-> 2, dbVer |-> IF Versioned THEN 1 ELSE 0,
             schemas |-> {[id |-> 1, rev |-> 1, base |-> 0]},
             writes |-> {0, 1}]

Init ==
    /\ log = <<InitMeta>>
    /\ cache = [n \in Nodes |-> Loaded(1)]
    /\ tracked = [n \in Nodes |-> [k \in Trackers |-> 1]]
    /\ lock = [n \in Nodes |-> [k \in Trackers |-> NoReq]]
    /\ faults = 0
    /\ pc = [r \in Reqs |-> "idle"]
    /\ kind = [r \in Reqs |-> "dml"]
    /\ tracker = [r \in Reqs |-> DbTracker]
    /\ after = [r \in Reqs |-> "done"]
    /\ rv = [r \in Reqs |-> 0]
    /\ start = [r \in Reqs |-> 0]
    /\ end = [r \in Reqs |-> 0]
    /\ rrv = [r \in Reqs |-> 0]
    /\ used = [r \in Reqs |-> 0]
    /\ staged = [r \in Reqs |-> NotStaged]
    /\ op = [r \in Reqs |-> NoOp]
    /\ result = [r \in Reqs |-> "none"]

-----------------------------------------------------------------------------
(* Creating a session (SessionManager.Create, CreateReadOnlySession and the  *)
(* Execute of the other services).                                          *)

ActiveDdl == {r \in Reqs : pc[r] # "idle" /\ kind[r] \in {"ddl", "txn"}}

\* StartTx and, for a write, the snapshot read of the version key; otherwise
\* the version key is read in a transaction of its own.
Begin(r, k, t) ==
    /\ pc[r] = "idle"
    /\ k \in Kinds
    /\ t = DbTracker \/ k = "instant"
    /\ k \in {"ddl", "txn"} => Tip + Cardinality(ActiveDdl) < MaxLog
    /\ pc' = [pc EXCEPT ![r] = "tracking"]
    /\ kind' = [kind EXCEPT ![r] = k]
    /\ tracker' = [tracker EXCEPT ![r] = t]
    /\ end' = [end EXCEPT ![r] = IF k = "dml" THEN 0 ELSE Tip]
    /\ after' = [after EXCEPT ![r] = "run"]
    /\ UNCHANGED <<log, serverVars, faults, start, rrv, txVars>>

\* FoundationDB assigns the read version of a write some time after the read
\* of the version key was issued, and before its future is resolved.
AssignReadVersion(r) ==
    /\ kind[r] = "dml" /\ pc[r] \in {"tracking", "run", "stop"} /\ rv[r] = 0
    /\ rv' = [rv EXCEPT ![r] = Tip]
    /\ UNCHANGED <<log, serverVars, faults, pc, kind, tracker, trackVars, used, staged, op, result>>

Unlocked(r) == lock[NodeOf[r]][tracker[r]] = NoReq
TrackedVersion(r) == tracked[NodeOf[r]][tracker[r]]

\* getTenantVersion, under the read lock of the tracker.
GetStartVersion(r) ==
    /\ pc[r] = "tracking"
    /\ Unlocked(r)
    /\ start' = [start EXCEPT ![r] = TrackedVersion(r)]
    /\ pc' = [pc EXCEPT ![r] = IF kind[r] = "dml" THEN "run" ELSE "track"]
    /\ UNCHANGED <<log, serverVars, faults, kind, tracker, after, end, rrv, txVars>>

-----------------------------------------------------------------------------
(* CacheTracker.stopTracking: double-checked locking around one reload.     *)

\* executeWithRetry continues with a new session; a session that cannot be
\* created, or a commit whose last reload fails, is answered with the error.
Restarted(r) ==
    /\ pc' = [pc EXCEPT ![r] = IF kind[r] = "dml" THEN "tracking" ELSE "again"]
    /\ rv' = [rv EXCEPT ![r] = 0]
    /\ used' = [used EXCEPT ![r] = 0]
    /\ staged' = [staged EXCEPT ![r] = NotStaged]
    /\ op' = [op EXCEPT ![r] = NoOp]
    /\ result' = [result EXCEPT ![r] = "none"]

Answered(r, answer) ==
    /\ pc' = [pc EXCEPT ![r] = "done"]
    /\ result' = [result EXCEPT ![r] = answer]
    /\ UNCHANGED <<rv, used, staged, op>>

TrackingFailed(r) == IF kind[r] = "dml" THEN Restarted(r) ELSE Answered(r, "error")

\* Mutant: the second check compares with the version at the start.
TrackAgainstStart(r) ==
    /\ pc[r] = "track"
    /\ Unlocked(r)
    /\ pc' = [pc EXCEPT ![r] = IF end[r] <= start[r] \/ TrackedVersion(r) >= start[r]
                               THEN after[r] ELSE "lock"]
    /\ UNCHANGED <<log, serverVars, faults, kind, tracker, trackVars, txVars>>

\* The two checks made without the write lock.
Track(r) ==
    /\ pc[r] = "track"
    /\ Unlocked(r)
    /\ pc' = [pc EXCEPT ![r] = IF end[r] <= start[r] \/ TrackedVersion(r) >= end[r]
                               THEN after[r] ELSE "lock"]
    /\ UNCHANGED <<log, serverVars, faults, kind, tracker, trackVars, txVars>>

\* The write lock, and the check made again under it.
Lock(r) ==
    /\ pc[r] = "lock"
    /\ Unlocked(r)
    /\ IF TrackedVersion(r) >= end[r]
       THEN /\ pc' = [pc EXCEPT ![r] = after[r]]
            /\ UNCHANGED lock
       ELSE /\ pc' = [pc EXCEPT ![r] = "read"]
            /\ lock' = [lock EXCEPT ![NodeOf[r]][tracker[r]] = r]
    /\ UNCHANGED <<log, cache, tracked, faults, kind, tracker, trackVars, txVars>>

\* Mutant: the tracker takes the version before the Tenant is reloaded.
ReadVersionEarly(r) ==
    /\ pc[r] = "read"
    /\ rrv' = [rrv EXCEPT ![r] = Tip]
    /\ tracked' = [tracked EXCEPT ![NodeOf[r]][tracker[r]] = Tip]
    /\ pc' = [pc EXCEPT ![r] = "reload"]
    /\ UNCHANGED <<log, cache, lock, faults, kind, tracker, after, start, end, txVars>>

\* A new transaction reads the version key.
ReadVersion(r) ==
    /\ pc[r] = "read"
    /\ rrv' = [rrv EXCEPT ![r] = Tip]
    /\ pc' = [pc EXCEPT ![r] = "reload"]
    /\ UNCHANGED <<log, serverVars, faults, kind, tracker, after, start, end, txVars>>

\* Mutant: no check for a version that retrogressed.
ReloadUnguarded(r) ==
    /\ pc[r] = "reload"
    /\ cache' = [cache EXCEPT ![NodeOf[r]] = Loaded(rrv[r])]
    /\ pc' = [pc EXCEPT ![r] = "reloaded"]
    /\ UNCHANGED <<log, tracked, lock, faults, kind, tracker, trackVars, txVars>>

\* Mutant: the collections are read outside the transaction of the version.
ReloadOutsideTx(r) ==
    /\ pc[r] = "reload"
    /\ cache' = IF rrv[r] > cache[NodeOf[r]].version
                THEN [cache EXCEPT ![NodeOf[r]] = [Loaded(Tip) EXCEPT !.version = rrv[r]]]
                ELSE cache
    /\ pc' = [pc EXCEPT ![r] = "reloaded"]
    /\ UNCHANGED <<log, tracked, lock, faults, kind, tracker, trackVars, txVars>>

\* Tenant.Reload, under the lock of the Tenant: never back to an older version.
Reload(r) ==
    /\ pc[r] = "reload"
    /\ cache' = IF rrv[r] > cache[NodeOf[r]].version
                THEN [cache EXCEPT ![NodeOf[r]] = Loaded(rrv[r])]
                ELSE cache
    /\ pc' = [pc EXCEPT ![r] = "reloaded"]
    /\ UNCHANGED <<log, tracked, lock, faults, kind, tracker, trackVars, txVars>>

Unlock(r) ==
    /\ lock' = [lock EXCEPT ![NodeOf[r]][tracker[r]] = NoReq]
    /\ rrv' = [rrv EXCEPT ![r] = 0]

\* Mutant: the write lock is not released.
ReloadFailsLocked(r) ==
    /\ pc[r] = "reload"
    /\ faults < MaxFaults
    /\ faults' = faults + 1
    /\ rrv[r] > cache[NodeOf[r]].version
    /\ cache' = [cache EXCEPT ![NodeOf[r]].content = Empty, ![NodeOf[r]].whole = FALSE]
    /\ TrackingFailed(r)
    /\ UNCHANGED <<log, tracked, lock, kind, tracker, trackVars>>

\* reload returns an error: the maps were reset, the version was not set.
ReloadFails(r) ==
    /\ pc[r] = "reload"
    /\ faults < MaxFaults
    /\ faults' = faults + 1
    /\ rrv[r] > cache[NodeOf[r]].version
    /\ cache' = [cache EXCEPT ![NodeOf[r]].content = Empty, ![NodeOf[r]].whole = FALSE]
    /\ Unlock(r)
    /\ TrackingFailed(r)
    /\ UNCHANGED <<log, tracked, kind, tracker, after, start, end>>

\* The reloading transaction commits and the tracker takes its version.
ReloadCommits(r) ==
    /\ pc[r] = "reloaded"
    /\ tracked' = [tracked EXCEPT ![NodeOf[r]][tracker[r]] = rrv[r]]
    /\ Unlock(r)
    /\ pc' = [pc EXCEPT ![r] = after[r]]
    /\ UNCHANGED <<log, cache, faults, kind, tracker, after, start, end, txVars>>

ReloadCommitFails(r) ==
    /\ pc[r] = "reloaded"
    /\ faults < MaxFaults
    /\ faults' = faults + 1
    /\ Unlock(r)
    /\ TrackingFailed(r)
    /\ UNCHANGED <<log, cache, tracked, kind, tracker, after, start, end>>

\* InstantTracking reads the version key in a transaction of its own: when a
\* DDL request is retried, and after a commit that has staged a database.
ReadInOwnTxn(r) ==
    /\ pc[r] \in {"again", "committed"}
    /\ end' = [end EXCEPT ![r] = Tip]
    /\ after' = [after EXCEPT ![r] = IF pc[r] = "again" THEN "run" ELSE "done"]
    /\ pc' = [pc EXCEPT ![r] = "tracking"]
    /\ UNCHANGED <<log, serverVars, faults, kind, tracker, start, rrv, txVars>>

-----------------------------------------------------------------------------
(* Running on the cache.                                                    *)

\* A write looks its collection up; a read, or a request of another service,
\* is answered from what it finds.
RunOnCache(r) ==
    /\ pc[r] = "run" /\ kind[r] \in {"dml", "instant"}
    /\ used' = [used EXCEPT ![r] = cache[NodeOf[r]].version]
    /\ result' = [result EXCEPT ![r] = IF Visible(r).id = 0 THEN "notfound" ELSE "ok"]
    /\ pc' = [pc EXCEPT ![r] = IF kind[r] = "dml" THEN "stop" ELSE "done"]
    /\ UNCHANGED <<log, serverVars, faults, kind, tracker, trackVars, rv, staged, op>>

\* Tracker.Stop of a write: the future is resolved and stopTracking called.
StopTracker(r) ==
    /\ pc[r] = "stop" /\ rv[r] # 0
    /\ end' = [end EXCEPT ![r] = rv[r]]
    /\ after' = [after EXCEPT ![r] = "stopped"]
    /\ pc' = [pc EXCEPT ![r] = "track"]
    /\ UNCHANGED <<log, serverVars, faults, kind, tracker, start, rrv, txVars>>

\* Mutant: compares with what the tracker holds now, after the reload.
ChangeDetectedNow(r) == end[r] > TrackedVersion(r)

ChangeDetected(r) == end[r] > start[r]

\* A change was detected: roll back and start over, with no deadline.
RetryOnChange(r) ==
    /\ pc[r] = "stopped" /\ ChangeDetected(r)
    /\ Restarted(r)
    /\ UNCHANGED <<log, serverVars, faults, kind, tracker, trackVars>>

\* No change: commit, or answer with the error of the runner.  The version
\* key was read as a snapshot, so a later DDL is no conflict.
CommitDml(r) ==
    /\ pc[r] = "stopped" /\ ~ChangeDetected(r)
    /\ Answered(r, IF result[r] = "ok" THEN "committed" ELSE result[r])
    /\ UNCHANGED <<log, serverVars, faults, kind, tracker, trackVars>>

\* The documents conflict with another write.
ConflictDml(r) ==
    /\ pc[r] = "stopped" /\ ~ChangeDetected(r) /\ result[r] = "ok"
    /\ faults < MaxFaults
    /\ faults' = faults + 1
    /\ Restarted(r)
    /\ UNCHANGED <<log, serverVars, kind, tracker, trackVars>>

-----------------------------------------------------------------------------
(* DDL: Tenant.CreateCollection (create or update) and DropCollection, on a  *)
(* clone of the cached database, and commit.                                *)

ReadVersionOf(r) == IF rv[r] = 0 THEN Tip ELSE rv[r]

\* Mutant: the successor of the stored revision.
NewRevStored(c, m) == LatestRev(m) + 1

\* The revision a create or an update writes: the client's next version when
\* the database is versioned, otherwise the successor of the cached one.
NewRev(c, m) == IF Versioned THEN m.dbVer + 1 ELSE c.rev + 1

\* The dictionary insert of a create fails when the name is taken.
CreateOp(c, m) ==
    IF m.coll # 0 THEN NoOp
    ELSE [op |-> "create", id |-> m.nextId, rev |-> NewRev(c, m), base |-> 0]

\* The new schema is validated against the CACHED collection; the insert of
\* the revision fails when it exists, and the dictionary entry must exist.
UpdateOp(c, m) ==
    LET rev == NewRev(c, m) IN
    IF \/ rev <= c.rev
       \/ \E s \in m.schemas : s.id = c.id /\ s.rev = rev
       \/ m.coll = 0
    THEN NoOp
    ELSE [op |-> "update", id |-> c.id, rev |-> rev, base |-> c.rev]

\* The dictionary entry is dropped by name (nothing happens when there is
\* none), the schemas by the cached id.
DropOp(c) == IF c.id = 0 THEN NoOp ELSE [op |-> "drop", id |-> c.id, rev |-> 0, base |-> 0]

\* "same" is a create whose schema is the cached one: nothing to do.
Statements == {"put", "same", "drop"}
Statement(s, c, m) ==
    IF s = "drop" THEN DropOp(c)
    ELSE IF s = "same" THEN NoOp
    ELSE IF c.id = 0 THEN CreateOp(c, m) ELSE UpdateOp(c, m)

\* The staged clone; a new collection has the base revision there.
StagedBy(o, c) ==
    IF o.op = "none" THEN c
    ELSE IF o.op = "drop" THEN Empty
    ELSE [id |-> o.id, rev |-> IF o.op = "create" THEN 1 ELSE o.rev]

OldestUsed(r) == IF used[r] = 0 THEN cache[NodeOf[r]].version ELSE used[r]

\* One DDL statement, at most one in a transaction.
RunDdl(r, s) ==
    /\ pc[r] = "run" /\ kind[r] \in {"ddl", "txn"} /\ staged[r] = NotStaged
    /\ s = "same" => Visible(r).id # 0
    /\ LET c == Visible(r)
           o == Statement(s, c, log[ReadVersionOf(r)])
       IN  /\ op' = [op EXCEPT ![r] = o]
           /\ staged' = [staged EXCEPT ![r] = StagedBy(o, c)]
           /\ result' = [result EXCEPT ![r] =
                            IF o.op = "none" /\ s # "same" THEN "error" ELSE "ok"]
    /\ rv' = [rv EXCEPT ![r] = ReadVersionOf(r)]
    /\ used' = [used EXCEPT ![r] = OldestUsed(r)]
    /\ pc' = [pc EXCEPT ![r] = IF kind[r] = "ddl" THEN "commit" ELSE "run"]
    /\ UNCHANGED <<log, serverVars, faults, kind, tracker, trackVars>>

\* A statement of an explicit transaction that reads or writes documents.
RunTxnDml(r) ==
    /\ pc[r] = "run" /\ kind[r] = "txn" /\ result[r] # "error"
    /\ Visible(r).id # 0
    /\ rv' = [rv EXCEPT ![r] = ReadVersionOf(r)]
    /\ used' = [used EXCEPT ![r] = OldestUsed(r)]
    /\ result' = [result EXCEPT ![r] = "ok"]
    /\ UNCHANGED <<log, serverVars, faults, pc, kind, tracker, trackVars, staged, op>>

\* CommitTransaction and RollbackTransaction of the client, which does not
\* commit after a statement that failed.
RequestCommit(r) ==
    /\ pc[r] = "run" /\ kind[r] = "txn" /\ result[r] = "ok"
    /\ pc' = [pc EXCEPT ![r] = "commit"]
    /\ UNCHANGED <<log, serverVars, faults, kind, tracker, trackVars, txVars>>

RollbackTransaction(r) ==
    /\ pc[r] = "run" /\ kind[r] = "txn"
    /\ Answered(r, "rolledback")
    /\ UNCHANGED <<log, serverVars, faults, kind, tracker, trackVars>>

\* The state a DDL leaves: its writes applied to the latest one.
WithSchema(o, m) == m.schemas \cup {[id |-> o.id, rev |-> o.rev, base |-> o.base]}
NewDbVer(o, m) == IF Versioned THEN o.rev ELSE m.dbVer

Created(o, m) ==
    [coll |-> o.id, nextId |-> m.nextId + 1, dbVer |-> NewDbVer(o, m),
     schemas |-> WithSchema(o, m), writes |-> {0, o.id}]
Updated(o, m) ==
    [coll |-> m.coll, nextId |-> m.nextId, dbVer |-> NewDbVer(o, m),
     schemas |-> WithSchema(o, m), writes |-> {0, o.id}]
Dropped(o, m) ==
    [coll |-> 0, nextId |-> m.nextId, dbVer |-> m.dbVer,
     schemas |-> {s \in m.schemas : s.id # o.id},
     writes |-> IF m.coll = 0 THEN {o.id} ELSE {0, o.id}]

Applied(o, m) ==
    IF o.op = "create" THEN Created(o, m)
    ELSE IF o.op = "update" THEN Updated(o, m) ELSE Dropped(o, m)

\* A key the statement read was written after the read version.
Conflicts(r) ==
    /\ op[r].op # "none"
    /\ \E i \in rv[r] + 1 .. Tip : log[i].writes \cap {0, op[r].id} # {}

Committed(r) == IF op[r].op = "none" THEN log ELSE Append(log, Applied(op[r], log[Tip]))

\* QuerySession.Commit of a DDL request or of an explicit transaction.  The
\* version key is overwritten when the staged database was changed, and the
\* Tenant is brought up to date once the commit has succeeded.
CommitSession(r) ==
    /\ pc[r] = "commit" /\ result[r] = "ok" /\ ~Conflicts(r)
    /\ log' = Committed(r)
    /\ result' = [result EXCEPT ![r] = "committed"]
    /\ pc' = [pc EXCEPT ![r] = IF staged[r] = NotStaged THEN "done" ELSE "committed"]
    /\ UNCHANGED <<serverVars, faults, kind, tracker, trackVars, rv, used, staged, op>>

\* The runner of a DDL request failed: roll back.
CommitOfError(r) ==
    /\ pc[r] = "commit" /\ result[r] = "error"
    /\ Answered(r, "error")
    /\ UNCHANGED <<log, serverVars, faults, kind, tracker, trackVars>>

\* A conflict: an implicit transaction is retried, an explicit one fails.
CommitConflicts(r) ==
    /\ pc[r] = "commit" /\ result[r] = "ok" /\ Conflicts(r)
    /\ IF kind[r] = "ddl" THEN Restarted(r) ELSE Answered(r, "error")
    /\ UNCHANGED <<log, serverVars, faults, kind, tracker, trackVars>>

\* The outcome of the commit is unknown to the server: answered with the
\* error, and nobody reloads.
CommitUnknown(r) ==
    /\ pc[r] = "commit" /\ result[r] = "ok" /\ ~Conflicts(r)
    /\ faults < MaxFaults
    /\ faults' = faults + 1
    /\ log' \in {log, Committed(r)}
    /\ Answered(r, "error")
    /\ UNCHANGED <<serverVars, kind, tracker, trackVars>>

\* The client has its answer.
Finish(r) ==
    /\ pc[r] = "done"
    /\ pc' = [pc EXCEPT ![r] = "idle"]
    /\ rv' = [rv EXCEPT ![r] = 0]
    /\ start' = [start EXCEPT ![r] = 0]
    /\ end' = [end EXCEPT ![r] = 0]
    /\ rrv' = [rrv EXCEPT ![r] = 0]
    /\ used' = [used EXCEPT ![r] = 0]
    /\ staged' = [staged EXCEPT ![r] = NotStaged]
    /\ op' = [op EXCEPT ![r] = NoOp]
    /\ result' = [result EXCEPT ![r] = "none"]
    /\ kind' = [kind EXCEPT ![r] = "dml"]
    /\ tracker' = [tracker EXCEPT ![r] = DbTracker]
    /\ after' = [after EXCEPT ![r] = "done"]
    /\ UNCHANGED <<log, serverVars, faults>>

\* A server dies with the requests it was handling, and starts again:
\* TenantManager.Reload and NewCacheTracker of every service.
Restart(n) ==
    LET dead == {r \in Reqs : NodeOf[r] = n}
        Reset(f, v) == [r \in Reqs |-> IF r \in dead THEN v ELSE f[r]]
    IN
    /\ faults < MaxFaults
    /\ faults' = faults + 1
    /\ cache' = [cache EXCEPT ![n] = Loaded(Tip)]
    /\ tracked' = [tracked EXCEPT ![n] = [k \in Trackers |-> Tip]]
    /\ lock' = [lock EXCEPT ![n] = [k \in Trackers |-> NoReq]]
    /\ pc' = Reset(pc, "idle")
    /\ rv' = Reset(rv, 0)
    /\ start' = Reset(start, 0)
    /\ end' = Reset(end, 0)
    /\ rrv' = Reset(rrv, 0)
    /\ used' = Reset(used, 0)
    /\ staged' = Reset(staged, NotStaged)
    /\ op' = Reset(op, NoOp)
    /\ result' = Reset(result, "none")
    /\ kind' = Reset(kind, "dml")
    /\ tracker' = Reset(tracker, DbTracker)
    /\ after' = Reset(after, "done")
    /\ UNCHANGED log

-----------------------------------------------------------------------------

\* The steps a server takes by itself once a request has been accepted.
Advance(r) ==
    \/ AssignReadVersion(r)
    \/ GetStartVersion(r)
    \/ Track(r)
    \/ Lock(r)
    \/ ReadVersion(r)
    \/ Reload(r)
    \/ ReloadCommits(r)
    \/ ReadInOwnTxn(r)
    \/ RunOnCache(r)
    \/ StopTracker(r)
    \/ RetryOnChange(r)
    \/ CommitDml(r)
    \/ CommitSession(r)
    \/ CommitOfError(r)
    \/ CommitConflicts(r)

\* What the client decides.
Client(r) ==
    \/ \E k \in AllKinds, t \in Trackers : Begin(r, k, t)
    \/ \E s \in Statements : RunDdl(r, s)
    \/ RunTxnDml(r)
    \/ RequestCommit(r)
    \/ RollbackTransaction(r)
    \/ Finish(r)

Fault(r) ==
    \/ ReloadFails(r)
    \/ ReloadCommitFails(r)
    \/ ConflictDml(r)
    \/ CommitUnknown(r)

Next ==
    \/ \E r \in Reqs : Advance(r) \/ Client(r) \/ Fault(r)
    \/ \E n \in Nodes : Restart(n)

Spec == Init /\ [][Next]_vars

\* Every goroutine that can run does, the runner of a DDL request included;
\* a mutex that is free again and again is got in the end.
Fairness ==
    \A r \in Reqs :
        /\ WF_vars(Advance(r))
        /\ SF_vars(GetStartVersion(r)) /\ SF_vars(Track(r)) /\ SF_vars(Lock(r))
        /\ WF_vars(kind[r] = "ddl" /\ \E s \in Statements : RunDdl(r, s))
FairSpec == Spec /\ Fairness

-----------------------------------------------------------------------------
(* Properties.                                                              *)

Metas == [coll : Nat, nextId : Nat, dbVer : Nat,
          schemas : SUBSET [id : Nat, rev : Nat, base : Nat],
          writes : SUBSET Nat]
Ops == [op : {"none", "create", "update", "drop"}, id : Nat, rev : Nat, base : Nat]
PCs == {"idle", "tracking", "track", "lock", "read", "reload", "reloaded", "run",
        "stop", "stopped", "commit", "committed", "again", "done"}
Results == {"none", "ok", "notfound", "error", "committed", "rolledback"}

Collections == [id : Nat, rev : Nat]
Tenants == [version : Nat, content : Collections, whole : BOOLEAN]

LogTypeOK == log \in Seq(Metas) /\ Len(log) >= 1
ServerTypeOK ==
    /\ cache \in [Nodes -> Tenants]
    /\ tracked \in [Nodes -> [Trackers -> Nat]]
    /\ lock \in [Nodes -> [Trackers -> Reqs \cup {NoReq}]]
ControlTypeOK ==
    /\ pc \in [Reqs -> PCs]
    /\ kind \in [Reqs -> AllKinds]
    /\ tracker \in [Reqs -> Trackers]
    /\ after \in [Reqs -> {"run", "stopped", "done"}]
VersionTypeOK ==
    /\ rv \in [Reqs -> Nat]
    /\ start \in [Reqs -> Nat]
    /\ end \in [Reqs -> Nat]
    /\ rrv \in [Reqs -> Nat]
    /\ used \in [Reqs -> Nat]
StagedTypeOK ==
    /\ staged \in [Reqs -> Collections \cup {NotStaged}]
    /\ op \in [Reqs -> Ops]
    /\ result \in [Reqs -> Results]

\* Every variable has its type.
TypeOK ==
    /\ LogTypeOK /\ ServerTypeOK /\ ControlTypeOK /\ VersionTypeOK /\ StagedTypeOK
    /\ faults \in Nat

\* A Tenant whose last reload did not fail holds exactly the collections the
\* database had at the version the Tenant claims to be at (Tenant.Reload).
CacheIsSnapshot ==
    \A n \in Nodes : cache[n].whole => cache[n].content = Content(log[cache[n].version])

\* No tracker believes the Tenant to be newer than it is, although several
\* trackers reload the one Tenant, each under a lock of its own, and reloads
\* fail between the Tenant's update and the tracker's (stopTracking).
TrackedBehindCache ==
    \A n \in Nodes : \A k \in Trackers :
        tracked[n][k] <= cache[n].version /\ cache[n].version <= Tip

\* A write that commits, or that is refused, has run on collections at least
\* as new as the snapshot its transaction read documents from: a DDL that
\* committed before the snapshot is never overlooked (executeWithRetry, Stop).
DmlSeesItsSnapshotSchema ==
    \A r \in Reqs :
        (kind[r] = "dml" /\ pc[r] = "done") => used[r] >= rv[r] /\ rv[r] > 0

\* When InstantTracking has returned, the Tenant is at least as new as the
\* version it read: what stopTracking's comment guarantees.  The one after a
\* commit reads at least that commit, so a client that was told its DDL is
\* committed is served by its server with the collections it made.
InstantFresh ==
    \A r \in Reqs :
        (/\ kind[r] # "dml"
         /\ pc[r] = "run" \/ (pc[r] = "done" /\ after[r] = "done" /\ result[r] = "committed"))
        => cache[NodeOf[r]].version >= end[r]

\* A request is told that a collection does not exist only when there was a
\* moment, no earlier than its snapshot, when it did not.
NotFoundIsHonest ==
    \A r \in Reqs :
        (pc[r] = "done" /\ result[r] = "notfound") =>
            \E i \in (IF kind[r] = "dml" THEN rv[r] ELSE end[r]) .. Tip : log[i].coll = 0

\* The version of a Tenant never goes back (the retrogression guard of
\* Tenant.Reload), nor does a tracker's, and a commit never rewrites history.
CacheMonotonic ==
    [][/\ \A n \in Nodes : cache'[n].version >= cache[n].version
       /\ \A n \in Nodes : \A k \in Trackers : tracked'[n][k] >= tracked[n][k]
       /\ SubSeq(log', 1, Len(log)) = log]_vars

\* Every stored revision of the live collection was checked for backward
\* compatibility against the revision stored just before it (updateCollection
\* validates against the cached one).
SchemaChain ==
    LET m == log[Tip]
        live == {s \in m.schemas : s.id = m.coll}
    IN  \A s \in live : s.base = Latest({x.rev : x \in {y \in live : y.rev < s.rev}})

\* Every implicit write, DDL and read is answered: the retries of
\* executeWithRetry end once DDLs stop, and no lock is kept by a reload that
\* failed.
Answers ==
    \A r \in Reqs : (kind[r] # "txn" /\ pc[r] # "idle") ~> (pc[r] \in {"done", "idle"})

-----------------------------------------------------------------------------
(* The inductive invariant behind the properties of versions.               *)

Tracking(r) == pc[r] \in {"track", "lock", "read", "reload", "reloaded"}

\* Versions are read from the log, and a Tenant has been loaded from it.
VersionsExist ==
    /\ \A n \in Nodes : cache[n].version \in 1 .. Tip
    /\ \A r \in Reqs : rv[r] <= Tip /\ end[r] <= Tip /\ rrv[r] <= Tip

\* A request in the critical section of stopTracking holds the lock, reloads
\* for a version its tracker has not seen, and reads at least that version.
ReloadInv ==
    \A r \in Reqs :
        /\ pc[r] \in {"read", "reload", "reloaded"} =>
             /\ lock[NodeOf[r]][tracker[r]] = r
             /\ TrackedVersion(r) < end[r]
        /\ pc[r] \in {"reload", "reloaded"} => rrv[r] >= end[r]
        /\ pc[r] = "reloaded" => rrv[r] <= cache[NodeOf[r]].version

\* The version a request started from is one its Tenant has reached, and so
\* is the one a write ran on.
StartInv ==
    \A r \in Reqs :
        /\ start[r] <= cache[NodeOf[r]].version
        /\ (kind[r] = "dml" /\ (Tracking(r) \/ pc[r] \in {"stop", "stopped"}))
             => start[r] <= used[r]

\* Where a write and the other requests can be.
PhaseInv ==
    \A r \in Reqs :
        /\ kind[r] = "dml" =>
             /\ pc[r] \notin {"again", "commit", "committed"}
             /\ Tracking(r) => after[r] = "stopped"
             /\ Tracking(r) \/ pc[r] = "stopped" => end[r] = rv[r] /\ rv[r] > 0
        /\ kind[r] # "dml" =>
             /\ pc[r] \notin {"stop", "stopped"}
             /\ pc[r] # "idle" => after[r] # "stopped"
             /\ pc[r] \in {"run", "commit"} => after[r] = "run"

VersionInv ==
    /\ TypeOK /\ VersionsExist /\ TrackedBehindCache /\ ReloadInv
    /\ StartInv /\ PhaseInv /\ InstantFresh /\ DmlSeesItsSnapshotSchema

=============================================================================
