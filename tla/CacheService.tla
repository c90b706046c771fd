---------------------------- MODULE CacheService ----------------------------
(***************************************************************************)
(* The cache service of one project: caches named in the project's        *)
(* metadata (a transaction of the store each) and entries kept in Redis    *)
(* (one command each), which share nothing but the name of the cache.      *)
(* server/services/v1/cache, store/cache/cache.go.                         *)
(***************************************************************************)
EXTENDS Naturals, FiniteSets

CONSTANTS
    CacheNames,   \* the caches
    CKeys,        \* the keys of entries: 1..n, in the order Redis scans them
    CVals,        \* the values of entries
    CReqs,        \* the requests that take more than one step
    MaxScan,      \* cache.max_scan
    RedisCount,   \* the COUNT of a SCAN that gives none
    Counts,       \* the counts a Keys request asks for
    MaxCOps       \* bound: single-command requests and long requests started

VARIABLES
    caches,   \* the committed CachesMetadata of the project
    ver,      \* how often it was written
    rdb,      \* the entry of a key of a cache, or none
    creq,     \* what a long request is doing
    cops      \* requests so far

cvars == <<caches, ver, rdb, creq, cops>>

None == [val |-> "none", ttl |-> FALSE]

Entry == [val : CVals, ttl : BOOLEAN]

Idle == [op |-> "idle"]

CInit ==
    /\ caches = {}
    /\ ver = 0
    /\ rdb = [c \in CacheNames |-> [k \in CKeys |-> None]]
    /\ creq = [r \in CReqs |-> Idle]
    /\ cops = 0

Stored(c) == {k \in CKeys : rdb[c][k] # None}

Begun == cops < MaxCOps /\ cops' = cops + 1

-----------------------------------------------------------------------------
(***************************************************************************)
(* What the long requests remember of what others do to the entries.       *)
(***************************************************************************)

\* A DeleteCache no longer answers for an entry set after it listed the keys;
\* a Keys no longer answers for one removed since it began.
WhenSet(q, c, k) ==
    IF q.op \in {"delete", "commit"} /\ q.cache = c THEN [q EXCEPT !.owed = @ \ {k}] ELSE q

WhenGone(q, c, k) ==
    IF q.op = "keys" /\ q.cache = c THEN [q EXCEPT !.owed = @ \ {k}] ELSE q

Put(c, k, e) ==
    /\ rdb' = [rdb EXCEPT ![c][k] = e]
    /\ creq' = [r \in CReqs |-> WhenSet(creq[r], c, k)]

RemoveEntries(c, k) ==
    /\ rdb' = [rdb EXCEPT ![c][k] = None]
    /\ creq' = [r \in CReqs |-> WhenGone(creq[r], c, k)]

-----------------------------------------------------------------------------
(***************************************************************************)
(* Entries. Redis runs a command at once; no request asks whether the cache *)
(* is one of the project's.                                                *)
(***************************************************************************)

\* SetArgs: with XX only over an entry, with NX only where there is none.
MaySet(c, k, mode) ==
    CASE mode = "XX" -> k \in Stored(c)
      [] mode = "NX" -> k \notin Stored(c)
      [] OTHER -> TRUE

Set(c, k, v, mode, ttl) ==
    /\ Begun
    /\ IF MaySet(c, k, mode) THEN Put(c, k, [val |-> v, ttl |-> ttl])
       ELSE UNCHANGED <<rdb, creq>>
    /\ UNCHANGED <<caches, ver>>

\* GETSET keeps no time to live.
GetSet(c, k, v) ==
    /\ Begun
    /\ Put(c, k, [val |-> v, ttl |-> FALSE])
    /\ UNCHANGED <<caches, ver>>

Del(c, k) ==
    /\ Begun
    /\ k \in Stored(c)
    /\ RemoveEntries(c, k)
    /\ UNCHANGED <<caches, ver>>

Expire(c, k) ==
    /\ k \in Stored(c) /\ rdb[c][k].ttl
    /\ RemoveEntries(c, k)
    /\ UNCHANGED <<caches, ver, cops>>

-----------------------------------------------------------------------------
(***************************************************************************)
(* Keys: pages of a scan until the cursor is zero again.                   *)
(***************************************************************************)

KeysStart(r, c, n) ==
    /\ creq[r] = Idle /\ Begun
    /\ creq' = [creq EXCEPT ![r] = [op |-> "keys", cache |-> c, count |-> n,
                                    cursor |-> 0, sent |-> {}, owed |-> Stored(c)]]
    /\ UNCHANGED <<caches, ver, rdb>>

\* The slots one SCAN visits: at most max_scan of them, Redis's own count for zero.
PageOf(q) ==
    LET n == IF q.count > MaxScan THEN MaxScan ELSE q.count
    IN  {k \in CKeys : q.cursor < k /\ k <= q.cursor + (IF n = 0 THEN RedisCount ELSE n)}

\* The page of the last slots answers with cursor zero.
Cursor(q) ==
    IF Cardinality(CKeys) \in PageOf(q) THEN 0
    ELSE CHOOSE k \in PageOf(q) : \A j \in PageOf(q) : j <= k

\* Mutant: an empty page is taken for the end of the scan.
ScanEndsAtEmpty(q, found) == Cursor(q) = 0 \/ found = {}

ScanEnds(q, found) == Cursor(q) = 0

ScanPage(r) ==
    /\ creq[r].op = "keys"
    /\ LET q == creq[r]
           found == PageOf(q) \cap Stored(q.cache)
       IN  creq' = [creq EXCEPT ![r] = [q EXCEPT !.sent = @ \cup found,
                        !.cursor = Cursor(q),
                        !.op = IF ScanEnds(q, found) THEN "keysdone" ELSE "keys"]]
    /\ UNCHANGED <<caches, ver, rdb, cops>>

\* Scan drops an error of Redis: no keys and cursor zero end the request as if
\* everything had been sent.
ScanFails(r) ==
    /\ creq[r].op = "keys"
    /\ creq' = [creq EXCEPT ![r].op = "keysdone", ![r].owed = {}]
    /\ UNCHANGED <<caches, ver, rdb, cops>>

-----------------------------------------------------------------------------
(***************************************************************************)
(* Caches: TxExecute starts a transaction, runs the runner, rolls back on   *)
(* an error and commits otherwise. The metadata is read when the runner     *)
(* reaches it.                                                             *)
(***************************************************************************)

CreateStart(r, c) ==
    /\ creq[r] = Idle /\ Begun
    /\ IF c \in caches THEN UNCHANGED creq  \* NewCacheExistsErr: rolled back
       ELSE creq' = [creq EXCEPT ![r] = [op |-> "commit", cache |-> c, ver |-> ver,
                                         to |-> caches \cup {c}, owed |-> {}]]
    /\ UNCHANGED <<caches, ver, rdb>>

KeysOf(c) == Stored(c)

DeleteStart(r, c) ==
    /\ creq[r] = Idle /\ Begun
    /\ creq' = [creq EXCEPT ![r] = [op |-> "delete", cache |-> c,
                                    left |-> KeysOf(c), owed |-> Stored(c)]]
    /\ UNCHANGED <<caches, ver, rdb>>

\* Entries are deleted one by one; one that fails is logged and skipped.
DeleteKey(r, k) ==
    /\ creq[r].op = "delete" /\ k \in creq[r].left
    /\ LET q == [creq[r] EXCEPT !.left = @ \ {k}]
           c == q.cache
       IN  \/ /\ rdb' = [rdb EXCEPT ![c][k] = None]
              /\ creq' = [s \in CReqs |-> IF s = r THEN q ELSE WhenGone(creq[s], c, k)]
           \/ /\ creq' = [creq EXCEPT ![r] = [q EXCEPT !.owed = @ \ {k}]]
              /\ UNCHANGED rdb
    /\ UNCHANGED <<caches, ver, cops>>

DeleteMeta(r) ==
    /\ creq[r].op = "delete" /\ creq[r].left = {}
    /\ LET c == creq[r].cache
       IN  creq' = [creq EXCEPT ![r] =
                    IF c \notin caches THEN Idle  \* NewCacheNotFoundErr
                    ELSE [op |-> "commit", cache |-> c, ver |-> ver,
                          to |-> caches \ {c}, owed |-> creq[r].owed]]
    /\ UNCHANGED <<caches, ver, rdb, cops>>

\* The commit, or its failure: always when the metadata has changed since.
CommitCache(r) ==
    /\ creq[r].op = "commit"
    /\ \/ /\ creq[r].ver = ver
          /\ caches' = creq[r].to /\ ver' = ver + 1
       \/ UNCHANGED <<caches, ver>>
    /\ creq' = [creq EXCEPT ![r] = Idle]
    /\ UNCHANGED <<rdb, cops>>

KeysEnd(r) ==
    /\ creq[r].op = "keysdone"
    /\ creq' = [creq EXCEPT ![r] = Idle]
    /\ UNCHANGED <<caches, ver, rdb, cops>>

CNext ==
    \/ \E c \in CacheNames, k \in CKeys, v \in CVals :
        GetSet(c, k, v) \/ \E mode \in {"", "NX", "XX"}, ttl \in BOOLEAN : Set(c, k, v, mode, ttl)
    \/ \E c \in CacheNames, k \in CKeys : Del(c, k) \/ Expire(c, k)
    \/ \E r \in CReqs, c \in CacheNames :
        CreateStart(r, c) \/ DeleteStart(r, c) \/ \E n \in Counts : KeysStart(r, c, n)
    \/ \E r \in CReqs : ScanPage(r) \/ ScanFails(r) \/ KeysEnd(r) \/ DeleteMeta(r) \/ CommitCache(r)
    \/ \E r \in CReqs, k \in CKeys : DeleteKey(r, k)

-----------------------------------------------------------------------------
CTypeOK ==
    /\ caches \subseteq CacheNames
    /\ ver \in Nat /\ cops \in 0..MaxCOps
    /\ \A c \in CacheNames, k \in CKeys : rdb[c][k] # None => rdb[c][k] \in Entry
    /\ \A r \in CReqs : creq[r].op \in {"idle", "keys", "keysdone", "delete", "commit"}

(***************************************************************************)
(* A Keys request none of whose SCANs failed has sent every key that was   *)
(* there the whole time when it ends, though pages of the scan may be empty *)
(* and entries come and go between them (KeysRunner.Run).                  *)
(***************************************************************************)
ScanSendsAll == \A r \in CReqs : creq[r].op = "keysdone" => creq[r].owed \subseteq creq[r].sent

(***************************************************************************)
(* When DeleteCache is about to commit, no entry that was in the cache when *)
(* it listed the keys is left, but those it failed to delete and those set  *)
(* again meanwhile (DeleteCacheRunner.Run).                                *)
(***************************************************************************)
DeletedCacheEmpty ==
    \A r \in CReqs : creq[r].op = "commit" => creq[r].owed \cap Stored(creq[r].cache) = {}
=============================================================================
