----------------------------- MODULE KvLayers ------------------------------
(***************************************************************************)
(* The layers of store/kv over FoundationDB, in the order Builder.Build    *)
(* stacks them: row and size counters (stats.go, atomic.go), compression   *)
(* (compression.go), chunks (chunk.go), encoded values (kv_store.go,       *)
(* internal/data.go) and the FoundationDB transaction (fdb.go). One table, *)
(* transactions that overlap, and the table dropped or measured meanwhile. *)
(*                                                                         *)
(* A payload is a sequence of units, so that chunks have to be put together *)
(* again in the right order; its length is what thresholds are compared    *)
(* with.                                                                   *)
(***************************************************************************)
EXTENDS Integers, Sequences, SequencesExt, FiniteSets, FiniteSetsExt, TLC

CONSTANTS
    Txs,          \* transactions that can be open at the same time
    NumKeys,      \* primary keys
    Lengths,      \* lengths of the payloads clients write
    None,         \* no row, no cell, no transaction
    Broken,       \* what an iterator that fails returns
    ChunkSize,    \* chunkSize
    Threshold,    \* minCompressionThreshold
    Compression,  \* the settings of the compression flag servers run with
    Shrinks,      \* rows are replaced by payloads that need no chunks
    MaxWork       \* bound on the transactions begun and the operations done

VARIABLES
    cells,   \* FoundationDB: the value of each key of the table
    seen,    \* what a reader gets for each primary key, kept for the properties
    count,   \* the sum of the shards of the row counter
    size,    \* the sum of the shards of the size counter
    tx,      \* the transactions
    stat,    \* the size on disk GetTableStats has read; None when it does not run
    work,    \* transactions begun and operations done so far
    drift    \* the counters may be off for a known reason

kvVars == <<cells, seen, count, size, tx, stat, work, drift>>

Payload(n) == [i \in 1 .. n |-> <<n, i>>]
Payloads == {Payload(n) : n \in Lengths}
MaxChunks == (Max(Lengths) + ChunkSize - 1) \div ChunkSize

(***************************************************************************)
(* FoundationDB keys: <<k, 0>> is the key of a row, <<k, n>> the key with  *)
(* the chunk identifier and chunk number n. All of them have the prefix k  *)
(* and they are ordered like their tuples.                                 *)
(***************************************************************************)
Keys == 1 .. NumKeys
FdbKeys == Keys \X (0 .. MaxChunks - 1)
Prefix(k) == {k} \X (0 .. MaxChunks - 1)
InOrder == [i \in 1 .. NumKeys * MaxChunks |-> <<(i - 1) \div MaxChunks + 1, (i - 1) % MaxChunks>>]

(***************************************************************************)
(* TableData: the raw data, RawSize, TotalChunks (0 when not set) and the  *)
(* compression flag.                                                       *)
(***************************************************************************)
TableData(raw) == [raw |-> raw, rawSize |-> 0, total |-> 0, zip |-> FALSE]

CloneWithAttributesOnly(data, raw) == [data EXCEPT !.raw = raw]

NoTx == [pc |-> None, zip |-> FALSE, snap |-> <<>>, buf |-> <<>>, reads |-> {}, dirty |-> {},
         count |-> 0, size |-> 0, ops |-> <<>>]

KvInit ==
    /\ cells = [p \in FdbKeys |-> None]
    /\ seen = [k \in Keys |-> None]
    /\ count = 0 /\ size = 0
    /\ tx = [t \in Txs |-> NoTx]
    /\ stat = None
    /\ work = 0
    /\ drift = FALSE

-----------------------------------------------------------------------------
(***************************************************************************)
(* The FoundationDB transaction. Reads see its own writes. Insert reads    *)
(* the key it writes and so conflicts with a later writer of it; Replace   *)
(* and Delete do not read.                                                 *)
(***************************************************************************)
View(x) == [p \in FdbKeys |-> IF p \in DOMAIN x.buf THEN x.buf[p] ELSE x.snap[p]]

FdbSet(x, p, data) == [x EXCEPT !.buf = (p :> data) @@ @]

FdbDelete(x, k) == [x EXCEPT !.buf = [p \in Prefix(k) |-> None] @@ @]

-----------------------------------------------------------------------------
(***************************************************************************)
(* Chunks. Chunk c holds the units from c * ChunkSize on; the first one    *)
(* has the attributes, the others only their data.                         *)
(***************************************************************************)

isChunkingNeeded(data) == Len(data.raw) > ChunkSize

SetTotalChunks(data) == [data EXCEPT !.total = (Len(data.raw) + ChunkSize - 1) \div ChunkSize]

Chunk(data, c) ==
    LET raw == SubSeq(data.raw, c * ChunkSize + 1, Min({(c + 1) * ChunkSize, Len(data.raw)}))
    IN  IF c = 0 THEN CloneWithAttributesOnly(data, raw) ELSE TableData(raw)

executeChunks(x, k, data, from) ==
    [x EXCEPT !.buf = [p \in {k} \X (from .. data.total - 1) |-> Chunk(data, p[2])] @@ @]

ChunkInsert(x, k, data) ==
    IF isChunkingNeeded(data) THEN executeChunks(x, k, SetTotalChunks(data), 0)
    ELSE FdbSet(x, <<k, 0>>, data)

\* Mutant: the cells of the row that is replaced are left.
ChunkReplaceNoCleanup(x, k, data) ==
    IF isChunkingNeeded(data) THEN executeChunks(x, k, SetTotalChunks(data), 0)
    ELSE FdbSet(x, <<k, 0>>, data)

ChunkReplace(x, k, data) ==
    IF isChunkingNeeded(data) THEN executeChunks(FdbDelete(x, k), k, SetTotalChunks(data), 0)
    ELSE FdbSet(x, <<k, 0>>, data)

(***************************************************************************)
(* ChunkIterator over the cells of a range in key order: a first chunk is  *)
(* followed by the others, each with the number expected, and their data   *)
(* are merged; anything else ends the iteration with an error.             *)
(***************************************************************************)
ChunkIterator(view, range) ==
    LET present == SelectSeq(InOrder, LAMBDA p : p \in range /\ view[p] # None)
        n == Len(present)
        Chunks(i) == Max({1, view[present[i]].total})
        validChunkKeys(i) == \A c \in 1 .. Chunks(i) - 1 : i + c <= n /\ present[i + c][2] = c
        Merged(i) == CloneWithAttributesOnly(view[present[i]],
                         FlattenSeq([c \in 1 .. Chunks(i) |-> view[present[i + c - 1]].raw]))
        From[i \in 1 .. 2 * n + 1] ==
            IF i > n THEN <<>>
            ELSE IF ~validChunkKeys(i) THEN <<Broken>>
            ELSE <<[key |-> present[i], data |-> Merged(i)]>> \o From[i + Chunks(i)]
    IN  From[1]

-----------------------------------------------------------------------------
(***************************************************************************)
(* Compression halves a payload. What was compressed can be restored only  *)
(* from all of it, in order.                                               *)
(***************************************************************************)
Zstd(raw) == [i \in 1 .. (Len(raw) + 1) \div 2 |-> <<raw, i>>]

compress(x, data) ==
    IF x.zip /\ Len(data.raw) > Threshold
    THEN [CloneWithAttributesOnly(data, Zstd(data.raw)) EXCEPT !.zip = TRUE]
    ELSE data

Decompress(data) ==
    IF ~data.zip THEN data.raw
    ELSE IF data.raw = Zstd(data.raw[1][1]) THEN data.raw[1][1] ELSE Broken

(***************************************************************************)
(* What a reader gets for a range: the rows, each with its key and its     *)
(* payload, or an error.                                                   *)
(***************************************************************************)
ReadRange(view, range) ==
    LET rows == ChunkIterator(view, range)
    IN  [i \in DOMAIN rows |->
            IF rows[i] = Broken THEN Broken ELSE <<rows[i].key, Decompress(rows[i].data)>>]

Read(view, k) == ReadRange(view, Prefix(k))

\* None when there is no row, Broken when the reader gets an error or several rows.
RowRead(view, k) ==
    LET read == Read(view, k)
    IN  IF read = <<>> THEN None
        ELSE IF Len(read) = 1 /\ read[1] # Broken THEN read[1][2] ELSE Broken

-----------------------------------------------------------------------------
(***************************************************************************)
(* Counters. The size of the row before is taken from the context when the *)
(* caller knows it, otherwise from a snapshot read of the row's first      *)
(* cell, which conflicts with nobody.                                      *)
(***************************************************************************)
AtomicAddTx(x, rowsMore, sizeMore) == [x EXCEPT !.count = @ + rowsMore, !.size = @ + sizeMore]

GetMetadata(x, k) == View(x)[<<k, 0>>]

Sized(data) == [data EXCEPT !.rawSize = Len(data.raw)]

Note(x, op, k, data) == [x EXCEPT !.ops = Append(@, [op |-> op, key |-> k, data |-> data])]

(***************************************************************************)
(* An insert that finds a row is refused; the transaction goes on.         *)
(***************************************************************************)
Insert(x, k, raw) ==
    LET read == [x EXCEPT !.reads = @ \cup {<<k, 0>>}]
        wrote == ChunkInsert(read, k, compress(x, Sized(TableData(raw))))
    IN  IF GetMetadata(x, k) # None THEN read
        ELSE Note(AtomicAddTx(wrote, 1, Len(raw)), "insert", k, raw)

Replace(x, k, raw) ==
    LET prev == GetMetadata(x, k)
        wrote == ChunkReplace(x, k, compress(x, Sized(TableData(raw))))
    IN  Note(IF prev = None THEN AtomicAddTx(wrote, 1, Len(raw))
             ELSE AtomicAddTx(wrote, 0, Len(raw) - prev.rawSize), "replace", k, raw)

(***************************************************************************)
(* An update reads the row, so that it knows its size, and replaces it.    *)
(***************************************************************************)
Update(x, k, raw) ==
    LET row == Read(View(x), k)
        read == [x EXCEPT !.reads = @ \cup Prefix(k)]
        wrote == ChunkReplace(read, k, compress(x, Sized(TableData(raw))))
    IN  IF row = <<>> THEN read
        ELSE Note(AtomicAddTx(wrote, 0, Len(raw) - Len(row[1][2])), "update", k, raw)

(***************************************************************************)
(* A delete without a row still clears the prefix.                         *)
(***************************************************************************)
Delete(x, k) ==
    LET prev == GetMetadata(x, k)
        gone == FdbDelete(x, k)
    IN  Note(IF prev = None THEN gone ELSE AtomicAddTx(gone, -1, -prev.rawSize), "delete", k, None)

-----------------------------------------------------------------------------
BeginTx(t) ==
    /\ tx[t].pc = None
    /\ work < MaxWork
    /\ work' = work + 1
    /\ \E zip \in Compression :
        tx' = [tx EXCEPT ![t] = [NoTx EXCEPT !.pc = "open", !.zip = zip, !.snap = cells]]
    /\ UNCHANGED <<cells, seen, count, size, stat, drift>>

(***************************************************************************)
(* A payload that needs no chunks may replace a row only when Shrinks.     *)
(***************************************************************************)
Replaceable(x, raw) == Shrinks \/ isChunkingNeeded(compress(x, TableData(raw)))

Do(t) ==
    /\ tx[t].pc = "open"
    /\ work < MaxWork
    /\ work' = work + 1
    /\ \E k \in Keys :
        \/ \E raw \in Payloads : tx' = [tx EXCEPT ![t] = Insert(@, k, raw)]
        \/ \E raw \in Payloads :
            /\ Replaceable(tx[t], raw)
            /\ tx' = [tx EXCEPT ![t] = Replace(@, k, raw)]
        \/ \E raw \in Payloads :
            /\ Replaceable(tx[t], raw)
            /\ tx' = [tx EXCEPT ![t] = Update(@, k, raw)]
        \/ tx' = [tx EXCEPT ![t] = Delete(@, k)]
    /\ UNCHANGED <<cells, seen, count, size, stat, drift>>

\* Mutant: the transaction is not checked against the ones that committed before it.
ConflictNever(x) == FALSE

Conflict(x) == x.buf # <<>> /\ x.dirty \cap x.reads # {}

(***************************************************************************)
(* A commit applies the buffer and adds to the counters. The counters are  *)
(* in doubt when it wrote a key that another transaction wrote since its   *)
(* snapshot, whose size it did not see.                                    *)
(***************************************************************************)
Commit(t) ==
    LET x == tx[t]
        others == {u \in Txs \ {t} : tx[u].pc = "open"}
    IN  /\ x.pc = "open"
        /\ ~Conflict(x)
        /\ cells' = x.buf @@ cells
        /\ seen' = [k \in Keys |-> RowRead(cells', k)]
        /\ count' = count + x.count
        /\ size' = size + x.size
        /\ drift' = (drift \/ DOMAIN x.buf \cap x.dirty # {})
        /\ tx' = [u \in Txs |->
                    IF u = t THEN NoTx
                    ELSE IF u \in others THEN [tx[u] EXCEPT !.dirty = @ \cup DOMAIN x.buf]
                    ELSE tx[u]]
        /\ UNCHANGED <<stat, work>>

(***************************************************************************)
(* The store refuses the commit, the commit is lost or the caller rolls    *)
(* back: nothing of the buffer remains.                                    *)
(***************************************************************************)
Rollback(t) ==
    /\ tx[t].pc = "open"
    /\ tx' = [tx EXCEPT ![t] = NoTx]
    /\ UNCHANGED <<cells, seen, count, size, stat, work, drift>>

(***************************************************************************)
(* DropTable clears the table and its counters in a transaction that reads *)
(* nothing.                                                                *)
(***************************************************************************)
DropTable ==
    /\ \E p \in FdbKeys : cells[p] # None
    /\ cells' = [p \in FdbKeys |-> None]
    /\ seen' = [k \in Keys |-> RowRead(cells', k)]
    /\ count' = 0 /\ size' = 0
    /\ drift' = FALSE
    /\ tx' = [u \in Txs |-> IF tx[u].pc = None THEN NoTx ELSE [tx[u] EXCEPT !.dirty = FdbKeys]]
    /\ UNCHANGED <<stat, work>>

(***************************************************************************)
(* GetTableStats reads the size on disk in one transaction and the         *)
(* counters in another. When both are zero it takes the table for one that *)
(* is older than the counters and adds the size on disk.                   *)
(***************************************************************************)
OnDiskSize == MapThenSumSet(
    LAMBDA p : IF cells[p] = None THEN 0 ELSE Len(cells[p].raw), FdbKeys)

TableSize ==
    /\ stat = None
    /\ stat' = OnDiskSize
    /\ UNCHANGED <<cells, seen, count, size, tx, work, drift>>

GetTableStats ==
    /\ stat # None
    /\ stat' = None
    /\ IF count = 0 /\ size = 0
       THEN size' = size + stat /\ drift' = (drift \/ stat > 0)
       ELSE UNCHANGED <<size, drift>>
    /\ UNCHANGED <<cells, seen, count, tx, work>>

KvNext ==
    \/ \E t \in Txs : BeginTx(t) \/ Do(t) \/ Commit(t) \/ Rollback(t)
    \/ DropTable
    \/ TableSize
    \/ GetTableStats

KvSpec == KvInit /\ [][KvNext]_kvVars

-----------------------------------------------------------------------------
(***************************************************************************)
(* Type invariant.                                                         *)
(***************************************************************************)
KvTypeOK ==
    /\ DOMAIN cells = FdbKeys
    /\ \A p \in FdbKeys : cells[p] # None => cells[p].raw # <<>> /\ Len(cells[p].raw) <= ChunkSize
    /\ count \in Int /\ size \in Int
    /\ stat = None \/ stat \in Nat
    /\ work \in 0 .. MaxWork
    /\ drift \in BOOLEAN
    /\ \A t \in Txs : DOMAIN tx[t].buf \subseteq FdbKeys /\ tx[t].reads \subseteq FdbKeys

(***************************************************************************)
(* The layers implement the store their callers see: reading a key gives   *)
(* the payload last written to it, whatever chunks and compression it was  *)
(* stored with, and the operations of a transaction take effect together   *)
(* at its commit, an insert finding no row and an update finding one.      *)
(***************************************************************************)
Store == INSTANCE KvStore WITH
    rows <- seen,
    open <- [t \in Txs |-> IF tx[t].pc = None THEN None ELSE tx[t].ops]

StoreSpec == Store!Spec

(***************************************************************************)
(* A scan of the table returns every row once, in the order of the keys    *)
(* (ReadRange through DecompressIterator and ChunkIterator).               *)
(***************************************************************************)
ScanIsComplete ==
    LET stored == SelectSeq([k \in Keys |-> k], LAMBDA k : seen[k] # None)
    IN  ReadRange(cells, FdbKeys) =
            [i \in DOMAIN stored |-> <<<<stored[i], 0>>, seen[stored[i]]>>]

(***************************************************************************)
(* The counters are exact: the number of rows and the sum of their sizes,  *)
(* unless two transactions that overlapped wrote the same row or the table *)
(* was emptied between the two reads of GetTableStats.                     *)
(***************************************************************************)
StatsExact ==
    drift \/ /\ count = Cardinality({k \in Keys : seen[k] # None})
             /\ size = MapThenSumSet(LAMBDA k : IF seen[k] = None THEN 0 ELSE Len(seen[k]), Keys)

=============================================================================
