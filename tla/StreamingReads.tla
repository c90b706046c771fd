-------------------------- MODULE StreamingReads --------------------------
(***************************************************************************)
(* A read that streams the rows of a table (StreamingQueryRunner): it      *)
(* scans from a key, looks up keys, or follows a secondary index, in one   *)
(* transaction after another, because a transaction ends after some        *)
(* seconds wherever the read is (ReadOnly). In an explicit transaction it  *)
(* fails instead (Run). Other clients write meanwhile, and each            *)
(* transaction reads the table as it was when it began.                    *)
(***************************************************************************)
EXTENDS Integers, Sequences, SequencesExt, FiniteSets

CONSTANTS
    ReadKeys,     \* the primary keys, 1..n
    ReadRequests, \* [kind, match, keys, reverse, from, skip, limit, json, explicit]
    JsonLimit,    \* defaultReadLimit, of a read that asks for one JSON array
    MaxRestarts,  \* bound: transactions that grow too old
    MaxWrites     \* bound: writes by others

VARIABLES
    table,    \* the keys of the rows there are
    req,      \* the request
    scan,     \* the scan: [from, reverse, whole], as ReadOnly adjusts it
    rows,     \* the rows the iterator has yet to return
    cur,      \* the iterate call: [n, skip, last, buf]
    phase,    \* "idle", "begin", "rows", "end", "failed"
    sent,     \* the responses, sequences of keys
    restarts, \* transactions that grew too old
    blind,    \* whether one of them had returned no row by then
    kept,     \* rows that were there all the time since the request
    snap,     \* the table as the transaction sees it
    writes    \* writes by others so far

srvars == <<table, req, scan, rows, cur, phase, sent, restarts, blind, kept, snap, writes>>

NoRead == [kind |-> "none", match |-> {}, keys |-> <<>>, reverse |-> FALSE, from |-> 0,
          skip |-> 0, limit |-> 0, json |-> FALSE, explicit |-> FALSE]
Fresh == [n |-> 0, skip |-> 0, last |-> 0, buf |-> <<>>]

SrInit ==
    /\ table \in {t \in SUBSET ReadKeys : Cardinality(t) >= Cardinality(ReadKeys) - 1}
    /\ req = NoRead /\ scan = [from |-> 0, reverse |-> FALSE, whole |-> FALSE]
    /\ rows = <<>> /\ cur = Fresh /\ phase = "idle" /\ sent = <<>> /\ restarts = 0 /\ blind = FALSE
    /\ kept = {} /\ snap = {} /\ writes = 0

-----------------------------------------------------------------------------
(* Iterators (row_reader.go, secondary_index_reader.go). *)

Up(s) == SetToSortSeq(s, LAMBDA x, y : x < y)
Down(s) == SetToSortSeq(s, LAMBDA x, y : x > y)
Directed(s, reverse) == IF reverse THEN Down(s) ELSE Up(s)

\* ScanIterator from a key to the end of the table, the key included, or the
\* whole table. A secondary index orders rows by its field: here, backwards.
IteratorRows(r, sc, t) ==
    CASE r.kind = "secondary" -> Down(t \cap r.match)
      [] r.kind # "secondary" /\ sc.whole -> Directed({k \in t : k >= sc.from}, sc.reverse)
      [] OTHER -> SelectSeq(r.keys, LAMBDA k : k \in t)

\* Whether the rows that come out of the iterator pass a filter first.
Filtered(r, sc) == r.kind = "secondary" \/ sc.whole

\* The limit of one iterate call, 0 for none: a read that skips rows and has
\* no limit is limited to the rows it skips.
Limit(r) == (IF r.json /\ r.limit = 0 THEN JsonLimit ELSE r.limit) + r.skip

-----------------------------------------------------------------------------
(* The read. *)

AskRead(r) ==
    /\ phase = "idle"
    /\ req' = r /\ phase' = "begin" /\ kept' = table
    /\ scan' = [from |-> r.from, reverse |-> r.reverse, whole |-> r.kind = "table"]
    /\ UNCHANGED <<table, rows, cur, sent, restarts, blind, snap, writes>>

\* StartTx and the iterator of the plan; iterate starts over with its limit
\* and its skip.
StartTx ==
    /\ phase = "begin"
    /\ phase' = "rows" /\ snap' = table
    /\ rows' = IteratorRows(req, scan, table)
    /\ cur' = [Fresh EXCEPT !.skip = req.skip]
    /\ UNCHANGED <<table, req, scan, sent, restarts, blind, kept, writes>>

AtLimit == Limit(req) # 0 /\ cur.n >= Limit(req)

\* One turn of the loop of iterate, with the rows that the filter drops.
NextRow ==
    /\ phase = "rows" /\ ~AtLimit /\ rows # <<>>
    /\ LET k == Head(rows)
           drop == Filtered(req, scan) /\ k \notin req.match
           skip == ~drop /\ cur.skip > 0
           give == ~drop /\ ~skip
       IN  /\ rows' = Tail(rows)
           /\ cur' = [n |-> cur.n + (IF drop THEN 0 ELSE 1), skip |-> cur.skip - (IF skip THEN 1 ELSE 0),
                      last |-> k, buf |-> IF give /\ req.json THEN Append(cur.buf, k) ELSE cur.buf]
           /\ sent' = IF give /\ ~req.json THEN Append(sent, <<k>>) ELSE sent
    /\ UNCHANGED <<table, req, scan, phase, restarts, blind, kept, snap, writes>>

\* What iterate sends at its end: one array, in a JSON read.
Flushed == IF req.json THEN Append(sent, cur.buf) ELSE sent

EndRead ==
    /\ phase = "rows" /\ (AtLimit \/ rows = <<>>)
    /\ phase' = "end" /\ sent' = Flushed
    /\ UNCHANGED <<table, req, scan, rows, cur, restarts, blind, kept, snap, writes>>

\* The scan after a transaction that grew too old: from the last row on, and
\* a scan even when the plan was a list of keys. With no last row there is no
\* key to begin at, and the scan is of the whole table.
Restart(sc, r) == [from |-> cur.last, reverse |-> sc.reverse, whole |-> TRUE]

\* Mutant: an iterator that fails is taken for one that is exhausted.
InterruptedNever(explicit) == "end"

\* What follows when the iterator reports ErrTransactionMaxDurationReached.
Interrupted(explicit) == IF explicit THEN "failed" ELSE "begin"

TxTooOld ==
    /\ phase = "rows" /\ ~AtLimit /\ rows # <<>> /\ restarts < MaxRestarts
    /\ restarts' = restarts + 1 /\ sent' = Flushed /\ blind' = (blind \/ cur.last = 0)
    /\ phase' = Interrupted(req.explicit)
    /\ scan' = IF req.explicit THEN scan ELSE Restart(scan, req)
    /\ UNCHANGED <<table, req, rows, cur, kept, snap, writes>>

\* Another client inserts or deletes a row.
WriteRow(k) ==
    /\ phase \in {"begin", "rows"} /\ writes < MaxWrites
    /\ table' = IF k \in table THEN table \ {k} ELSE table \cup {k}
    /\ kept' = kept \ {k} /\ writes' = writes + 1
    /\ UNCHANGED <<req, scan, rows, cur, phase, sent, restarts, blind, snap>>

SrNext ==
    \/ \E r \in ReadRequests : AskRead(r)
    \/ StartTx \/ NextRow \/ EndRead \/ TxTooOld
    \/ \E k \in ReadKeys : WriteRow(k)

-----------------------------------------------------------------------------

SrTypeOK ==
    /\ table \subseteq ReadKeys /\ kept \subseteq ReadKeys /\ snap \subseteq ReadKeys
    /\ phase \in {"idle", "begin", "rows", "end", "failed"}
    /\ \A i \in 1..Len(sent) : ToSet(sent[i]) \subseteq ReadKeys
    /\ restarts \in 0..MaxRestarts /\ writes \in 0..MaxWrites

AllSent == FoldLeft(LAMBDA acc, q : acc \o q, <<>>, sent)
ForwardScan == req.kind = "table" /\ ~req.reverse

(***************************************************************************)
(* A forward scan that asks for all the rows gives, by its end, each row   *)
(* from its offset on that matches and was there all along, however often  *)
(* its transaction had to be started again.                                *)
(***************************************************************************)
NoRowLost ==
    phase = "end" /\ ForwardScan /\ req.skip = 0 /\ Limit(req) = 0 =>
        {k \in kept \cap req.match : k >= req.from} \subseteq ToSet(AllSent)

(***************************************************************************)
(* A forward scan gives rows in the order of their keys, and the only row  *)
(* it gives twice is the last one before its transaction was started       *)
(* again: no more repetitions than restarts. A transaction that returned   *)
(* no row is the exception: the scan then has no key to go on from.        *)
(***************************************************************************)
RepeatsOnlyAtRestart ==
    ForwardScan /\ req.skip = 0 /\ ~blind =>
        /\ \A i, j \in 1..Len(AllSent) : i < j => AllSent[i] <= AllSent[j]
        /\ Len(AllSent) - Cardinality(ToSet(AllSent)) <= restarts

\* The answer of a read in one transaction: the rows that match in its
\* snapshot, without the first "skip" and no more than "limit".
Answer ==
    LET all == SelectSeq(IteratorRows(req, [from |-> req.from, reverse |-> req.reverse, whole |-> req.kind = "table"], snap),
                         LAMBDA k : req.kind = "keys" \/ k \in req.match)
        most == IF req.limit # 0 THEN req.limit ELSE IF req.json THEN JsonLimit ELSE Len(all)
    IN  SubSeq(all, req.skip + 1, IF req.skip + most > Len(all) THEN Len(all) ELSE req.skip + most)

(***************************************************************************)
(* A read whose transaction lasted gives what its skip and its limit leave *)
(* of the rows that match, in the order of the plan, when it has a limit   *)
(* or skips none.                                                          *)
(***************************************************************************)
SkipAndLimit ==
    phase = "end" /\ restarts = 0 /\ (req.skip = 0 \/ req.limit # 0 \/ req.json) => AllSent = Answer

=============================================================================
