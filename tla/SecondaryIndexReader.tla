------------------------ MODULE SecondaryIndexReader ------------------------
(***************************************************************************)
(* Reads through the secondary index: SecondaryIndexReaderImpl walks the   *)
(* rows of a range in order, fetches the document of each, and passes it   *)
(* to the FilterIterator of the query.                                     *)
(***************************************************************************)
EXTENDS SecondaryIndex, SequencesExt

\* The rows of a range in key order: by value, then by primary key.
ScanIterator(lo, hi) ==
    SetToSortSeq({r \in rows : r[2] \in lo .. hi},
                 LAMBDA r, s : r[2] < s[2] \/ (r[2] = s[2] /\ r[1] < s[1]))

\* Next ends the iteration at a row whose document is not there.
Fetched(scan) ==
    LET missing == {i \in DOMAIN scan : docs[scan[i][1]] = None}
    IN  IF missing = {} THEN scan
        ELSE SubSeq(scan, 1, (CHOOSE i \in missing : \A j \in missing : i <= j) - 1)

\* The documents returned, once the filter has seen them.
IndexRead(lo, hi) ==
    LET matches(r) == docs[r[1]] \in lo .. hi
        found == SelectSeq(Fetched(ScanIterator(lo, hi)), matches)
    IN  [i \in DOMAIN found |-> found[i][1]]

\* A query answered by the active index returns every document it should, once:
\* the answer of a scan of the table with the same filter.
IndexQueriesExact ==
    (field /\ state = "active") =>
        \A lo, hi \in Values :
            LET answer == IndexRead(lo, hi)
            IN  /\ IsInjective(answer)
                /\ Range(answer) = {k \in Keys : docs[k] # None /\ docs[k] \in lo .. hi}

=============================================================================
