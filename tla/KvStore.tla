------------------------------ MODULE KvStore ------------------------------
(***************************************************************************)
(* What store/kv promises its callers (the interfaces KV, Tx and TxStore): *)
(* a table maps keys to payloads; a transaction buffers its operations and *)
(* either all of them take effect at its commit, as if they ran then, or   *)
(* none does.                                                              *)
(***************************************************************************)
EXTENDS Naturals, Sequences, SequencesExt

CONSTANTS Txs, Keys, Payloads, None

VARIABLES
    rows,  \* the table
    open   \* the operations of each open transaction; None when it is not open

absVars == <<rows, open>>

Operations == [op : {"insert", "replace", "update", "delete"}, key : Keys, data : Payloads \cup {None}]

(***************************************************************************)
(* An insert needs an absent row and an update a present one; a replace    *)
(* and a delete take the table as they find it.                            *)
(***************************************************************************)
Accepted(r, o) ==
    /\ o.op = "insert" => r[o.key] = None
    /\ o.op = "update" => r[o.key] # None

After(r, ops) == FoldLeft(LAMBDA acc, o : [acc EXCEPT ![o.key] = o.data], r, ops)

Init ==
    /\ rows = [k \in Keys |-> None]
    /\ open = [t \in Txs |-> None]

BeginTx(t) ==
    /\ open[t] = None
    /\ open' = [open EXCEPT ![t] = <<>>]
    /\ UNCHANGED rows

(***************************************************************************)
(* The transaction does one more operation.                                *)
(***************************************************************************)
Do(t) ==
    /\ open[t] # None /\ open'[t] # None
    /\ Len(open'[t]) = Len(open[t]) + 1
    /\ Last(open'[t]) \in Operations
    /\ open' = [open EXCEPT ![t] = Append(@, Last(open'[t]))]
    /\ UNCHANGED rows

Commit(t) ==
    /\ open[t] # None
    /\ LET r == rows
           ops == open[t]
       IN  /\ \A i \in DOMAIN ops : Accepted(After(r, SubSeq(ops, 1, i - 1)), ops[i])
           /\ rows' = After(r, ops)
    /\ open' = [open EXCEPT ![t] = None]

Abort(t) ==
    /\ open[t] # None
    /\ open' = [open EXCEPT ![t] = None]
    /\ UNCHANGED rows

DropTable ==
    /\ rows' = [k \in Keys |-> None]
    /\ UNCHANGED open

Next ==
    \/ \E t \in Txs : BeginTx(t) \/ Do(t) \/ Commit(t) \/ Abort(t)
    \/ DropTable

Spec == Init /\ [][Next]_absVars

=============================================================================
