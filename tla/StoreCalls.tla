----------------------------- MODULE StoreCalls -----------------------------
(***************************************************************************)
(* The operations of the store itself (store/kv/fdb.go): each is one       *)
(* transaction that txWithRetry begins, runs and commits, again and again  *)
(* until a commit succeeds. Callers share one row and one counter.         *)
(*                                                                         *)
(* After a failed commit, txWithRetryLow looks at the err of the function  *)
(* and not at the one of the commit, which has a scope of its own. The     *)
(* first is nil, so that every failed commit is retried: one refused for a *)
(* conflict, one refused for good, and one that did commit but whose       *)
(* answer was lost.                                                        *)
(***************************************************************************)
EXTENDS Naturals, FiniteSets, FiniteSetsExt

CONSTANTS
    Callers,      \* calls made at the same time
    MaxLost       \* failures of the store in a behaviour

ASSUME CallsAssumption == MaxLost \in Nat

VARIABLES
    row,      \* who wrote the row; {} when there is none
    total,    \* the value of the counter
    writes,   \* number of writes to the row, to find conflicts
    call,     \* the calls
    lost      \* failures so far

scvars == <<row, total, writes, call, lost>>

CallOps == {"insert", "replace", "delete", "add", "drop"}

NoCall == [op |-> "none", pc |-> "idle", read |-> 0, landed |-> 0, unknown |-> 0, reply |-> "none"]

ScInit ==
    /\ row = {} /\ total = 0 /\ writes = 0 /\ lost = 0
    /\ call = [c \in Callers |-> NoCall]

StartCall(c, op) ==
    /\ call[c].pc = "idle"
    /\ call' = [call EXCEPT ![c].op = op, ![c].pc = "run"]
    /\ UNCHANGED <<row, total, writes, lost>>

(***************************************************************************)
(* The attempt has no transaction: it cannot be created, or the time of    *)
(* the request is over. Only DropTable hides this error from its caller.   *)
(***************************************************************************)
AttemptFails(c) ==
    /\ call[c].pc = "run" /\ lost < MaxLost
    /\ lost' = lost + 1
    /\ call' = [call EXCEPT ![c].pc = "done", ![c].reply = IF call[c].op = "drop" THEN "ok" ELSE "error"]
    /\ UNCHANGED <<row, total, writes>>

(***************************************************************************)
(* The function of the call. Insert reads the row and refuses a duplicate; *)
(* the others read nothing.                                                *)
(***************************************************************************)
RunFn(c) ==
    /\ call[c].pc = "run"
    /\ call' = [call EXCEPT ![c] =
            IF @.op = "insert" /\ row # {} THEN [@ EXCEPT !.pc = "done", !.reply = "duplicate"]
            ELSE [@ EXCEPT !.pc = "commit", !.read = writes]]
    /\ UNCHANGED <<row, total, writes, lost>>

CallConflict(c) == call[c].op = "insert" /\ call[c].read # writes

(* What the counter is after the call: AtomicAdd adds, whatever it was. *)
Added(op, value) == IF op = "add" THEN value + 1 ELSE value

(* DropTable clears the range of the table, rows and counters. *)
Dropped(op) == op = "drop"

Land(c) ==
    LET op == call[c].op
    IN  /\ row' = CASE op \in {"insert", "replace"} -> {c}
                    [] op = "delete" \/ Dropped(op) -> {}
                    [] OTHER -> row
        /\ total' = IF Dropped(op) THEN 0 ELSE Added(op, total)
        /\ writes' = IF op = "add" THEN writes ELSE writes + 1

CommitCall(c) ==
    /\ call[c].pc = "commit" /\ ~CallConflict(c)
    /\ Land(c)
    /\ call' = [call EXCEPT ![c].pc = "done", ![c].landed = @ + 1, ![c].reply = "ok"]
    /\ UNCHANGED lost

(***************************************************************************)
(* The commit is refused, for a conflict or another reason, and the call   *)
(* begins again.                                                           *)
(***************************************************************************)
Retry(c) ==
    /\ call[c].pc = "commit"
    /\ ~CallConflict(c) => lost < MaxLost
    /\ lost' = IF CallConflict(c) THEN lost ELSE lost + 1
    /\ call' = [call EXCEPT ![c].pc = "run"]
    /\ UNCHANGED <<row, total, writes>>

(***************************************************************************)
(* The commit succeeds, the call does not learn it and begins again.       *)
(***************************************************************************)
RetryLanded(c) ==
    /\ call[c].pc = "commit" /\ ~CallConflict(c) /\ lost < MaxLost
    /\ lost' = lost + 1
    /\ Land(c)
    /\ call' = [call EXCEPT ![c].pc = "run", ![c].landed = @ + 1, ![c].unknown = @ + 1]

ScNext ==
    \E c \in Callers :
        \/ \E op \in CallOps : StartCall(c, op)
        \/ AttemptFails(c)
        \/ RunFn(c)
        \/ CommitCall(c)
        \/ Retry(c)
        \/ RetryLanded(c)

ScSpec == ScInit /\ [][ScNext]_scvars

-----------------------------------------------------------------------------
(***************************************************************************)
(* Type invariant.                                                         *)
(***************************************************************************)
ScTypeOK ==
    /\ row \subseteq Callers /\ Cardinality(row) <= 1
    /\ total \in Nat /\ writes \in Nat /\ lost \in 0 .. MaxLost
    /\ \A c \in Callers : call[c].pc \in {"idle", "run", "commit", "done"}

Did(op) == {c \in Callers : call[c].op = op}

(***************************************************************************)
(* Operations of the store other than DropTable that report success have   *)
(* been applied; any operation is applied more than once only after a      *)
(* commit whose answer was lost, and then at most once more for each.      *)
(***************************************************************************)
CallsApplied ==
    \A c \in Callers :
        /\ call[c].reply = "ok" /\ call[c].op # "drop" => call[c].landed > 0
        /\ call[c].landed \in {call[c].unknown, call[c].unknown + 1}
        /\ call[c].landed > call[c].unknown => call[c].reply = "ok"

(***************************************************************************)
(* The counter has no additions but those of AtomicAdd that were applied,  *)
(* and all of them unless a table was dropped.                             *)
(***************************************************************************)
CounterExact ==
    LET added == MapThenSumSet(LAMBDA c : call[c].landed, Did("add"))
    IN  total <= added /\ (Did("drop") = {} => total = added)

(***************************************************************************)
(* While nobody replaces, deletes or drops, only one insert takes effect   *)
(* and its row stays, however often the others are tried again; an insert  *)
(* is refused as a duplicate of its own row only when an answer was lost.  *)
(***************************************************************************)
OneInsertWins ==
    Did("replace") \cup Did("delete") \cup Did("drop") = {} =>
        /\ \A c \in Did("insert") : call[c].landed > 0 <=> row = {c}
        /\ \A c \in Did("insert") : call[c].landed <= 1
        /\ \A c \in Did("insert") :
               call[c].reply = "duplicate" /\ row = {c} => call[c].unknown > 0

=============================================================================
