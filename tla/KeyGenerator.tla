---------------------------- MODULE KeyGenerator ----------------------------
(***************************************************************************)
(* Primary keys the server makes for documents that come without one: a     *)
(* counter per table, drawn in a transaction of its own, for int32; the     *)
(* clock for int64 and date-time; a UUID for the others. Then the document  *)
(* is inserted or replaced under the key in the transaction of the request. *)
(* server/metadata/key_generator.go, services/v1/database/key_generator.go  *)
(* and insertOrReplace of base_runner.go.                                   *)
(***************************************************************************)
EXTENDS Integers, FiniteSets

CONSTANTS
    KeyTypes,    \* the type of the key of a table; tables are named by it
    Writers,     \* requests that write one document each
    GivenKeys,   \* keys that documents may carry
    CounterBits, \* the width of the counter: 32 in the code
    MaxClock,    \* bound: ticks of the clock
    MaxRetries   \* bound: counter transactions that conflict

ASSUME KeyTypes \subseteq {"int32", "int64", "datetime", "string"}

VARIABLES
    counter,   \* the stored counter of a table; 0 when there is none
    keyRows,      \* the row under a key of a table: the document's writer
    writer,    \* what a writer is doing
    clock,     \* the time, in nanoseconds, coarse as clocks are
    retries

kgvars == <<counter, keyRows, writer, clock, retries>>

NoRow == 0  \* writers are numbered from 1

\* uint32 kept in the store, int32 in the key.
Wrap(n) == n % 2^CounterBits
Signed(n) == IF n < 2^(CounterBits - 1) THEN n ELSE n - 2^CounterBits

\* UUIDs are new: writer w's is the key 1000 + w.
Uuid(w) == 1000 + w

TableKeys == {Signed(n) : n \in 0..2^CounterBits - 1} \cup 0..MaxClock \cup GivenKeys
             \cup {Uuid(w) : w \in Writers}

\* A table that has drawn nothing, or one about to pass the sign bit.
KgInit ==
    /\ counter \in [KeyTypes -> {0, 2^(CounterBits - 1) - 1}]
    /\ \A t \in KeyTypes : t # "int32" => counter[t] = 0
    /\ keyRows = [t \in KeyTypes |-> [k \in TableKeys |-> NoRow]]
    /\ writer = [w \in Writers |-> [st |-> "new"]]
    /\ clock = 1
    /\ retries = 0

-----------------------------------------------------------------------------
\* isNull: the zero of the type, like null, asks for a key.
IsNull(k) == k = 0

\* Keys made of the clock may be made twice: the document must be new.
ForceInsert(t, auto) == auto /\ t \in {"int64", "datetime"}

Keyed(t, k, insert, auto) ==
    [st |-> "keyed", table |-> t, key |-> k, auto |-> auto,
     insert |-> insert \/ ForceInsert(t, auto)]

\* A document for table t with key k, where 0 stands for none. A clock or UUID
\* key is made at once; a counter is asked for.
Generate(w, t, k, insert) ==
    /\ writer[w].st = "new"
    /\ \A u \in Writers : u < w => writer[u].st # "new"
    /\ writer' = [writer EXCEPT ![w] =
         CASE ~IsNull(k) -> Keyed(t, k, insert, FALSE)
           [] IsNull(k) /\ t = "string" -> Keyed(t, Uuid(w), insert, TRUE)
           [] IsNull(k) /\ t \in {"int64", "datetime"} -> Keyed(t, clock, insert, TRUE)
           [] OTHER -> [st |-> "draw", table |-> t, insert |-> insert]]
    /\ UNCHANGED <<counter, keyRows, clock, retries>>

\* generateCounter reads the counter and writes the next.
ReadCounter(w) ==
    /\ writer[w].st = "draw"
    /\ writer' = [writer EXCEPT ![w] = [st |-> "drawn", table |-> @.table, insert |-> @.insert,
                                        old |-> counter[@.table]]]
    /\ UNCHANGED <<counter, keyRows, clock, retries>>

\* Mutant: a transaction that conflicts is taken for one that commits.
AfterConflictUsed(q) == Keyed(q.table, Signed(Wrap(q.old + 1)), q.insert, TRUE)

\* A conflict starts the loop of GenerateCounter again.
AfterConflict(q) == [st |-> "draw", table |-> q.table, insert |-> q.insert]

CommitCounter(w) ==
    /\ writer[w].st = "drawn"
    /\ LET q == writer[w]
           id == Wrap(q.old + 1)
       IN  \/ /\ counter[q.table] = q.old
              /\ counter' = [counter EXCEPT ![q.table] = id]
              /\ writer' = [writer EXCEPT ![w] = Keyed(q.table, Signed(id), q.insert, TRUE)]
              /\ UNCHANGED retries
           \/ /\ counter[q.table] # q.old /\ retries < MaxRetries
              /\ retries' = retries + 1
              /\ writer' = [writer EXCEPT ![w] = AfterConflict(q)]
              /\ UNCHANGED counter
           \/ /\ writer' = [writer EXCEPT ![w] = [st |-> "failed"]]  \* another error
              /\ UNCHANGED <<counter, retries>>
    /\ UNCHANGED <<keyRows, clock>>

\* Insert finds the key taken and fails the request; Replace does not look.
WriteDoc(w) ==
    /\ writer[w].st = "keyed"
    /\ LET q == writer[w]
           row == keyRows[q.table][q.key]
       IN  writer' = [writer EXCEPT ![w] =
                IF q.insert /\ row # NoRow THEN [st |-> "failed"]
                ELSE [q EXCEPT !.st = "written"]]
    /\ UNCHANGED <<counter, keyRows, clock, retries>>

\* The commit of the request. One that inserts has read the key's row.
CommitDoc(w) ==
    /\ writer[w].st = "written"
    /\ LET q == writer[w]
       IN  \/ /\ q.insert => keyRows[q.table][q.key] = NoRow
              /\ keyRows' = [keyRows EXCEPT ![q.table][q.key] = w]
              /\ writer' = [writer EXCEPT ![w].st = "done"]
           \/ /\ writer' = [writer EXCEPT ![w] = [st |-> "failed"]]
              /\ UNCHANGED keyRows
    /\ UNCHANGED <<counter, clock, retries>>

TickClock ==
    /\ clock < MaxClock /\ clock' = clock + 1
    /\ UNCHANGED <<counter, keyRows, writer, retries>>

KgNext ==
    \/ \E w \in Writers, t \in KeyTypes, k \in GivenKeys \cup {0}, insert \in BOOLEAN :
        Generate(w, t, k, insert)
    \/ \E w \in Writers : ReadCounter(w) \/ CommitCounter(w) \/ WriteDoc(w) \/ CommitDoc(w)
    \/ TickClock

-----------------------------------------------------------------------------
KgTypeOK ==
    /\ counter \in [KeyTypes -> 0..2^CounterBits - 1]
    /\ keyRows \in [KeyTypes -> [TableKeys -> Writers \cup {NoRow}]]
    /\ \A w \in Writers : writer[w].st \in {"new", "draw", "drawn", "keyed", "written", "done", "failed"}
    /\ clock \in 1..MaxClock /\ retries \in 0..MaxRetries

(***************************************************************************)
(* A document stored under a key the server made stays there: no other      *)
(* document with a made key takes its place, though counters are drawn by    *)
(* many servers at once and two servers may read the same time. Only a       *)
(* document that names the key itself may replace it (GenerateCounter,       *)
(* insertOrReplace).                                                        *)
(***************************************************************************)
MadeKeysUnique ==
    \A w \in Writers : writer[w].st = "done" /\ writer[w].auto =>
        LET row == keyRows[writer[w].table][writer[w].key]
        IN  row = w \/ ~writer[row].auto
=============================================================================
