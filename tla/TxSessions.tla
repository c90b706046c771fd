----------------------------- MODULE TxSessions -----------------------------
(***************************************************************************)
(* An explicit transaction whose requests overlap. The server finds the    *)
(* session of a request by the id of its transaction                       *)
(* (server/services/v1/database/sessions.go) and every operation on the    *)
(* transaction takes the lock of its TxSession                             *)
(* (server/transaction/manager.go), but a request as a whole takes none: a *)
(* statement may write its first document before, and its second one       *)
(* after, another request commits.                                         *)
(***************************************************************************)
EXTENDS Naturals, FiniteSets

CONSTANTS
    TReqs,     \* requests of the transaction
    TWrites,   \* documents a statement writes, 1 .. TWrites
    NoKTx      \* kTx is nil

ASSUME TAssumption == 0 \notin TReqs /\ TWrites \in Nat \ {0}

VARIABLES
    session,   \* the TxSession: its state and the writes of kTx
    tracked,   \* the tracker has the session
    bumps,     \* the transaction has staged a change of the metadata
    durable,   \* what the store has committed: one set of writes per commit
    treq       \* the requests

tvars == <<session, tracked, bumps, durable, treq>>

(* The version of the metadata, a row that no statement writes. *)
Version == <<0, 0>>
Writes == (TReqs \X (1 .. TWrites)) \cup {Version}

ASSUME NoKTxAssumption == \A kTx \in SUBSET Writes : kTx # NoKTx

Idle == [kind |-> "none", pc |-> "idle", wrote |-> 0, reply |-> "none"]

(***************************************************************************)
(* BeginTransaction has started the session and told the client its id.    *)
(***************************************************************************)
TInit ==
    /\ session = [state |-> "active", kTx |-> {}]
    /\ tracked = TRUE
    /\ bumps \in BOOLEAN
    /\ durable = {}
    /\ treq = [r \in TReqs |-> Idle]

(* validateSession *)
Active == session.state = "active"

(***************************************************************************)
(* A request looks its session up. Commit and rollback answer "not found", *)
(* statements "session is gone", when the tracker no longer has it.        *)
(***************************************************************************)
GetSession(r, kind) ==
    /\ treq[r].pc = "idle"
    /\ treq' = [treq EXCEPT ![r] =
            IF tracked THEN [Idle EXCEPT !.kind = kind, !.pc = "found"]
            ELSE [Idle EXCEPT !.kind = kind, !.pc = "done", !.reply = "gone"]]
    /\ UNCHANGED <<session, tracked, bumps, durable>>

(***************************************************************************)
(* One write of a statement, under the lock.                               *)
(***************************************************************************)
WriteDocument(r) ==
    /\ treq[r].kind = "statement" /\ treq[r].pc = "found"
    /\ IF Active
       THEN LET n == treq[r].wrote + 1
            IN  /\ session' = [session EXCEPT !.kTx = @ \cup {<<r, n>>}]
                /\ treq' = [treq EXCEPT ![r] =
                        IF n = TWrites THEN [@ EXCEPT !.wrote = n, !.pc = "done", !.reply = "ok"]
                        ELSE [@ EXCEPT !.wrote = n]]
       ELSE /\ treq' = [treq EXCEPT ![r].pc = "done", ![r].reply = "gone"]
            /\ UNCHANGED session
    /\ UNCHANGED <<tracked, bumps, durable>>

(***************************************************************************)
(* What QuerySession.Commit writes before it commits: the version of the   *)
(* metadata when the transaction has changed it. When the session is gone, *)
(* it rolls back, which does nothing, and answers the error.               *)
(***************************************************************************)
IncrementVersion(r) ==
    /\ treq[r].kind = "commit" /\ treq[r].pc = "found"
    /\ IF ~bumps
       THEN treq' = [treq EXCEPT ![r].pc = "commit"] /\ UNCHANGED session
       ELSE IF Active
            THEN /\ session' = [session EXCEPT !.kTx = @ \cup {Version}]
                 /\ treq' = [treq EXCEPT ![r].pc = "commit"]
            ELSE /\ treq' = [treq EXCEPT ![r].pc = "remove", ![r].reply = "gone"]
                 /\ UNCHANGED session
    /\ UNCHANGED <<tracked, bumps, durable>>

(***************************************************************************)
(* TxSession.Commit does not ask for the state of the session: when kTx is *)
(* nil it panics, the locks are released and the request fails. Otherwise  *)
(* the store commits, refuses, or its answer is lost.                      *)
(***************************************************************************)
Ended == [state |-> "ended", kTx |-> NoKTx]

CommitSession(r) ==
    /\ treq[r].pc = "commit"
    /\ session' = Ended
    /\ IF session.kTx = NoKTx
       THEN treq' = [treq EXCEPT ![r].pc = "remove", ![r].reply = "panic"] /\ UNCHANGED durable
       ELSE \E answer \in {"ok", "error"}, lands \in BOOLEAN :
                /\ answer = "ok" => lands
                /\ durable' = IF lands THEN durable \cup {session.kTx} ELSE durable
                /\ treq' = [treq EXCEPT ![r].pc = "remove", ![r].reply = answer]
    /\ UNCHANGED <<tracked, bumps>>

(***************************************************************************)
(* TxSession.Rollback. The request is answered without an error even when  *)
(* another one has committed.                                              *)
(***************************************************************************)
RollbackSession(r) ==
    /\ treq[r].kind = "rollback" /\ treq[r].pc = "found"
    /\ session' = IF session.kTx = NoKTx THEN session ELSE Ended
    /\ treq' = [treq EXCEPT ![r].pc = "remove", ![r].reply = "ok"]
    /\ UNCHANGED <<tracked, bumps, durable>>

\* The deferred removal from the tracker; the answer goes out after it.
RemoveSession(r) ==
    /\ treq[r].pc = "remove"
    /\ tracked' = FALSE
    /\ treq' = [treq EXCEPT ![r].pc = "done"]
    /\ UNCHANGED <<session, bumps, durable>>

TNext ==
    \E r \in TReqs :
        \/ \E kind \in {"statement", "commit", "rollback"} : GetSession(r, kind)
        \/ WriteDocument(r)
        \/ IncrementVersion(r)
        \/ CommitSession(r)
        \/ RollbackSession(r)
        \/ RemoveSession(r)

TSpec == TInit /\ [][TNext]_tvars

-----------------------------------------------------------------------------
(***************************************************************************)
(* Type invariant.                                                         *)
(***************************************************************************)
TxTypeOK ==
    /\ session \in [state : {"active"}, kTx : SUBSET Writes] \cup {Ended}
    /\ tracked \in BOOLEAN /\ bumps \in BOOLEAN
    /\ durable \subseteq SUBSET Writes
    /\ treq \in [TReqs -> [kind : {"none", "statement", "commit", "rollback"},
                           pc : {"idle", "found", "commit", "remove", "done"},
                           wrote : 0 .. TWrites,
                           reply : {"none", "ok", "error", "gone", "panic"}]]

Replied(kind, reply) == {r \in TReqs : treq[r].kind = kind /\ treq[r].reply = reply}

(***************************************************************************)
(* Whatever the order of the requests, the transaction commits at most     *)
(* once, and when it has committed, every statement that was answered "ok" *)
(* is in the commit as a whole, and so is the new version when metadata    *)
(* has changed. A commit answered "ok" has committed, and is the only one  *)
(* that was.                                                               *)
(***************************************************************************)
CommitIsWhole ==
    /\ Cardinality(durable) <= 1
    /\ \A d \in durable :
           /\ Replied("statement", "ok") \X (1 .. TWrites) \subseteq d
           /\ bumps => Version \in d
    /\ Replied("commit", "ok") # {} => durable # {}
    /\ Cardinality(Replied("commit", "ok")) <= 1

(***************************************************************************)
(* The store has only writes whose statement was told they succeeded. Once *)
(* a request that ends the transaction has been answered no later request  *)
(* finds the session, and a session no request can find any more has given *)
(* up the transaction of the store.                                        *)
(***************************************************************************)
EndedIsForgotten ==
    /\ \A d \in durable : \A w \in d \ {Version} : w[2] <= treq[w[1]].wrote
    /\ (\E r \in TReqs : treq[r].kind \in {"commit", "rollback"} /\ treq[r].pc = "done") => ~tracked
    /\ ~tracked => ~Active

=============================================================================
