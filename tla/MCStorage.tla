----------------------------- MODULE MCStorage -----------------------------
(***************************************************************************)
(* The store and the metadata kept in it, for TLC: the layers of the       *)
(* key-value store and its calls, a transaction whose requests overlap,    *)
(* the work queue, the namespaces, the projects of a tenant, and the       *)
(* application keys of a project. They have no state in common. A          *)
(* behaviour is one of one of them, chosen at the start, while the others  *)
(* stay as they begin.                                                     *)
(***************************************************************************)
EXTENDS KvLayers, WorkQueue, Namespaces, Projects, AppKeys, TxSessions, StoreCalls

VARIABLE part  \* the part that runs

Parts == {"kv", "queue", "namespaces", "projects", "appkeys", "shared", "calls"}

\* The keys as they begin in a behaviour of another part.
AppKeysRest ==
    /\ topic = "users" /\ provider = "gotrue"
    /\ apps = CHOOSE s \in AkStart : \A a \in AkApps : Cardinality(s[a].projects) <= 1
    /\ AkInit

Init ==
    /\ part \in Parts
    /\ KvInit /\ QInit /\ NsInit /\ PInit /\ ScInit
    /\ TInit /\ (part # "shared" => ~bumps)
    /\ IF part = "appkeys" THEN AkInit ELSE AppKeysRest

KeepOthers ==
    /\ part' = part
    /\ part # "kv" => UNCHANGED kvVars
    /\ part # "queue" => UNCHANGED qvars
    /\ part # "namespaces" => UNCHANGED nsvars
    /\ part # "projects" => UNCHANGED pvars
    /\ part # "appkeys" => UNCHANGED akvars
    /\ part # "shared" => UNCHANGED tvars
    /\ part # "calls" => UNCHANGED scvars

Next ==
    \/ part = "kv" /\ KvNext /\ KeepOthers
    \/ part = "queue" /\ QNext /\ KeepOthers
    \/ part = "namespaces" /\ NsNext /\ KeepOthers
    \/ part = "projects" /\ PNext /\ KeepOthers
    \/ part = "appkeys" /\ AkNext /\ KeepOthers
    \/ part = "shared" /\ TNext /\ KeepOthers
    \/ part = "calls" /\ ScNext /\ KeepOthers

Spec == Init /\ [][Next]_<<part, kvVars, qvars, nsvars, pvars, akvars, tvars, scvars>>

(***************************************************************************)
(* The layers of the store: rows have the shapes the layers give them, a   *)
(* scan returns every document whole, and the statistics are exact         *)
(* (KvLayers). Calls of the store take effect as they are answered, more   *)
(* than once only when an answer was lost (StoreCalls). A transaction      *)
(* whose requests overlap commits once, with all the statements that were  *)
(* answered, and is then forgotten (TxSessions).                           *)
(***************************************************************************)
KvCorrect ==
    /\ part = "kv" => KvTypeOK /\ ScanIsComplete /\ StatsExact
    /\ part = "calls" => ScTypeOK /\ CallsApplied /\ CounterExact /\ OneInsertWins
    /\ part = "shared" => TxTypeOK /\ CommitIsWhole /\ EndedIsForgotten

(***************************************************************************)
(* The work queue: no item is lost before it is completed, and of two      *)
(* workers that believe to hold an item only one can still act on it       *)
(* (WorkQueue).                                                            *)
(***************************************************************************)
QueueCorrect ==
    part = "queue" => QueueTypeOK /\ ItemsKept /\ LeaseExclusive

(***************************************************************************)
(* Namespaces: no two share an id, what servers have loaded follows what   *)
(* is stored, and metadata rows belong to a namespace (Namespaces).        *)
(***************************************************************************)
NamespacesCorrect ==
    part = "namespaces" => NsTypeOK /\ NamespaceIdsUnique /\ TenantsCurrent /\ MetadataOwned

(***************************************************************************)
(* The dictionary of a tenant: codes are unique and never used again, a    *)
(* listed search index has a schema, and a collection has its implicit     *)
(* index (Projects).                                                       *)
(***************************************************************************)
ProjectsCorrect ==
    part = "projects" => ProjTypeOK /\ CodesUnique /\ NoRetrogression /\ ListedIndexHasSchema /\ ImplicitIndexExists

(***************************************************************************)
(* Application keys: tokens from the store are the provider's and have not *)
(* ended, the keys of a deleted project go and no others, and what a user  *)
(* was told of a key holds unless a call failed (AppKeys).                 *)
(***************************************************************************)
AppKeysCorrect ==
    part = "appkeys" => AkTypeOK /\ NoWrongAnswer /\ OldTokensCrossed /\ KeysAsTold

(* Keys there are at the start, and addresses to invite. *)
SomeKeys ==
    {<<App("u", {"p"}, 1), App("v", {"p", "q"}, 1)>>, <<App("u", {"p"}, 1), NoApp>>}
TwoEmails == <<"e", "f">>

=============================================================================

