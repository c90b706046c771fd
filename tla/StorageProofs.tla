---------------------------- MODULE StorageProofs ----------------------------
(***************************************************************************)
(* What the storage keeps whatever the constants are: the theorems about   *)
(* the specification the parts of the storage share, from the steps of     *)
(* each part (StorageSteps, AppKeysSteps).                                 *)
(***************************************************************************)
EXTENDS MCStorage, StorageSteps, AppKeysSteps

storageVars == <<part, kvVars, qvars, nsvars, pvars, akvars, tvars, scvars>>

\* The part that runs keeps its invariant; the others stand still.
StorageInv ==
    /\ part = "queue" => QueueInv
    /\ part = "shared" => SharedInv
    /\ part = "namespaces" => NsInv
    /\ part = "calls" => CallsInv
    /\ part = "appkeys" => KeysInv

\* Every part starts as its own specification says.
LEMMA StorageStarts ==
    ASSUME Init
    PROVE  StorageInv
  <1>1. QInit /\ NsInit /\ TInit /\ ScInit /\ AkInit
    BY DEF Init, AppKeysRest
  <1> QED BY <1>1, QueueStarts, SharedStarts, NsStarts, CallsStart, KeysStart DEF StorageInv

\* A step is one of the part that runs, or changes nothing of it.
LEMMA StorageStep ==
    ASSUME StorageInv, [Next]_storageVars
    PROVE  StorageInv'
  <1>1. part' = part
    BY DEF Next, KeepOthers, storageVars
  <1>2. ASSUME part = "queue"
        PROVE  QueueInv'
    <2>1. QueueInv /\ (QNext \/ UNCHANGED qvars)
      BY <1>2 DEF StorageInv, Next, storageVars
    <2>2. CASE UNCHANGED qvars
      BY <2>1, <2>2, QueueStays
    <2> QED BY <2>1, <2>2, QueueStep
  <1>3. ASSUME part = "shared"
        PROVE  SharedInv'
    <2>1. SharedInv /\ (TNext \/ UNCHANGED tvars)
      BY <1>3 DEF StorageInv, Next, storageVars
    <2>2. CASE UNCHANGED tvars
      BY <2>1, <2>2, SharedStays
    <2> QED BY <2>1, <2>2, SharedStep
  <1>4. ASSUME part = "namespaces"
        PROVE  NsInv'
    <2>1. NsInv /\ (NsNext \/ UNCHANGED nsvars)
      BY <1>4 DEF StorageInv, Next, storageVars
    <2>2. CASE UNCHANGED nsvars
      BY <2>1, <2>2, NsStays
    <2> QED BY <2>1, <2>2, NsStep
  <1>5. ASSUME part = "calls"
        PROVE  CallsInv'
    <2>1. CallsInv /\ (ScNext \/ UNCHANGED scvars)
      BY <1>5 DEF StorageInv, Next, storageVars
    <2>2. CASE UNCHANGED scvars
      BY <2>1, <2>2, CallsStay
    <2> QED BY <2>1, <2>2, CallsStep
  <1>6. ASSUME part = "appkeys"
        PROVE  KeysInv'
    <2>1. KeysInv /\ (AkNext \/ UNCHANGED akvars)
      BY <1>6 DEF StorageInv, Next, storageVars
    <2>2. CASE UNCHANGED akvars
      BY <2>1, <2>2, KeysStay DEF akvars
    <2> QED BY <2>1, <2>2, KeysStep
  <1> QED BY <1>1, <1>2, <1>3, <1>4, <1>5, <1>6 DEF StorageInv

\* The invariant of all parts.
LEMMA StorageAlways == Spec => []StorageInv
  <1>1. Init => StorageInv
    BY StorageStarts
  <1>2. StorageInv /\ [Next]_storageVars => StorageInv'
    BY StorageStep
  <1> QED BY <1>1, <1>2, PTL DEF Spec, storageVars

(***************************************************************************)
(* The work queue (queue.go): an item is in the queue from the time it is  *)
(* added to the time it is completed, in one row, and of two workers that  *)
(* have leased it the lease of one is over.                                *)
(***************************************************************************)
THEOREM QueueIsCorrect == Spec => []QueueCorrect
  <1>1. StorageInv => QueueCorrect
    BY OneRow DEF StorageInv, QueueCorrect, QueueInv
  <1> QED BY <1>1, StorageAlways, PTL

(***************************************************************************)
(* An item is completed (Complete) only by the worker that holds the lease *)
(* the row has at that time.                                               *)
(***************************************************************************)
THEOREM CompletedByItsHolder == Spec => CompletedByHolder
  <1> DEFINE A == \A r \in rows : r.id \in done' \ done => \E w \in holds : mine[w] = r
  <1>1. ASSUME StorageInv, [Next]_storageVars
        PROVE  [A]_qvars
    <2>1. CASE part = "queue"
      <3>1. QueueInv /\ (QNext \/ UNCHANGED qvars)
        BY <1>1, <2>1 DEF StorageInv, Next, storageVars
      <3> QED BY <3>1, CompleteStep
    <2>2. CASE part # "queue"
      <3>1. UNCHANGED qvars
        BY <1>1, <2>2 DEF Next, KeepOthers, storageVars
      <3> QED BY <3>1
    <2> QED BY <2>1, <2>2
  <1> QED BY <1>1, StorageAlways, PTL DEF Spec, CompletedByHolder, storageVars

(***************************************************************************)
(* A transaction whose requests overlap (manager.go): it commits once at   *)
(* most, with every write of every statement that was answered and the new *)
(* version if the schema changed; one commit at most is told that it did;  *)
(* and a transaction that ended is forgotten.                              *)
(***************************************************************************)
THEOREM SharedTransaction ==
    Spec => [](part = "shared" => TxTypeOK /\ CommitIsWhole /\ EndedIsForgotten)
  <1>1. StorageInv => (part = "shared" => TxTypeOK /\ CommitIsWhole /\ EndedIsForgotten)
    BY SharedIsCorrect DEF StorageInv, SharedInv
  <1> QED BY <1>1, StorageAlways, PTL

(***************************************************************************)
(* Namespaces (namespace.go, tenant.go): no two have the same code, a      *)
(* server that need not be restarted has cached them as they are reserved, *)
(* and their metadata was written for them.                                *)
(***************************************************************************)
THEOREM NamespacesAreCorrect == Spec => []NamespacesCorrect
  <1>1. StorageInv => NamespacesCorrect
    BY OwnedIsOwned DEF StorageInv, NamespacesCorrect, NsInv
  <1> QED BY <1>1, StorageAlways, PTL

(***************************************************************************)
(* The calls of the store (fdb.go, txWithRetry): one that reports success  *)
(* was applied, except DropTable, which hides an error; a call is applied  *)
(* again only for each answer that was lost; and of inserts of the same    *)
(* row one takes effect, once, while nobody replaces, deletes or drops.    *)
(***************************************************************************)
THEOREM CallsTakeEffect ==
    Spec => [](part = "calls" => ScTypeOK /\ CallsApplied /\ OneInsertWins)
  <1>1. StorageInv => (part = "calls" => ScTypeOK /\ CallsApplied /\ OneInsertWins)
    BY CallsAreCorrect DEF StorageInv
  <1> QED BY <1>1, StorageAlways, PTL

(***************************************************************************)
(* Application keys (auth0.go, gotrue.go): a secret the provider no longer *)
(* takes has a token in the store only if a token request crossed the key's*)
(* rotation or deletion (deleteApplication comes first); and a client      *)
(* without a grant is one being created, while the user of any other key   *)
(* knows its secret and its name, unless a call of theirs failed           *)
(* (CreateAppKey, RotateAppKey, UpdateAppKey).                             *)
(***************************************************************************)
THEOREM KeysAndTokens == Spec => [](part = "appkeys" => OldTokensCrossed /\ KeysAsTold)
  <1>1. StorageInv => (part = "appkeys" => OldTokensCrossed /\ KeysAsTold)
    BY KeysAreCorrect DEF StorageInv
  <1> QED BY <1>1, StorageAlways, PTL

(***************************************************************************)
(* If a token is stored within the margin by which the store gives it up   *)
(* early, one the store still takes for good is the provider's and has not *)
(* ended (getAccessTokenUsingClientCredentialsAuth0).                      *)
(***************************************************************************)
THEOREM StoredTokensAreGood ==
    ASSUME KeepDelay <= TokenMargin
    PROVE  Spec => [](part = "appkeys" => StoredTokensLast)
  <1>1. StorageInv => (part = "appkeys" => StoredTokensLast)
    BY KeysAreCorrect DEF StorageInv
  <1> QED BY <1>1, StorageAlways, PTL

=============================================================================
