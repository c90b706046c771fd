----------------------------- MODULE Namespaces -----------------------------
(***************************************************************************)
(* Namespaces, that is tenants: the rows that reserve a name and a code in *)
(* the metadata store (reservedSubspace), what each server remembers of    *)
(* them (reservedSubspace's maps, TenantManager's tenants), the management *)
(* requests that create and delete them, and the rows of metadata users    *)
(* keep under a namespace's code.                                          *)
(*                                                                         *)
(* An epoch tells apart the namespaces that had the same name or code one  *)
(* after the other.                                                        *)
(***************************************************************************)
EXTENDS Integers, FiniteSets, FiniteSetsExt, TLC

CONSTANTS
    Servers,      \* server processes
    Reqs,         \* CreateNamespace requests that overlap
    StrIds,       \* names of namespaces
    MetaIds,      \* those of them whose metadata is written
    Codes,        \* codes that clients ask for
    MaxCode,      \* bound on the codes
    MaxEpochs,    \* bound on the namespaces created
    MaxMeta,      \* bound on the rows of metadata
    Absent        \* no namespace, no request

\* What a name may be reserved with, and the requests.
NsRows == [id : 1 .. MaxCode, epoch : 1 .. MaxEpochs] \cup {Absent}
NsRequests == [server : Servers, name : StrIds, code : 1 .. MaxCode, snap : [StrIds -> NsRows]]

ASSUME NsAssumption ==
    /\ Codes \subseteq Nat \ {0} /\ MaxCode \in Nat /\ MaxEpochs \in Nat
    /\ MetaIds \subseteq StrIds
    /\ Absent \notin [id : 1 .. MaxCode, epoch : 1 .. MaxEpochs] /\ Absent \notin NsRequests

VARIABLES
    reserved,     \* reserved[n]: the row that reserves the name n
    subspace,     \* rows of metadata: the code, the kind and the epoch of the writer
    known,        \* known[s]: strIdToNamespaceStruct of server s
    tenants,      \* tenants[s]: the tenants server s has cached
    restart,      \* servers to be restarted since a namespace was deleted
    req,          \* the CreateNamespace requests
    epochs,       \* namespaces created so far
    late          \* a server to be restarted has written metadata

nsvars == <<reserved, subspace, known, tenants, restart, req, epochs, late>>

NamespaceMetadata(code, epoch) == [id |-> code, epoch |-> epoch]
Kinds == {"namespace", "user"}

NsInit ==
    /\ reserved = [n \in StrIds |-> Absent]
    /\ subspace = {}
    /\ known = [s \in Servers |-> reserved]
    /\ tenants = [s \in Servers |-> reserved]
    /\ restart = {}
    /\ req = [r \in Reqs |-> Absent]
    /\ epochs = 0
    /\ late = FALSE

(***************************************************************************)
(* reload adds the rows a transaction reads to the maps and removes none.  *)
(***************************************************************************)
reload(map, rows) == [n \in StrIds |-> IF rows[n] # Absent THEN rows[n] ELSE map[n]]

Present(map) == {n \in StrIds : map[n] # Absent}

(***************************************************************************)
(* CreateTenant and reserveNamespace refuse a name that is known and a     *)
(* code that a known namespace has.                                        *)
(***************************************************************************)
ReserveNamespace(map, n, code) ==
    map[n] = Absent /\ \A o \in Present(map) : map[o].id # code

-----------------------------------------------------------------------------
(***************************************************************************)
(* CreateNamespace starts its transaction and, when the client gives no    *)
(* code, takes the one after the largest it knows. The billing account is  *)
(* made before the tenant. Namespaces are managed on servers that are not  *)
(* waiting to be restarted.                                                *)
(***************************************************************************)
CreateNamespace(r) ==
    /\ req[r] = Absent
    /\ \E s \in Servers \ restart, n \in StrIds, asked \in Codes \cup {0} :
        LET map == reload(known[s], reserved)
            code == IF asked # 0 THEN asked
                    ELSE Max({0} \cup {map[o].id : o \in Present(map)}) + 1
        IN  /\ code <= MaxCode
            /\ IF asked = 0 THEN known' = [known EXCEPT ![s] = map] ELSE UNCHANGED known
            /\ req' = [req EXCEPT ![r] = [server |-> s, name |-> n, code |-> code, snap |-> reserved]]
    /\ UNCHANGED <<reserved, subspace, tenants, restart, epochs, late>>

\* Mutant: the transaction commits although the rows it read have changed.
ConflictIgnored(snap) == FALSE

\* The transaction has read every row that reserves a namespace.
ReserveConflict(snap) == snap # reserved

CreateTenant(r) ==
    /\ req[r] # Absent
    /\ epochs < MaxEpochs
    /\ LET q == req[r]
           map == reload(known[q.server], q.snap)
       IN  /\ known' = [known EXCEPT ![q.server] = map]
           /\ IF ReserveNamespace(map, q.name, q.code) /\ ~ReserveConflict(q.snap)
              THEN /\ epochs' = epochs + 1
                   /\ reserved' = [reserved EXCEPT ![q.name] = NamespaceMetadata(q.code, epochs')]
              ELSE UNCHANGED <<epochs, reserved>>
    /\ req' = [req EXCEPT ![r] = Absent]
    /\ UNCHANGED <<subspace, tenants, restart, late>>

(***************************************************************************)
(* GetTenant caches a namespace the maps have after a reload.              *)
(***************************************************************************)
GetTenant(s, n) ==
    /\ tenants[s][n] = Absent
    /\ LET map == reload(known[s], reserved)
       IN  /\ known' = [known EXCEPT ![s] = map]
           /\ tenants' = [tenants EXCEPT ![s][n] = map[n]]
    /\ UNCHANGED <<reserved, subspace, restart, req, epochs, late>>

DeleteNamespaceRows(rows, code) == {row \in rows : row.code # code \/ row.kind # "namespace"}

(***************************************************************************)
(* DeleteNamespace: the tenant's projects, its reservation and the rows of *)
(* its metadata go in one transaction. The comment of DeleteTenant asks    *)
(* for a restart of the servers, which keep what they remember.            *)
(***************************************************************************)
DeleteNamespace(s, n) ==
    /\ s \notin restart
    /\ tenants[s][n] # Absent
    /\ reserved' = [reserved EXCEPT ![n] = Absent]
    /\ subspace' = DeleteNamespaceRows(subspace, tenants[s][n].id)
    /\ restart' = Servers
    /\ UNCHANGED <<known, tenants, req, epochs, late>>

\* TenantManager.reload: a tenant for every namespace that is reserved.
AllTenants(s) == reserved

(***************************************************************************)
(* A server starts: TenantManager.Reload caches every namespace. Requests  *)
(* it had are gone.                                                        *)
(***************************************************************************)
ReloadTenants(s) ==
    /\ s \in restart
    /\ known' = [known EXCEPT ![s] = reserved]
    /\ tenants' = [tenants EXCEPT ![s] = AllTenants(s)]
    /\ restart' = restart \ {s}
    /\ req' = [r \in Reqs |-> IF req[r] # Absent /\ req[r].server = s THEN Absent ELSE req[r]]
    /\ UNCHANGED <<reserved, subspace, epochs, late>>

(***************************************************************************)
(* Insert and update of a user's or a namespace's metadata, under the code *)
(* of the cached tenant.                                                   *)
(***************************************************************************)
InsertMetadata(s, n, kind) ==
    /\ tenants[s][n] # Absent
    /\ Cardinality(subspace) < MaxMeta
    /\ subspace' = subspace \cup {[code |-> tenants[s][n].id, kind |-> kind, epoch |-> tenants[s][n].epoch]}
    /\ late' = (late \/ s \in restart)
    /\ UNCHANGED <<reserved, known, tenants, restart, req, epochs>>

InsertUserMetadata(s, n) == InsertMetadata(s, n, "user")
InsertNamespaceMetadata(s, n) == InsertMetadata(s, n, "namespace")

NsNext ==
    \/ \E r \in Reqs : CreateNamespace(r) \/ CreateTenant(r)
    \/ \E s \in Servers :
        \/ ReloadTenants(s)
        \/ \E n \in StrIds : GetTenant(s, n) \/ DeleteNamespace(s, n)
        \/ \E n \in MetaIds : InsertUserMetadata(s, n) \/ InsertNamespaceMetadata(s, n)

-----------------------------------------------------------------------------
(***************************************************************************)
(* Type invariant of the namespaces.                                       *)
(***************************************************************************)
NsTypeOK ==
    /\ reserved \in [StrIds -> NsRows]
    /\ known \in [Servers -> [StrIds -> NsRows]]
    /\ tenants \in [Servers -> [StrIds -> NsRows]]
    /\ restart \subseteq Servers
    /\ req \in [Reqs -> NsRequests \cup {Absent}]
    /\ subspace \subseteq [code : 1 .. MaxCode, kind : Kinds, epoch : 1 .. MaxEpochs]
    /\ epochs \in 0 .. MaxEpochs /\ late \in BOOLEAN

(***************************************************************************)
(* No two namespaces have the same code, whichever servers created them at *)
(* the same time (CreateTenant, reserveNamespace): the code is the first   *)
(* part of every table's key.                                              *)
(***************************************************************************)
NamespaceIdsUnique ==
    \A n, o \in Present(reserved) : reserved[n].id = reserved[o].id => n = o

(***************************************************************************)
(* A server that need not be restarted has cached the namespaces as they   *)
(* are reserved (GetTenant, TenantManager.Reload): none that is gone, none *)
(* with the code of an earlier namespace.                                  *)
(***************************************************************************)
TenantsCurrent ==
    \A s \in Servers \ restart, n \in StrIds : tenants[s][n] \in {Absent, reserved[n]}

(***************************************************************************)
(* The metadata under the code of a namespace was written for it and not   *)
(* for a namespace that had the code before (DeleteNamespace), unless a    *)
(* server that was to be restarted has written some.                       *)
(***************************************************************************)
MetadataOwned ==
    late \/ \A n \in Present(reserved), row \in subspace :
                row.kind = "namespace" /\ row.code = reserved[n].id => row.epoch = reserved[n].epoch

=============================================================================
