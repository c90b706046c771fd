----------------------------- MODULE MCServices -----------------------------
(***************************************************************************)
(* The services beside the queries, for TLC. They have no state in common: *)
(* a behaviour is one of one of them, chosen at the start, while the       *)
(* others stay as they begin.                                              *)
(***************************************************************************)
EXTENDS Realtime, Billing, Quotas, CacheService, KeyGenerator, SearchService, SearchDocuments,
        Requests, StreamProxy

VARIABLE part  \* the part that runs

Parts == {"realtime", "billing", "quotas", "cache", "keys", "search", "documents", "requests", "proxy"}

\* Parts with several initial states take one of them when they do not run.
BillingRest == stored = [t \in Billed |-> "none"] /\ BInit
KeysRest == counter = [t \in KeyTypes |-> 0] /\ KgInit
DocumentsRest == sdKind = "collection" /\ SDInit
RequestsRest == rcfg = (CHOOSE c \in RqConfigs : TRUE) /\ RqInit
ProxyRest == xtotal = 0 /\ XInit
SearchRest == engine = [i \in SearchIds |-> NoDoc] /\ SvInit

Init ==
    /\ part \in Parts
    /\ RtInit
    /\ QtInit
    /\ CInit
    /\ IF part = "billing" THEN BInit ELSE BillingRest
    /\ IF part = "keys" THEN KgInit ELSE KeysRest
    /\ IF part = "search" THEN SvInit ELSE SearchRest
    /\ IF part = "documents" THEN SDInit ELSE DocumentsRest
    /\ IF part = "requests" THEN RqInit ELSE RequestsRest
    /\ IF part = "proxy" THEN XInit ELSE ProxyRest

KeepOthers ==
    /\ part' = part
    /\ part # "realtime" => UNCHANGED rtvars
    /\ part # "billing" => UNCHANGED bvars
    /\ part # "quotas" => UNCHANGED qtvars
    /\ part # "cache" => UNCHANGED cvars
    /\ part # "keys" => UNCHANGED kgvars
    /\ part # "search" => UNCHANGED svvars
    /\ part # "documents" => UNCHANGED sdvars
    /\ part # "requests" => UNCHANGED rqvars
    /\ part # "proxy" => UNCHANGED xvars

Next ==
    \/ part = "realtime" /\ RtNext /\ KeepOthers
    \/ part = "billing" /\ BNext /\ KeepOthers
    \/ part = "quotas" /\ QtNext /\ KeepOthers
    \/ part = "cache" /\ CNext /\ KeepOthers
    \/ part = "keys" /\ KgNext /\ KeepOthers
    \/ part = "search" /\ SvNext /\ KeepOthers
    \/ part = "documents" /\ SDNext /\ KeepOthers
    \/ part = "requests" /\ RqNext /\ KeepOthers
    \/ part = "proxy" /\ XNext /\ KeepOthers

Spec == Init /\ [][Next]_<<part, rtvars, bvars, qtvars, cvars, kgvars, svvars, sdvars, rqvars, xvars>>

(***************************************************************************)
(* Realtime channels: a device gets the messages of a stream in order and  *)
(* without a gap, none that was acknowledged again, and no channel is      *)
(* deleted under it (Realtime).                                            *)
(***************************************************************************)
RealtimeCorrect ==
    part = "realtime" => RtTypeOK /\ InOrderNoGap /\ NoRedelivery /\ WatchedStreamKept

(***************************************************************************)
(* Usage: what was recorded is held, pushed or counted as lost, no event   *)
(* is pushed twice, and no usage is free (Billing).                        *)
(***************************************************************************)
BillingCorrect ==
    part = "billing" => BTypeOK /\ EventsOnce /\ UsageConserved /\ UnitsFair

(***************************************************************************)
(* Quotas: a node and a namespace are served no more than their limits     *)
(* allow, and no limit falls to zero (Quotas).                             *)
(***************************************************************************)
QuotasCorrect ==
    part = "quotas" => QtTypeOK /\ NodeWithinLimit /\ NamespaceWithinLimit /\ LimitStaysPositive

(***************************************************************************)
(* The cache service: a scan sends every key that was there throughout,    *)
(* and a deleted cache leaves nothing behind (CacheService).               *)
(***************************************************************************)
CacheCorrect ==
    part = "cache" => CTypeOK /\ ScanSendsAll /\ DeletedCacheEmpty

(***************************************************************************)
(* Key generation: no two documents are given the same generated key,      *)
(* whichever server made it (KeyGenerator).                                *)
(***************************************************************************)
KeysCorrect ==
    part = "keys" => KgTypeOK /\ MadeKeysUnique

(***************************************************************************)
(* Search indexes: the copy of a document in the engine is the stored one, *)
(* and the answer tells which writes failed (SearchService).               *)
(***************************************************************************)
CopiesCorrect ==
    part = "search" => SvTypeOK /\ CopiesAgree

(***************************************************************************)
(* Documents in the search engine: each field comes back as it was stored, *)
(* and nothing else except what an update is known to leave behind         *)
(* (SearchDocuments).                                                      *)
(***************************************************************************)
DocumentsCorrect ==
    part = "documents" => SDTypeOK /\ ReturnsStored /\ ReturnsNothingElse

(***************************************************************************)
(* Requests: whoever is handled has a valid token of the namespace it is   *)
(* handled in, at the server of its transaction and with a deadline; a     *)
(* forwarded stream is complete and leaves no goroutine behind (Requests,  *)
(* StreamProxy).                                                           *)
(***************************************************************************)
RequestsCorrect ==
    /\ part = "requests" => RqTypeOK /\ HandledWithToken /\ HandledAtHome /\ HandledInTime /\ OnlyLoggingPanics
    /\ part = "proxy" => ProxyComplete /\ ProxyInOrder /\ NoLeak

-----------------------------------------------------------------------------
(* The namespaces with a limit of their own (config.Quota.Namespace.Namespaces). *)
OwnUnits == [n \in {"n2"} |-> 0]

(* A schema with every treatment of a field, documents and updates of it.  *)
Queryable(name, type, strings, pack, whole) ==
    [name |-> name, type |-> type, strings |-> strings, pack |-> pack, indexed |-> TRUE, whole |-> whole]
SearchedFields ==
    {Queryable(<<"id">>, "string", FALSE, FALSE, FALSE), Queryable(<<"tags">>, "array", TRUE, FALSE, FALSE),
     Queryable(<<"rows">>, "array", FALSE, TRUE, FALSE), Queryable(<<"free">>, "object", FALSE, FALSE, TRUE),
     Queryable(<<"o", "x">>, "string", FALSE, FALSE, FALSE), Queryable(<<"o", "when">>, "datetime", FALSE, TRUE, FALSE)}
Str(s) == <<"string", s>>
Arr(s) == <<"array", s>>
SearchedDocs ==
    {[id |-> Str("a"), tags |-> Arr(<<Str("t"), Null>>), o |-> ObjectWith([x |-> Str("b")])],
     [id |-> Str("b"), rows |-> Arr(<<Null>>), tags |-> Null, o |-> ObjectWith([x |-> Str("b"), when |-> Str("noon")])],
     [id |-> <<"number", 1>>, free |-> ObjectWith([x |-> Null]), o |-> ObjectWith([x |-> Str("a"), when |-> Null])],
     [o |-> ObjectWith([when |-> Str("noon")]), tags |-> Arr(<<>>)]}
Change(path, v, unset) == [set |-> <<path, v>>, unset |-> unset]
SearchedUpdates ==
    {Change(<<"o">>, ObjectWith([when |-> Str("dusk")]), <<>>), Change(<<"o">>, ObjectWith([x |-> Str("c")]), <<>>),
     Change(<<"o", "x">>, Null, <<>>), Change(<<"tags">>, Null, <<"o", "x">>),
     Change(<<"free">>, ObjectWith([x |-> Str("c")]), <<"id">>)}
IdPaths == {<<>>, <<"id">>, <<"o", "x">>}

(* Tokens, requests and configurations of the interceptors. *)
TokenOfKind(id, good, exp, ns, role) == [id |-> id, good |-> good, exp |-> exp, ns |-> ns, role |-> role]
SomeTokens ==
    {TokenOfKind("a", TRUE, 1, "n1", "reader"), TokenOfKind("b", FALSE, 9, "n2", ""), TokenOfKind("c", TRUE, 9, "admin", ""),
     TokenOfKind("d", TRUE, 9, "", "")}
AskFor(m, st, h, f, o, w) == [method |-> m, stream |-> st, head |-> h, fresh |-> f, origin |-> o, wait |-> w]
SomeAsks ==
    {AskFor("Read", TRUE, <<"bearer", "a">>, FALSE, "s1", 0), AskFor("Insert", FALSE, <<"bearer", "a">>, TRUE, "", 9),
     AskFor("Insert", FALSE, <<"bearer", "b">>, FALSE, "s1", 2), AskFor("BuildIndex", FALSE, <<"bearer", "c">>, FALSE, "", 0),
     AskFor("Count", FALSE, <<"bearer", "c">>, FALSE, "s2", 1), AskFor("Health", FALSE, <<>>, FALSE, "", 1),
     AskFor("Read", TRUE, <<"bearer", "d">>, FALSE, "", 0)}
ConfigOf(a, l, z, i) == [auth |-> a, logOnly |-> l, authz |-> z, isolation |-> i]
SomeConfigs == {ConfigOf(TRUE, FALSE, TRUE, TRUE), ConfigOf(TRUE, TRUE, FALSE, TRUE), ConfigOf(FALSE, FALSE, FALSE, FALSE)}
RoleMethods == [reader |-> {"Read", "Count"}, cluster_admin |-> {"Read", "Insert", "BuildIndex", "Count"}]
=============================================================================
