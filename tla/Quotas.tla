------------------------------- MODULE Quotas -------------------------------
(***************************************************************************)
(* The quotas of a node (server/quota and the quota interceptors): a       *)
(* request passes the storage quota, the node's rate limiter and the rate  *)
(* limiter of its namespace, in this order.  Limiters are token buckets    *)
(* that refill as time passes; a background loop adjusts the namespaces'   *)
(* limits to the cluster-wide rate, another one refreshes the cached sizes.*)
(*                                                                         *)
(* A namespace's limiter is made on first use by a load and a later store, *)
(* which two requests may interleave.  Reads and writes have limiters of   *)
(* their own of the same kind; the writes are modelled.                    *)
(***************************************************************************)
EXTENDS Integers, Sequences, FiniteSets, FiniteSetsExt

CONSTANTS QNs,           \* namespaces
          DefaultQNs,    \* the default namespace
          QReqs,         \* requests in flight, 1..n
          QSizes,        \* sizes of requests, in bytes
          QUnit,         \* bytes of a write unit
          NodeUnits,     \* units the node may serve per tick
          NsNodeUnits,   \* units of one namespace on one node
          NsUnits,       \* configured units of the namespaces that have their own limits
          NsDefault,     \* units of the others
          Hysteresis,
          StorageLimit,
          CurRates,      \* cluster-wide rates the metrics backend may report
          MaxTicks,
          MaxAsked       \* bound on the requests and the changes of a limit

VARIABLES nodeTokens,   \* tokens of the node's limiter
          lim,          \* limiters made for each namespace: [limit, tokens]; the last is stored
          qreq,         \* requests and the refresh loop: [st, ns, size, who, at: a limiter]
          cached,       \* storageState.Size
          size,         \* bytes stored
          ticks,
          asked,
          served,       \* bytes the node's limiter let through
          given         \* bytes each namespace's limiters let through

qtvars == <<nodeTokens, lim, qreq, cached, size, ticks, asked, served, given>>

\* A namespace's own limiter, and the one its human users go over the quota with.
LimiterNs == QNs \X {"", "op"}
NoReq == [st |-> "none"]

QtInit ==
    /\ nodeTokens = NodeUnits
    /\ lim = [n \in LimiterNs |-> <<>>]
    /\ qreq = [r \in QReqs |-> NoReq]
    /\ cached = [n \in QNs |-> 0] /\ size = [n \in QNs |-> 0]
    /\ ticks = 0 /\ asked = 0 /\ served = 0
    /\ given = [n \in LimiterNs |-> 0]

toUnits(bytes) == (bytes + QUnit - 1) \div QUnit

\* getLimits: the configured limit and twice the hysteresis; 5 % of it for the
\* human users' limiter, which is configured by no one.
getLimits(n) ==
    LET base == IF n[2] = "" /\ n[1] \in DOMAIN NsUnits THEN NsUnits[n[1]] ELSE NsDefault
        units == base + 2 * Hysteresis
    IN IF n[2] = "op" THEN (units * 5) \div 100 ELSE units

\* Mutant: the limit of the node is not applied to a new limiter.
NewLimitUncapped(n) == getLimits(n)
\* getState: a new limiter's rate and burst.
NewLimit(n) == IF getLimits(n) > NsNodeUnits THEN NsNodeUnits ELSE getLimits(n)

Blacklisted(n) == n[2] = "" /\ n[1] \in DOMAIN NsUnits /\ NsUnits[n[1]] <= 0
Unlimited(n) == n = <<DefaultQNs, "">> /\ DefaultQNs \notin DOMAIN NsUnits
\* checkMaxSize: more than the namespace may ever get on one node.
TooLarge(n, units) ==
    \/ units > NsNodeUnits
    \/ units > IF n[2] = "" /\ n[1] \in DOMAIN NsUnits THEN NsUnits[n[1]] ELSE NsDefault

\* storage.Allow lets the methods pass that free space.
skipStorageCheck(who) == who = "delete"
checkStorage(n, bytes) == cached[n] + bytes < StorageLimit
\* node.Allow: more than the node's units ever, or than there are tokens now.
NodeRefuses(units) == units > NodeUnits \/ units > nodeTokens

\* A request arrives: the storage quota, then the node's limiter takes its tokens.
Ask(r, n, bytes, who) ==
    /\ qreq[r].st = "none" /\ asked < MaxAsked
    /\ \A q \in QReqs : q < r => qreq[q].st # "none"
    /\ asked' = asked + 1
    /\ IF ~(skipStorageCheck(who) \/ checkStorage(n, bytes)) \/ NodeRefuses(toUnits(bytes))
       THEN UNCHANGED <<nodeTokens, qreq, served>>
       ELSE /\ nodeTokens' = nodeTokens - toUnits(bytes)
            /\ served' = served + bytes
            /\ qreq' = [qreq EXCEPT ![r] = [st |-> "check", ns |-> <<n, "">>, size |-> bytes,
                                            who |-> who, at |-> 0]]
    /\ UNCHANGED <<lim, cached, size, ticks, given>>

\* What a refusal by the namespace's limiter means: the human user is tried again
\* with the limiter of its own, everybody else is refused.
Refused(r) ==
    qreq' = [qreq EXCEPT ![r] = IF qreq[r].who = "human" /\ qreq[r].ns[2] = ""
                                THEN [@ EXCEPT !.st = "check", !.ns = <<@[1], "op">>] ELSE NoReq]

\* getState's load.
Loaded(q) == [q EXCEPT !.st = IF lim[q.ns] = <<>> THEN "make" ELSE "take", !.at = Len(lim[q.ns])]

\* allowOrWait of a request's namespace up to getState's load.
CheckNs(r) ==
    /\ qreq[r].st = "check"
    /\ LET n == qreq[r].ns
       IN \/ Unlimited(n) /\ qreq' = [qreq EXCEPT ![r].st = "write"]
          \/ ~Unlimited(n) /\ Blacklisted(n) /\ Refused(r)
          \/ /\ ~Unlimited(n) /\ ~Blacklisted(n)
             /\ qreq' = [qreq EXCEPT ![r] = IF TooLarge(n, toUnits(qreq[r].size)) THEN NoReq
                                            ELSE Loaded(@)]
    /\ UNCHANGED <<nodeTokens, lim, cached, size, ticks, asked, served, given>>

\* getState stores the limiter it made, whatever was stored meanwhile, and
\* returns its own.
MakeLimiter(r) ==
    /\ qreq[r].st = "make"
    /\ LET n == qreq[r].ns
       IN /\ lim' = [lim EXCEPT ![n] = Append(@, [limit |-> NewLimit(n), tokens |-> NewLimit(n)])]
          /\ qreq' = [qreq EXCEPT ![r].st = "take", ![r].at = Len(lim'[n])]
    /\ UNCHANGED <<nodeTokens, cached, size, ticks, asked, served, given>>

\* Limiter.Allow; a refusal cancels the reservation.
Take(r) ==
    /\ qreq[r].st = "take" /\ qreq[r].who # "loop"
    /\ LET n == qreq[r].ns
           units == toUnits(qreq[r].size)
       IN IF units <= lim[n][qreq[r].at].tokens
          THEN /\ lim' = [lim EXCEPT ![n][qreq[r].at].tokens = @ - units]
               /\ given' = [given EXCEPT ![n] = @ + qreq[r].size]
               /\ qreq' = [qreq EXCEPT ![r].st = "write"]
          ELSE Refused(r) /\ UNCHANGED <<lim, given>>
    /\ UNCHANGED <<nodeTokens, cached, size, ticks, asked, served>>

\* The handler stores the data, or deletes what there is.
Handle(r) ==
    /\ qreq[r].st = "write"
    /\ size' = [size EXCEPT ![qreq[r].ns[1]] = IF qreq[r].who = "delete" THEN 0 ELSE @ + qreq[r].size]
    /\ qreq' = [qreq EXCEPT ![r] = NoReq]
    /\ UNCHANGED <<nodeTokens, lim, cached, ticks, asked, served, given>>

\* Time passes and the buckets refill up to their bursts.
Tick ==
    /\ ticks < MaxTicks
    /\ ticks' = ticks + 1
    /\ nodeTokens' = NodeUnits
    /\ lim' = [n \in LimiterNs |-> [i \in DOMAIN lim[n] |->
                                  [lim[n][i] EXCEPT !.tokens = lim[n][i].limit]]]
    /\ UNCHANGED <<qreq, cached, size, asked, served, given>>

\* A size that cannot be read counts as zero.
getTenantSize(n, fails) == IF fails THEN 0 ELSE size[n]

\* The storage refresh loop, one namespace.
RefreshSize(n, fails) ==
    /\ cached[n] # getTenantSize(n, fails)
    /\ cached' = [cached EXCEPT ![n] = getTenantSize(n, fails)]
    /\ UNCHANGED <<nodeTokens, lim, qreq, size, ticks, asked, served, given>>

calcLimit(set, max, cur, maxNs) ==
    LET new == set * (maxNs \div (IF cur = 0 THEN 1 ELSE cur))
    IN IF new < 1 THEN 1 ELSE IF new > max THEN max ELSE new

\* The namespace refresh loop, one namespace: getState, up to its load.
LoadState(r, n) ==
    /\ qreq[r].st = "none" /\ asked < MaxAsked
    /\ \A q \in QReqs : q < r => qreq[q].st # "none"
    /\ \A q \in QReqs : qreq[q].st # "none" => qreq[q].who # "loop"
    /\ asked' = asked + 1
    /\ qreq' = [qreq EXCEPT ![r] = Loaded([st |-> "check", ns |-> <<n, "">>, size |-> 0,
                                           who |-> "loop", at |-> 0])]
    /\ UNCHANGED <<nodeTokens, lim, cached, size, ticks, served, given>>

\* Once the backend has answered updateLimits sets the rate and the burst of the
\* limiter the loop has; tokens above the new burst are gone.
UpdateLimits(r, cur) ==
    /\ qreq[r].st = "take" /\ qreq[r].who = "loop"
    /\ LET n == qreq[r].ns
           i == qreq[r].at
           new == calcLimit(lim[n][i].limit, NsNodeUnits, cur, getLimits(n))
       IN lim' = [lim EXCEPT ![n][i] = [limit |-> new, tokens |-> Min({@.tokens, new})]]
    /\ qreq' = [qreq EXCEPT ![r] = NoReq]
    /\ UNCHANGED <<nodeTokens, cached, size, ticks, asked, served, given>>

QtNext ==
    \/ \E r \in QReqs, n \in QNs, b \in QSizes, who \in {"app", "human", "delete"} :
            Ask(r, n, b, who)
    \/ \E r \in QReqs : CheckNs(r) \/ MakeLimiter(r) \/ Take(r) \/ Handle(r)
    \/ Tick
    \/ \E n \in QNs, fails \in BOOLEAN : RefreshSize(n, fails)
    \/ \E r \in QReqs, n \in QNs : LoadState(r, n)
    \/ \E r \in QReqs, cur \in CurRates : UpdateLimits(r, cur)

QtTypeOK ==
    /\ nodeTokens \in 0 .. NodeUnits
    /\ \A n \in LimiterNs : \A i \in DOMAIN lim[n] : lim[n][i].tokens \in 0 .. lim[n][i].limit
    /\ \A n \in QNs : cached[n] >= 0 /\ size[n] >= 0
    /\ \A r \in QReqs : qreq[r].st \in {"none", "check", "make", "take", "write"}

(***************************************************************************)
(* What the quotas promise.                                                *)
(***************************************************************************)

\* Whatever the namespaces and their limits, the node never lets more bytes
\* through than its units per tick are worth (node.Allow and toUnits).
NodeWithinLimit == served <= QUnit * NodeUnits * (ticks + 1)

\* A namespace has no more limiters on a node than requests came before the
\* first one was stored, and each of them lets no more through per tick than the
\* per-node maximum (getState, updateLimits).
NamespaceWithinLimit ==
    \A n \in LimiterNs :
        /\ Len(lim[n]) <= Cardinality(QReqs)
        /\ given[n] <= QUnit * NsNodeUnits * (ticks + 1) * Len(lim[n])

\* The adjustment never shuts a namespace off: whatever rates the backend
\* reports, in whatever order, a limiter that was made keeps a limit of at least
\* one unit, from which it can grow again (calcLimit).
LimitStaysPositive ==
    \A n \in QNs : \A i \in DOMAIN lim[<<n, "">>] : lim[<<n, "">>][i].limit >= 1
=============================================================================
