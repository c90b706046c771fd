------------------------------ MODULE Requests ------------------------------
(***************************************************************************)
(* The way of a request through the interceptors of a server to its        *)
(* handler (middleware.Get): metadata from the header, forwarding to the   *)
(* server that has the transaction, authentication with a cache of         *)
(* validated tokens, roles, the namespace, the deadline. A server handles  *)
(* many requests at a time; they share the token cache and the variable    *)
(* that holds the timeout.                                                 *)
(***************************************************************************)
EXTENDS Integers, Sequences, FiniteSets

CONSTANTS
    RqServers,   \* servers
    RqIds,       \* requests
    RqAsks,      \* what they ask: [method, stream, head, fresh, origin, wait]
    RqTokens,    \* tokens: [id, good, exp, ns, role]
    RqConfigs,   \* configurations: [auth, logOnly, authz, isolation]
    RqSkew,      \* TokenClockSkewDurationSec
    RqTtl,       \* TokenValidationCacheTTLSec
    RqCacheSize, \* TokenValidationCacheSize
    RqDefault, RqMaximum, RqLong,  \* the three timeouts
    RqAllowed,   \* role -> its methods
    MaxRqTime

VARIABLES
    rcfg,     \* the configuration
    rnow,     \* time
    rtokens,  \* server -> the cache: token -> the time it expires there
    rtimeout, \* server -> the variable timeout of timeoutUnaryServerInterceptor
    rreq,     \* request -> its state
    rdown     \* the servers a panic has ended

rqvars == <<rcfg, rnow, rtokens, rtimeout, rreq, rdown>>

ASSUME RqAssumption == RqDefault < RqMaximum /\ RqMaximum < RqLong

\* Methods that need no authentication, that may run long, that can be
\* forwarded, that need no namespace.
BypassAuthForTheseMethods == {"Health", "GetAccessToken"}
isLongRunningAPI(method) == method = "BuildIndex"
Forwardable == {"Insert", "Read"}
excludedMethods == {"Health"}

DefaultNamespace == "default"
Unknown == "unknown"
AdminNs == "admin"
NoToken == [id |-> "", good |-> FALSE, exp |-> 0, ns |-> "", role |-> ""]
Unborn == [pc |-> "none", at |-> "", ask |-> <<>>, ns |-> "", role |-> "", token |-> NoToken,
           seen |-> 0, set |-> FALSE, until |-> 0, ans |-> ""]
NoTokens == [t \in {} |-> 0]

RqInit ==
    /\ rcfg \in RqConfigs /\ rnow = 0 /\ rdown = {}
    /\ rtokens = [s \in RqServers |-> NoTokens]
    /\ rtimeout = [s \in RqServers |-> RqDefault]
    /\ rreq = [r \in RqIds |-> Unborn]

AtPc(r, pc) == rreq[r].pc = pc /\ rreq[r].at \notin rdown
Pass(r, pc) == rreq' = [rreq EXCEPT ![r].pc = pc]
Deny(r, a) == rreq' = [rreq EXCEPT ![r].pc = "done", ![r].ans = a]
TokenOf(ask) == IF Len(ask.head) = 2 /\ \E t \in RqTokens : t.id = ask.head[2]
                THEN CHOOSE t \in RqTokens : t.id = ask.head[2] ELSE NoToken

\* GetMetadataFromHeader and getMetadataFromToken: what the header says, not
\* yet validated.
HeaderNs(ask) ==
    IF ~rcfg.isolation \/ Len(ask.head) < 2 THEN DefaultNamespace
    ELSE IF TokenOf(ask) = NoToken THEN Unknown ELSE TokenOf(ask).ns
HeaderRole(ask) == IF ~rcfg.isolation \/ Len(ask.head) < 2 THEN "" ELSE TokenOf(ask).role

\* A request arrives: metadataExtractorUnary and metadataExtractorStream.
Extract(q, s, ask) == [q EXCEPT !.pc = "forward", !.at = s, !.ask = ask, !.ns = HeaderNs(ask), !.role = HeaderRole(ask)]
Receive(r, s, ask) ==
    /\ rreq[r] = Unborn /\ s \notin rdown
    /\ rreq' = [rreq EXCEPT ![r] = Extract(Unborn, s, ask)]
    /\ UNCHANGED <<rcfg, rnow, rtokens, rtimeout, rdown>>

\* forwarderUnaryServerInterceptor, forwarderStreamServerInterceptor: a
\* request of a transaction that another server began goes there, headers
\* and all; proxyDirector knows the messages of some methods only.
AwayFromHome(r) == rreq[r].ask.origin \notin {"", rreq[r].at}
Forward(r) ==
    /\ AtPc(r, "forward")
    /\ IF ~AwayFromHome(r) THEN Pass(r, "auth")
       ELSE IF rreq[r].ask.method \notin Forwardable \/ rreq[r].ask.origin \in rdown THEN Deny(r, "not forwarded")
       ELSE rreq' = [rreq EXCEPT ![r] = Extract(@, @.ask.origin, @.ask)]
    /\ UNCHANGED <<rcfg, rnow, rtokens, rtimeout, rdown>>

\* The other server cannot be reached.
ForwardFails(r) ==
    /\ AtPc(r, "forward") /\ AwayFromHome(r)
    /\ Deny(r, "not forwarded")
    /\ UNCHANGED <<rcfg, rnow, rtokens, rtimeout, rdown>>

-----------------------------------------------------------------------------
(* Authentication. *)

\* getCachedToken.
getCachedToken(s, t, fresh) == ~fresh /\ t.id \in DOMAIN rtokens[s] /\ rnow < rtokens[s][t.id]
\* One of the JWT validators accepts the token.
ValidateToken(t) == t.good /\ rnow <= t.exp + RqSkew
\* Mutant: the claim of a cached token is not looked at.
ClaimExpiredNever(t) == FALSE
\* The claim of a token, cached or just validated, has run out.
ClaimExpired(t) == t.exp + RqSkew < rnow

DropToken(cache, id) == [t \in DOMAIN cache \ {id} |-> cache[t]]
\* cache.Set; a full cache drops some entry first.
CachesWith(cache, id) ==
    LET kept == IF id \in DOMAIN cache \/ Cardinality(DOMAIN cache) < RqCacheSize THEN {cache}
                ELSE {DropToken(cache, out) : out \in DOMAIN cache}
    IN {[t \in DOMAIN c \cup {id} |-> IF t = id THEN rnow + RqTtl ELSE c[t]] : c \in kept}

\* A failed authentication: with LogOnly the request goes on without a
\* token, unless it is the expired claim, which hands on no context at all:
\* the next interceptor panics, outside of the recovery.
Fail(r, noContext) ==
    IF ~rcfg.logOnly THEN Deny(r, "unauthenticated") /\ rdown' = rdown
    ELSE IF noContext THEN Deny(r, "connection lost") /\ rdown' = rdown \cup {rreq[r].at}
    ELSE Pass(r, "authz") /\ rdown' = rdown

\* The header has the scheme bearer and a token.
AuthFromMD(ask) == Len(ask.head) = 2 /\ ask.head[1] = "bearer"

\* authFunction. A token that names no namespace is refused, and not cached.
Authenticate(r) ==
    /\ AtPc(r, "auth")
    /\ LET q == rreq[r]
           t == TokenOf(q.ask)
           hit == getCachedToken(q.at, t, q.ask.fresh)
       IN IF ~rcfg.auth \/ q.ask.method \in BypassAuthForTheseMethods
          THEN Pass(r, "authz") /\ UNCHANGED <<rtokens, rdown>>
          ELSE IF ~AuthFromMD(q.ask)
          THEN Fail(r, FALSE) /\ UNCHANGED rtokens
          ELSE IF ~hit /\ ~ValidateToken(t)
          THEN Fail(r, FALSE) /\ rtokens' = [rtokens EXCEPT ![q.at] = DropToken(@, t.id)]
          ELSE IF ClaimExpired(t)
          THEN Fail(r, TRUE) /\ rtokens' = [rtokens EXCEPT ![q.at] = DropToken(@, t.id)]
          ELSE IF t.ns = ""
          THEN Fail(r, FALSE) /\ UNCHANGED rtokens
          ELSE /\ \E c \in CachesWith(rtokens[q.at], t.id) : rtokens' = [rtokens EXCEPT ![q.at] = c]
               /\ rreq' = [rreq EXCEPT ![r].pc = "authz", ![r].token = t, ![r].seen = rnow]
               /\ rdown' = rdown
    /\ UNCHANGED <<rcfg, rnow, rtimeout>>

-----------------------------------------------------------------------------
(* Role, namespace, deadline. *)

\* getRole, isAuthorized: no role at all passes.
getRole(q) == IF q.ns = AdminNs THEN "cluster_admin" ELSE q.role
isAuthorized(method, role) == role \in DOMAIN RqAllowed /\ method \in RqAllowed[role]

\* authzUnaryServerInterceptor, authzStreamServerInterceptor.
Authorize(r) ==
    /\ AtPc(r, "authz")
    /\ IF rcfg.authz /\ getRole(rreq[r]) # "" /\ ~isAuthorized(rreq[r].ask.method, getRole(rreq[r]))
       THEN Deny(r, "permission denied") ELSE Pass(r, "namespace")
    /\ UNCHANGED <<rcfg, rnow, rtokens, rtimeout, rdown>>

\* AccessTokenNamespaceExtractor.Extract: a request without a token is in no namespace there is.
ExtractNamespace(q) == IF q.token = NoToken THEN Unknown ELSE q.token.ns

\* namespaceSetterUnaryServerInterceptor, namespaceSetterStreamServerInterceptor.
\* A stream has no deadline.
SetNamespace(r) ==
    /\ AtPc(r, "namespace")
    /\ LET q == rreq[r]
           asked == rcfg.isolation /\ (q.ask.stream \/ q.ask.method \notin excludedMethods)
       IN rreq' = [rreq EXCEPT ![r].pc = IF q.ask.stream THEN "handle" ELSE "timeout",
                               ![r].ns = IF asked THEN ExtractNamespace(q) ELSE DefaultNamespace]
    /\ UNCHANGED <<rcfg, rnow, rtokens, rtimeout, rdown>>

\* timeoutUnaryServerInterceptor up to the place where it uses the variable:
\* a deadline that is too far away counts as none. The variable belongs to
\* the server, not to the request.
OwnDeadline(ask) == ask.wait > 0 /\ (isLongRunningAPI(ask.method) \/ ask.wait <= RqMaximum)
SetTimeout(r) ==
    /\ AtPc(r, "timeout")
    /\ LET ask == rreq[r].ask
           s == rreq[r].at
       IN /\ rtimeout' = [rtimeout EXCEPT ![s] = IF OwnDeadline(ask) THEN @
                                                 ELSE IF isLongRunningAPI(ask.method) THEN RqLong
                                                 ELSE IF ask.wait > 0 THEN RqMaximum ELSE @]
          /\ rreq' = [rreq EXCEPT ![r].pc = IF OwnDeadline(ask) THEN "handle" ELSE "deadline",
                                  ![r].set = OwnDeadline(ask),
                                  ![r].until = IF ask.wait > 0 THEN rnow + ask.wait ELSE 0]
    /\ UNCHANGED <<rcfg, rnow, rtokens, rdown>>

\* context.WithDeadline: the earlier of the two.
SetDeadline(r) ==
    /\ AtPc(r, "deadline")
    /\ LET mine == rnow + rtimeout[rreq[r].at]
       IN rreq' = [rreq EXCEPT ![r].pc = "handle", ![r].set = TRUE,
                               ![r].until = IF @ > 0 /\ @ < mine THEN @ ELSE mine]
    /\ UNCHANGED <<rcfg, rnow, rtokens, rtimeout, rdown>>

\* The handler returns; past the deadline the answer is replaced.
InTime(r, a) == IF rreq[r].set /\ rreq[r].until <= rnow THEN "deadline exceeded" ELSE a
RunHandler(r) ==
    /\ AtPc(r, "handle")
    /\ Deny(r, InTime(r, "ok"))
    /\ UNCHANGED <<rcfg, rnow, rtokens, rtimeout, rdown>>

\* The handler panics: recoveryHandler.
HandlerPanics(r) ==
    /\ AtPc(r, "handle")
    /\ Deny(r, InTime(r, "internal"))
    /\ UNCHANGED <<rcfg, rnow, rtokens, rtimeout, rdown>>

PassTime ==
    /\ rnow < MaxRqTime /\ rnow' = rnow + 1
    /\ UNCHANGED <<rcfg, rtokens, rtimeout, rreq, rdown>>

RqNext ==
    \/ \E r \in RqIds, s \in RqServers, ask \in RqAsks : Receive(r, s, ask)
    \/ \E r \in RqIds :
         \/ Forward(r) \/ ForwardFails(r) \/ Authenticate(r) \/ Authorize(r) \/ SetNamespace(r)
         \/ SetTimeout(r) \/ SetDeadline(r) \/ RunHandler(r) \/ HandlerPanics(r)
    \/ PassTime

-----------------------------------------------------------------------------

\* Type invariant: requests are at a known place, the cache keeps to its size.
RqTypeOK ==
    /\ \A r \in RqIds : rreq[r].pc \in {"none", "forward", "auth", "authz", "namespace", "timeout", "deadline", "handle", "done"}
    /\ \A s \in RqServers : Cardinality(DOMAIN rtokens[s]) <= RqCacheSize
    /\ \A s \in RqServers : rtimeout[s] \in {RqDefault, RqMaximum, RqLong}

(***************************************************************************)
(* With authentication on, a request that reaches its handler has a token  *)
(* a validator accepted, at that moment or earlier on the same server, and *)
(* that had not run out when the request was let through, however long it  *)
(* stayed in the cache; it works in the namespace and with the role of     *)
(* that token (authFunction, getCachedToken, namespaceSetter, getRole).    *)
(***************************************************************************)
HandledWithToken ==
    \A r \in RqIds :
        LET q == rreq[r]
        IN q.pc = "handle" /\ rcfg.auth /\ ~rcfg.logOnly /\ q.ask.method \notin BypassAuthForTheseMethods =>
             /\ q.token = TokenOf(q.ask) /\ q.token.good
             /\ q.seen <= q.token.exp + RqSkew
             /\ rcfg.isolation => q.ns = q.token.ns
             /\ ~rcfg.isolation => q.ns = DefaultNamespace
             /\ rcfg.authz /\ rcfg.isolation /\ q.token.ns # AdminNs /\ q.token.role # "" =>
                  isAuthorized(q.ask.method, q.token.role)

(***************************************************************************)
(* A request of a transaction is handled by the server that began it, the  *)
(* only one that has its session, and nowhere else                         *)
(* (forwarderUnaryServerInterceptor).                                      *)
(***************************************************************************)
HandledAtHome ==
    \A r \in RqIds : rreq[r].pc = "handle" => rreq[r].ask.origin \in {"", rreq[r].at}

(***************************************************************************)
(* Every unary request has a deadline when it is handled. One the client   *)
(* asked for is kept if it is not too far away, and is never made later    *)
(* otherwise, whatever other requests did to the shared timeout            *)
(* (timeoutUnaryServerInterceptor).                                        *)
(***************************************************************************)
HandledInTime ==
    \A r \in RqIds :
        LET q == rreq[r]
        IN q.pc = "handle" /\ ~q.ask.stream =>
             /\ q.set /\ q.until > 0 /\ q.until <= rnow + RqLong + q.ask.wait
             /\ OwnDeadline(q.ask) => q.until <= rnow + q.ask.wait
             /\ ~OwnDeadline(q.ask) => q.until <= rnow + RqLong

\* A server goes down only where authentication is asked to log errors.
OnlyLoggingPanics == rdown # {} => rcfg.logOnly

=============================================================================
