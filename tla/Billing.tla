------------------------------ MODULE Billing -------------------------------
(***************************************************************************)
(* Usage accounting and the usage reporter (server/metrics/global_status,  *)
(* server/services/v1/billing).  Requests add what they used to the active *)
(* chunk of their tenant; the reporter takes the chunk away, makes one     *)
(* event per tenant and pushes the events in pages to the billing service, *)
(* opening an account for a tenant that has none.  Any call to the billing *)
(* service or to the metadata store may fail.                              *)
(*                                                                         *)
(* Bytes stand for what a request read and wrote, units for what is billed;*)
(* the counters that are recorded but never billed are left out.           *)
(***************************************************************************)
EXTENDS Naturals, FiniteSets, Sequences, FiniteSetsExt

CONSTANTS Billed,       \* namespaces with usage
          OtherServers, \* namespaces another server may have opened an account for
          DefaultNs,    \* the one that is never billed
          ByteCounts,   \* bytes a request may have read or written
          UnitSize,     \* bytes of a unit
          PageSize,     \* events of a page
          MaxRecorded,  \* bound on the requests
          MaxRounds     \* bound on the reporter's rounds

VARIABLES active,     \* GlobalStatus.activeChunk: the tenants with a status -> [bytes, search]
          flushed,    \* the chunk the reporter works on
          bpc,        \* where the reporter is: "idle", "refresh", "tenants", "push"
          todo,       \* tenants of the chunk not handled yet
          events,     \* the usage events of this round
          page,       \* pages pushed so far
          stored,     \* account integration of a namespace in the metadata store
          known,      \* the same in the tenants' cached metadata
          accounts,   \* accounts opened at the billing service: a count per namespace
          ingested,   \* events the billing service took, as a sequence
          recorded,   \* what requests used, per namespace: [bytes, search]
          dropped,    \* usage the reporter gave up on, per namespace
          round

bvars == <<active, flushed, bpc, todo, events, page, stored, known, accounts, ingested,
           recorded, dropped, round>>

NoUse == [bytes |-> 0, search |-> 0]
Plus(a, b) == [bytes |-> a.bytes + b.bytes, search |-> a.search + b.search]

BInit ==
    /\ active = [t \in {} |-> NoUse] /\ flushed = [t \in {} |-> NoUse]
    /\ bpc = "idle" /\ todo = {} /\ events = <<>> /\ page = 0
    /\ stored \in {[t \in Billed |-> IF t \in S THEN "id" ELSE "none"] : S \in {{}, OtherServers}}
    /\ known = [t \in Billed |-> "none"]
    /\ accounts = [t \in Billed |-> 0]
    /\ ingested = <<>>
    /\ recorded = [t \in Billed |-> NoUse] /\ dropped = [t \in Billed |-> NoUse]
    /\ round = 0

\* A started unit counts; read and written bytes are rounded each on their own.
getUnitsFromBytes(bytes) == (bytes + UnitSize - 1) \div UnitSize

\* RecordRequestToActiveChunk, at the end of a request.
RecordRequest(t, bytes, search) ==
    LET use == [bytes |-> bytes, search |-> search]
    IN /\ MapThenSumSet(LAMBDA u : recorded[u].search, Billed) < MaxRecorded
       /\ active' = [u \in DOMAIN active \cup {t} |->
                        Plus(IF u \in DOMAIN active THEN active[u] ELSE NoUse,
                             IF u = t THEN use ELSE NoUse)]
       /\ recorded' = [recorded EXCEPT ![t] = Plus(@, use)]
       /\ UNCHANGED <<flushed, bpc, todo, events, page, stored, known, accounts, ingested,
                      dropped, round>>

\* Mutant: the chunk handed out stays the active one.
NextChunkSame == active
\* Flush swaps the active chunk for a new one under the lock.
NextChunk == [t \in {} |-> NoUse]

\* pushUsage: the chunk is taken; an empty one ends the round.
Flush ==
    /\ bpc = "idle" /\ round < MaxRounds
    /\ round' = round + 1
    /\ flushed' = active
    /\ active' = NextChunk
    /\ todo' = DOMAIN active
    /\ events' = <<>> /\ page' = 0
    /\ bpc' = IF DOMAIN active = {} THEN "idle" ELSE "refresh"
    /\ UNCHANGED <<stored, known, accounts, ingested, recorded, dropped>>

\* The first loop: when one tenant of the chunk has no account the accounts of
\* all tenants without one are read again, unless that fails.
RefreshAccounts(fails) ==
    /\ bpc = "refresh"
    /\ bpc' = "tenants"
    /\ known' = IF fails \/ ~\E t \in DOMAIN flushed : known[t] = "none" THEN known
                ELSE [t \in Billed |-> IF known[t] = "none" THEN stored[t] ELSE known[t]]
    /\ UNCHANGED <<active, flushed, todo, events, page, stored, accounts, ingested, recorded,
                   dropped, round>>

Drop(S) == [t \in Billed |-> IF t \in S THEN Plus(dropped[t], flushed[t]) ELSE dropped[t]]

\* The event of a tenant: units of the whole chunk's bytes, and its search units.
Event(t) == [ns |-> t, at |-> round, units |-> getUnitsFromBytes(flushed[t].bytes),
             search |-> flushed[t].search]

\* UpdateNamespaceMetadata of a tenant: the store and the cached metadata.
Saved(t, v, saves) ==
    IF saves THEN /\ stored' = [stored EXCEPT ![t] = v] /\ known' = [known EXCEPT ![t] = v]
             ELSE UNCHANGED <<stored, known>>

\* The second loop, one tenant: the default namespace's integration is disabled,
\* a disabled one is skipped, a missing account is opened and given the default
\* plan (whose failure is only logged) and saved.  The event is sent whether or not
\* the account could be opened.
ReportTenant(t, creates, saves) ==
    /\ bpc = "tenants" /\ t \in todo
    /\ todo' = todo \ {t}
    /\ IF t = DefaultNs \/ known[t] = "off"
       THEN /\ IF t = DefaultNs THEN Saved(t, "off", saves) ELSE UNCHANGED <<stored, known>>
            /\ dropped' = Drop({t})
            /\ UNCHANGED <<accounts, events>>
       ELSE LET opens == known[t] = "none" /\ creates
            IN /\ accounts' = IF opens THEN [accounts EXCEPT ![t] = @ + 1] ELSE accounts
               /\ IF opens THEN Saved(t, "id", saves) ELSE UNCHANGED <<stored, known>>
               /\ events' = Append(events, Event(t))
               /\ UNCHANGED dropped
    /\ bpc' = IF todo' = {} THEN "push" ELSE bpc
    /\ UNCHANGED <<active, flushed, page, ingested, recorded, round>>

\* pushBillingEvents: the number of pages.
Pages(n) == (n \div PageSize) + (IF n % PageSize > 0 THEN 1 ELSE 0)

\* The events of a page.
Page(p) == SubSeq(events, p * PageSize + 1,
                  IF (p + 1) * PageSize > Len(events) THEN Len(events) ELSE (p + 1) * PageSize)

Unsent(p) == {events[i].ns : i \in (p * PageSize + 1) .. Len(events)}

\* One page; the first failure ends the round with the rest unsent.
PushPage(fails) ==
    /\ bpc = "push" /\ page < Pages(Len(events))
    /\ IF fails
       THEN /\ dropped' = Drop(Unsent(page))
            /\ bpc' = "idle" /\ flushed' = [t \in {} |-> NoUse] /\ events' = <<>> /\ page' = 0
            /\ UNCHANGED ingested
       ELSE /\ ingested' = ingested \o Page(page)
            /\ page' = page + 1
            /\ UNCHANGED <<dropped, bpc, flushed, events>>
    /\ UNCHANGED <<active, todo, stored, known, accounts, recorded, round>>

PushDone ==
    /\ bpc = "push" /\ page = Pages(Len(events))
    /\ bpc' = "idle" /\ flushed' = [t \in {} |-> NoUse] /\ events' = <<>> /\ page' = 0
    /\ UNCHANGED <<active, todo, stored, known, accounts, ingested, recorded, dropped, round>>

BNext ==
    \/ \E t \in Billed, b \in ByteCounts : RecordRequest(t, b, 1)
    \/ Flush
    \/ \E fails \in BOOLEAN : RefreshAccounts(fails) \/ PushPage(fails)
    \/ \E t \in Billed, creates, saves \in BOOLEAN : ReportTenant(t, creates, saves)
    \/ PushDone

BTypeOK ==
    /\ DOMAIN active \subseteq Billed /\ todo \subseteq DOMAIN flushed
    /\ bpc \in {"idle", "refresh", "tenants", "push"}
    /\ stored \in [Billed -> {"none", "id", "off"}]
    /\ known \in [Billed -> {"none", "id", "off"}]

(***************************************************************************)
(* What the accounting promises.                                           *)
(***************************************************************************)
Ingested(t) == {i \in 1 .. Len(ingested) : ingested[i].ns = t}
InChunk(chunk, t) == IF t \in DOMAIN chunk THEN chunk[t] ELSE NoUse

\* The part of the chunk in work that is still in the reporter's hands.
InHand(t) ==
    IF t \in todo \/ (t \in DOMAIN flushed /\ t \in Unsent(page)) THEN InChunk(flushed, t) ELSE NoUse

\* Every search unit a request used is counted once: it is in the active chunk,
\* in the chunk being reported, with the billing service, or it was given up on
\* because its namespace is not billed or a push failed (Flush, pushUsage,
\* pushBillingEvents).
UsageConserved ==
    \A t \in Billed :
        recorded[t].search = InChunk(active, t).search + InHand(t).search + dropped[t].search
                             + MapThenSumSet(LAMBDA i : ingested[i].search, Ingested(t))

\* No usage event is taken twice: an event's transaction id, which is made of the
\* namespace and the chunk's end, names one event (Build, pushBillingEvents).
EventsOnce ==
    \A i, j \in 1 .. Len(ingested) :
        i # j => <<ingested[i].ns, ingested[i].at>> # <<ingested[j].ns, ingested[j].at>>

\* What a namespace is billed for covers every byte it used and was not dropped,
\* and exceeds it by less than one unit per event: the units of a chunk come from
\* its bytes as a whole, not from those of each request (Flush).
UnitsFair ==
    \A t \in Billed :
        LET sent == Ingested(t)
            units == MapThenSumSet(LAMBDA i : ingested[i].units, sent)
            bytes == recorded[t].bytes - InChunk(active, t).bytes - InHand(t).bytes
                     - dropped[t].bytes
        IN bytes <= units * UnitSize /\ units * UnitSize < bytes + UnitSize * (1 + Cardinality(sent))
=============================================================================
