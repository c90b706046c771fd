---------------------------- MODULE AppKeysSteps ----------------------------
(***************************************************************************)
(* The inductive invariant of the application keys and of the tokens the   *)
(* store keeps for them, and how every step of AppKeys keeps it.           *)
(***************************************************************************)
EXTENDS AppKeys, TLAPS

\* A key and a request are records with these fields.
IsApp(x) == x = [by |-> x.by, projects |-> x.projects, secret |-> x.secret, name |-> x.name, granted |-> x.granted]
IsReq(x) == x = [op |-> x.op, pc |-> x.pc, user |-> x.user, app |-> x.app, project |-> x.project,
                 secret |-> x.secret, name |-> x.name, todo |-> x.todo, page |-> x.page,
                 pages |-> x.pages, quiet |-> x.quiet, ends |-> x.ends]

\* The shapes of the state, and that ids of keys are spent.
KeysShaped ==
    /\ apps = [a \in AkApps |-> apps[a]]
    /\ \A a \in AkApps : IsApp(apps[a]) /\ apps[a].secret \in Nat /\ (apps[a] # NoApp => a \in spent)
    /\ told = [a \in AkApps |-> told[a]]
    /\ \A a \in AkApps : told[a] = <<told[a][1], told[a][2]>>
    /\ akReq = [q \in AkReqs |-> akReq[q]]
    /\ \A q \in AkReqs : IsReq(akReq[q])
    /\ akNow \in Nat

\* The steps a request goes through.
PcOf(op) ==
    CASE op = "create" -> {"client", "grant", "cleanup", "signup"}
      [] op = "token" -> {"lookup", "expired", "ask", "keep"}
      [] op = "update" -> {"owner", "update", "read"}
      [] op \in {"delete", "rotate"} -> {"owner", "uncache", "delete", "rotate"}
      [] op = "clear" -> {"list", "each", "owner", "uncache", "delete"}
      [] op = "invite" -> {"next"}
      [] OTHER -> {""}

\* One key at most is being created: it is not there, or has no grant.
Creating(q) ==
    akReq[q].op = "create" =>
        /\ akReq[q].pc \in {"client", "signup"} => apps[akReq[q].app] = NoApp
        /\ akReq[q].pc \in {"grant", "cleanup"} => ~apps[akReq[q].app].granted
        /\ akReq[q].app \in AkApps
        /\ \A p \in AkReqs : akReq[p].op = "create" => p = q

\* A token made with secret s of key a: the provider takes the secret, or the token crossed its removal.
Made(a, s) ==
    /\ a \in AkApps /\ s \in Nat \ {0}
    /\ (apps[a].secret = s /\ apps[a].granted) \/ <<a, s>> \in crossed

\* A request that has got a token stores it before long.
Keeping(q) ==
    akReq[q].op = "token" =>
        /\ akReq[q].app \in AkApps /\ akReq[q].secret \in Nat \ {0}
        /\ akReq[q].pc = "keep" =>
              /\ Made(akReq[q].app, akReq[q].secret)
              /\ <<akReq[q].app, akReq[q].secret, akReq[q].ends>> \in issued
              /\ akReq[q].ends \in Nat /\ akNow + TokenLife <= akReq[q].ends + KeepDelay

\* A token of the store.
Kept(t) ==
    /\ Made(t[1], t[2])
    /\ <<t[1], t[2], t[4]>> \in issued
    /\ t[3] \in Nat /\ t[4] \in Nat /\ t[3] <= t[4] + KeepDelay

\* KeysAsTold, of one key.
AsTold(a) ==
    \/ apps[a] = NoApp
    \/ a \in unsure
    \/ /\ apps[a].granted
       /\ told[a][1] = apps[a].secret
       /\ told[a][2] = apps[a].name \/ \E r \in AkReqs : At(r, "update", "read") /\ akReq[r].app = a
    \/ ~apps[a].granted /\ \E r \in AkReqs : akReq[r].op = "create" /\ akReq[r].app = a

\* The inductive invariant of the keys.
KeysInv ==
    /\ KeysShaped
    /\ \A q \in AkReqs : akReq[q].pc \in PcOf(akReq[q].op) /\ Creating(q) /\ Keeping(q)
    /\ \A t \in keptTokens : Kept(t)
    /\ \A a \in AkApps : AsTold(a)

\* A token of the store that is still good is the provider's and has not ended: what Answered asks of it.
StoredTokensLast ==
    \A t \in keptTokens : StillGood(t) => <<t[1], t[2], t[4]>> \in issued /\ t[4] > akNow

\* The invariant says what the keys promise.
LEMMA KeysAreCorrect ==
    ASSUME KeysInv
    PROVE  /\ OldTokensCrossed /\ KeysAsTold
           /\ KeepDelay <= TokenMargin => StoredTokensLast
  <1>1. OldTokensCrossed
    <2>1. NoApp.secret = 0
      BY DEF NoApp
    <2> QED BY <2>1, Zenon DEF OldTokensCrossed, KeysInv, Kept, Made
  <1>2. KeysAsTold
    BY Zenon DEF KeysAsTold, LiveKeys, KeysInv, AsTold
  <1>3. ASSUME KeepDelay <= TokenMargin, NEW t \in keptTokens, StillGood(t)
        PROVE  <<t[1], t[2], t[4]>> \in issued /\ t[4] > akNow
    BY <1>3, AkNumbers DEF KeysInv, KeysShaped, Kept, StillGood
  <1> QED BY <1>1, <1>2, <1>3 DEF StoredTokensLast

\* The keys at the start are as their users know them, and nobody has asked anything.
LEMMA KeysStart ==
    ASSUME AkInit
    PROVE  KeysInv
  <1>1. /\ apps \in AkStart
        /\ spent = {a \in AkApps : apps[a] # NoApp}
        /\ keptTokens = {} /\ akReq = [r \in AkReqs |-> NoReq]
        /\ told = [a \in AkApps |-> <<apps[a].secret, apps[a].name>>] /\ akNow = 0
    BY DEF AkInit
  <1>2. /\ apps = [a \in AkApps |-> apps[a]]
        /\ \A a \in AkApps : \/ apps[a] = NoApp
                             \/ apps[a].secret \in 1 .. MaxSecret /\ apps[a] = App(apps[a].by, apps[a].projects, apps[a].secret)
    BY <1>1, AkStarts
  <1>3. ASSUME NEW a \in AkApps
        PROVE  IsApp(apps[a]) /\ apps[a].secret \in Nat /\ (apps[a] # NoApp => apps[a].granted)
    <2>1. CASE apps[a] = NoApp
      <3>1. IsApp(NoApp) /\ NoApp.secret \in Nat
        BY DEF NoApp, IsApp
      <3> QED BY <2>1, <3>1, Zenon
    <2>2. CASE apps[a].secret \in 1 .. MaxSecret /\ apps[a] = App(apps[a].by, apps[a].projects, apps[a].secret)
      <3> DEFINE x == App(apps[a].by, apps[a].projects, apps[a].secret)
      <3>1. IsApp(x) /\ x.granted = TRUE
        BY DEF App, IsApp
      <3>2. apps[a] = x /\ apps[a].secret \in Nat
        BY <2>2
      <3> HIDE DEF x
      <3> QED BY <3>1, <3>2, Zenon
    <2> QED BY <1>2, <2>1, <2>2
  <1>4. IsReq(NoReq) /\ NoReq.op = "idle" /\ NoReq.pc = ""
    BY DEF IsReq, NoReq
  <1>5. KeysShaped
    BY <1>1, <1>2, <1>3, <1>4, Zenon DEF KeysShaped
  <1>6. ASSUME NEW q \in AkReqs
        PROVE  akReq[q].pc \in PcOf(akReq[q].op) /\ Creating(q) /\ Keeping(q)
    BY <1>1, <1>4, Zenon DEF PcOf, Creating, Keeping
  <1>7. ASSUME NEW a \in AkApps
        PROVE  AsTold(a)
    <2>1. told[a][1] = apps[a].secret /\ told[a][2] = apps[a].name
      BY <1>1
    <2> QED BY <1>3, <2>1, Zenon DEF AsTold
  <1> QED BY <1>1, <1>5, <1>6, <1>7 DEF KeysInv

-----------------------------------------------------------------------------
\* What the invariant sees of a request stays.
SameReq(q) ==
    /\ akReq'[q].op = akReq[q].op /\ akReq'[q].pc = akReq[q].pc /\ akReq'[q].app = akReq[q].app
    /\ akReq'[q].secret = akReq[q].secret /\ akReq'[q].ends = akReq[q].ends

\* Only request r changes.
OnlyReq(r) ==
    /\ akReq' = [q \in AkReqs |-> akReq'[q]]
    /\ \A q \in AkReqs : IsReq(akReq'[q])
    /\ \A q \in AkReqs \ {r} : SameReq(q)

\* Request r ends.
Ends(r) == OnlyReq(r) /\ akReq'[r] = NoReq

\* Request r goes on to step pc.
GoesOn(r, pc) ==
    /\ OnlyReq(r)
    /\ akReq'[r].op = akReq[r].op /\ akReq'[r].pc = pc /\ akReq'[r].app = akReq[r].app
    /\ akReq'[r].secret = akReq[r].secret

\* A step that ends a request leaves the others.
LEMMA ReqEnds ==
    ASSUME KeysInv, NEW r \in AkReqs, Finishes(r) \/ FinishesAfterChange(r)
    PROVE  Ends(r)
  <1>1. akReq = [q \in AkReqs |-> akReq[q]] /\ \A q \in AkReqs : IsReq(akReq[q])
    BY DEF KeysInv, KeysShaped
  <1>2. IsReq(NoReq)
    BY DEF IsReq, NoReq
  <1>3. CASE Finishes(r)
    BY <1>1, <1>2, <1>3 DEF Finishes, Ends, OnlyReq, SameReq
  <1>4. CASE FinishesAfterChange(r)
    <2> DEFINE next == [akReq EXCEPT ![r] = NoReq]
    <2>1. akReq' = [q \in AkReqs |-> IF next[q] = NoReq THEN NoReq ELSE [next[q] EXCEPT !.quiet = @ /\ q = r]]
      BY <1>4 DEF FinishesAfterChange, Disturb
    <2>2. akReq'[r] = NoReq
      BY <1>1, <2>1
    <2>3. ASSUME NEW q \in AkReqs \ {r}
          PROVE  IsReq(akReq'[q]) /\ SameReq(q)
      <3>1. next[q] = akReq[q]
        BY <1>1
      <3>2. CASE akReq[q] = NoReq
        BY <1>2, <2>1, <3>1, <3>2 DEF SameReq
      <3>3. CASE akReq[q] # NoReq
        <4>1. akReq'[q] = [akReq[q] EXCEPT !.quiet = @ /\ q = r]
          BY <2>1, <3>1, <3>3
        <4> QED BY <1>1, <4>1 DEF SameReq, IsReq
      <3> QED BY <3>2, <3>3
    <2>4. akReq' = [q \in AkReqs |-> akReq'[q]]
      BY <2>1
    <2> QED BY <1>2, <2>2, <2>3, <2>4 DEF Ends, OnlyReq
  <1> QED BY <1>3, <1>4

\* A step after which a request goes on leaves the others.
LEMMA ReqGoes ==
    ASSUME KeysInv, NEW r \in AkReqs, NEW pc, Goes(r, pc)
    PROVE  GoesOn(r, pc)
  <1>1. akReq = [q \in AkReqs |-> akReq[q]] /\ \A q \in AkReqs : IsReq(akReq[q])
    BY DEF KeysInv, KeysShaped
  <1> QED BY <1>1 DEF Goes, GoesOn, OnlyReq, SameReq, IsReq

\* The same, when the keys have changed.
LEMMA ReqGoesAfterChange ==
    ASSUME KeysInv, NEW r \in AkReqs, NEW pc, akReq[r].op # "idle",
           akReq' = Disturb([akReq EXCEPT ![r].pc = pc], r)
    PROVE  GoesOn(r, pc)
  <1>1. akReq = [q \in AkReqs |-> akReq[q]] /\ \A q \in AkReqs : IsReq(akReq[q])
    BY DEF KeysInv, KeysShaped
  <1>2. IsReq(NoReq) /\ NoReq.op = "idle"
    BY DEF IsReq, NoReq
  <1> DEFINE next == [akReq EXCEPT ![r].pc = pc]
  <1>3. akReq' = [q \in AkReqs |-> IF next[q] = NoReq THEN NoReq ELSE [next[q] EXCEPT !.quiet = @ /\ q = r]]
    BY DEF Disturb
  <1>4. ASSUME NEW q \in AkReqs \ {r}
        PROVE  IsReq(akReq'[q]) /\ SameReq(q)
    <2>1. next[q] = akReq[q]
      BY <1>1
    <2>2. CASE akReq[q] = NoReq
      BY <1>2, <1>3, <2>1, <2>2, Zenon DEF SameReq
    <2>3. CASE akReq[q] # NoReq
      <3>1. akReq'[q] = [akReq[q] EXCEPT !.quiet = @ /\ q = r]
        BY <1>3, <2>1, <2>3, Zenon
      <3> QED BY <1>1, <3>1, Zenon DEF SameReq, IsReq
    <2> QED BY <2>2, <2>3
  <1>5. next[r] = [akReq[r] EXCEPT !.pc = pc] /\ IsReq(akReq[r])
    BY <1>1
  <1>6. /\ IsReq(next[r]) /\ next[r].op = akReq[r].op /\ next[r].pc = pc /\ next[r].app = akReq[r].app
        /\ next[r].secret = akReq[r].secret
    BY <1>5 DEF IsReq
  <1>7. akReq' = [q \in AkReqs |-> akReq'[q]]
    BY <1>3, Zenon
  <1>8. akReq'[r] = [next[r] EXCEPT !.quiet = @ /\ r = r]
    BY <1>2, <1>3, <1>6, Zenon
  <1> HIDE DEF next
  <1>9. /\ akReq'[r].op = akReq[r].op /\ akReq'[r].pc = pc /\ akReq'[r].app = akReq[r].app
        /\ akReq'[r].secret = akReq[r].secret /\ IsReq(akReq'[r])
    BY <1>6, <1>8, Zenon DEF IsReq
  <1> QED BY <1>4, <1>7, <1>9, Zenon DEF GoesOn, OnlyReq

-----------------------------------------------------------------------------
\* Tokens whose key stays, or whose secret has crossed, are sound after the step.
LEMMA MadeKept ==
    ASSUME NEW a, NEW s, Made(a, s), apps'[a] = apps[a], crossed \subseteq crossed'
    PROVE  Made(a, s)'
  BY Zenon DEF Made

\* What a key's user was told still holds when the key stays and no request that excuses it ended.
LEMMA ToldStays ==
    ASSUME KeysInv, NEW r \in AkReqs, OnlyReq(r), NEW a \in AkApps, AsTold(a),
           apps'[a] = apps[a], told'[a] = told[a], unsure \subseteq unsure',
           akReq[r].app # a \/ (akReq[r].op # "create" /\ ~At(r, "update", "read"))
    PROVE  AsTold(a)'
  <1>1. ASSUME NEW q \in AkReqs, At(q, "update", "read"), akReq[q].app = a
        PROVE  At(q, "update", "read")' /\ akReq'[q].app = a
    BY <1>1, Zenon DEF OnlyReq, SameReq, At
  <1>2. ASSUME NEW q \in AkReqs, akReq[q].op = "create", akReq[q].app = a
        PROVE  akReq'[q].op = "create" /\ akReq'[q].app = a
    BY <1>2, Zenon DEF OnlyReq, SameReq
  <1> QED BY <1>1, <1>2, Zenon DEF AsTold

\* A request that was keeping a token, or creating a key, and is not the one that moves.
LEMMA OtherReq ==
    ASSUME KeysInv, NEW r \in AkReqs, OnlyReq(r), NEW q \in AkReqs \ {r}, Creating(r)',
           akReq[q].op = "create" =>
               /\ apps[akReq[q].app] = NoApp => apps'[akReq[q].app] = NoApp
               /\ ~apps[akReq[q].app].granted => ~apps'[akReq[q].app].granted,
           \A a, s : At(q, "token", "keep") /\ a = akReq[q].app /\ s = akReq[q].secret => Made(a, s)',
           issued \subseteq issued', akNow' = akNow
    PROVE  /\ akReq'[q].pc \in PcOf(akReq'[q].op) /\ Creating(q)' /\ Keeping(q)'
  <1>1. SameReq(q) /\ akReq[q].pc \in PcOf(akReq[q].op) /\ Creating(q) /\ Keeping(q)
    BY DEF KeysInv, OnlyReq
  <1>2. akReq'[q].pc \in PcOf(akReq'[q].op)
    BY <1>1, Zenon DEF SameReq
  <1>3. ASSUME NEW p \in AkReqs, akReq'[p].op = "create", akReq'[q].op = "create"
        PROVE  p = q
    <2>1. CASE p = r
      BY <1>3, <2>1, Zenon DEF Creating
    <2>2. CASE p # r
      <3>1. akReq[p].op = "create" /\ akReq[q].op = "create"
        BY <1>1, <1>3, <2>2, Zenon DEF OnlyReq, SameReq
      <3> QED BY <1>1, <3>1, Zenon DEF Creating
    <2> QED BY <2>1, <2>2
  <1>4. Creating(q)'
    BY <1>1, <1>3, Zenon DEF Creating, SameReq
  <1>5. Keeping(q)'
    <2>1. ASSUME At(q, "token", "keep")
          PROVE  Made(akReq[q].app, akReq[q].secret)'
      BY <1>1, <2>1, Zenon DEF SameReq
    <2> QED BY <1>1, <2>1, Zenon DEF Keeping, SameReq, At
  <1> QED BY <1>2, <1>4, <1>5

\* A step of a request that leaves the keys alone.
LEMMA QuietKeys ==
    ASSUME KeysInv, NEW r \in AkReqs, OnlyReq(r),
           UNCHANGED <<spent, apps, told, akNow, crossed, unsure>>, issued \subseteq issued',
           akReq[r].op # "create", ~At(r, "update", "read"),
           akReq'[r].pc \in PcOf(akReq'[r].op), Creating(r)', Keeping(r)',
           \A t \in keptTokens' : t \in keptTokens \/ Kept(t)'
    PROVE  KeysInv'
  <1>1. KeysShaped'
    BY DEF KeysInv, KeysShaped, OnlyReq
  <1>2. ASSUME NEW q \in AkReqs \ {r}
        PROVE  akReq'[q].pc \in PcOf(akReq'[q].op) /\ Creating(q)' /\ Keeping(q)'
    <2>1. ASSUME NEW a, NEW s, At(q, "token", "keep"), a = akReq[q].app, s = akReq[q].secret
          PROVE  Made(a, s)'
      <3>1. Made(a, s)
        BY <2>1, Zenon DEF KeysInv, Keeping, At
      <3> QED BY <3>1, MadeKept, Zenon
    <2> QED BY <2>1, OtherReq, Zenon
  <1>3. ASSUME NEW t \in keptTokens'
        PROVE  Kept(t)'
    <2>1. CASE t \in keptTokens
      <3>1. Kept(t)
        BY <2>1 DEF KeysInv
      <3>2. Made(t[1], t[2])'
        BY <3>1, MadeKept, Zenon DEF Kept
      <3> QED BY <3>1, <3>2, Zenon DEF Kept
    <2> QED BY <1>3, <2>1
  <1>4. ASSUME NEW a \in AkApps
        PROVE  AsTold(a)'
    <2>1. AsTold(a)
      BY DEF KeysInv
    <2> QED BY <2>1, ToldStays, Zenon
  <1> QED BY <1>1, <1>2, <1>3, <1>4 DEF KeysInv

\* A step of a request that changes its key, or what is known of it.
LEMMA KeyChanges ==
    ASSUME KeysInv, NEW r \in AkReqs, NEW b, b = akReq[r].app, OnlyReq(r), KeysShaped',
           UNCHANGED <<keptTokens, akNow, issued>>, crossed \subseteq crossed', unsure \subseteq unsure',
           \A a \in AkApps \ {b} : apps'[a] = apps[a] /\ told'[a] = told[a],
           b \in AkApps => AsTold(b)',
           \A s \in Nat \ {0} : Made(b, s)
               /\ <<b, s>> \in LeftBehind(b) \cup OnTheWay(b)
               => Made(b, s)',
           akReq'[r].op # "token", akReq'[r].pc \in PcOf(akReq'[r].op), Creating(r)',
           \/ akReq[r].op = "create"
           \/ /\ apps[b] = NoApp => apps'[b] = NoApp
              /\ ~apps[b].granted => ~apps'[b].granted
    PROVE  KeysInv'
  <1>1. ASSUME NEW s, Made(b, s), <<b, s>> \in LeftBehind(b) \cup OnTheWay(b)
        PROVE  Made(b, s)'
    BY <1>1, Zenon DEF Made
  <1>2. ASSUME NEW q \in AkReqs \ {r}
        PROVE  akReq'[q].pc \in PcOf(akReq'[q].op) /\ Creating(q)' /\ Keeping(q)'
    <2>1. ASSUME NEW a, NEW s, At(q, "token", "keep"), a = akReq[q].app, s = akReq[q].secret
          PROVE  Made(a, s)'
      <3>1. Made(a, s)
        BY <2>1, Zenon DEF KeysInv, Keeping, At
      <3>2. CASE a = b
        <4>1. <<b, s>> \in OnTheWay(b)
          BY <2>1, <3>2, Zenon DEF OnTheWay, At
        <4> QED BY <1>1, <3>1, <3>2, <4>1, Zenon
      <3>3. CASE a # b
        <4>1. apps'[a] = apps[a]
          BY <3>1, <3>3, Zenon DEF Made
        <4> QED BY <3>1, <4>1, MadeKept, Zenon
      <3> QED BY <3>2, <3>3
    <2>2. ASSUME akReq[q].op = "create"
          PROVE  /\ apps[akReq[q].app] = NoApp => apps'[akReq[q].app] = NoApp
                 /\ ~apps[akReq[q].app].granted => ~apps'[akReq[q].app].granted
      <3>1. akReq[q].app \in AkApps /\ akReq[r].op # "create"
        BY <2>2, Zenon DEF KeysInv, Creating
      <3> QED BY <3>1, Zenon
    <2> QED BY <2>1, <2>2, OtherReq, Zenon
  <1>3. Keeping(r)'
    BY DEF Keeping
  <1>4. ASSUME NEW t \in keptTokens
        PROVE  Kept(t)'
    <2>1. Kept(t)
      BY DEF KeysInv
    <2>2. Made(t[1], t[2])'
      <3>1. Made(t[1], t[2])
        BY <2>1 DEF Kept
      <3>2. CASE t[1] = b
        <4>1. <<b, t[2]>> \in LeftBehind(b)
          BY <3>2 DEF LeftBehind
        <4> QED BY <1>1, <3>1, <3>2, <4>1, Zenon
      <3>3. CASE t[1] # b
        <4>1. apps'[t[1]] = apps[t[1]]
          BY <3>1, <3>3, Zenon DEF Made
        <4> QED BY <3>1, <4>1, MadeKept, Zenon
      <3> QED BY <3>2, <3>3
    <2> QED BY <2>1, <2>2, Zenon DEF Kept
  <1>5. ASSUME NEW a \in AkApps
        PROVE  AsTold(a)'
    <2>1. AsTold(a)
      BY DEF KeysInv
    <2>2. CASE a # b
      BY <2>1, <2>2, ToldStays, Zenon
    <2> QED BY <2>2, Zenon
  <1> QED BY <1>2, <1>3, <1>4, <1>5 DEF KeysInv

\* A request that ended is none of those the invariant speaks of.
LEMMA EndedReq ==
    ASSUME NEW r \in AkReqs, Ends(r)
    PROVE  /\ akReq'[r].op = "idle" /\ akReq'[r].pc \in PcOf(akReq'[r].op)
           /\ Creating(r)' /\ Keeping(r)' /\ OnlyReq(r)
  <1>1. akReq'[r].op = "idle" /\ akReq'[r].pc = ""
    <2>1. NoReq.op = "idle" /\ NoReq.pc = ""
      BY DEF NoReq
    <2> QED BY <2>1, Zenon DEF Ends
  <1> QED BY <1>1, Zenon DEF PcOf, Creating, Keeping, Ends

\* A request that ends and leaves the keys alone.
LEMMA QuietEnd ==
    ASSUME KeysInv, NEW r \in AkReqs, Finishes(r),
           UNCHANGED <<spent, apps, told, akNow, crossed, unsure>>, issued \subseteq issued',
           akReq[r].op # "create", ~At(r, "update", "read"),
           \A t \in keptTokens' : t \in keptTokens \/ Kept(t)'
    PROVE  KeysInv'
  <1>1. Ends(r)
    BY ReqEnds
  <1> QED BY <1>1, EndedReq, QuietKeys, Zenon

\* A request that goes on and leaves the keys alone, neither creating a key nor keeping a token.
LEMMA QuietGo ==
    ASSUME KeysInv, NEW r \in AkReqs, NEW pc, Goes(r, pc), pc # "keep",
           UNCHANGED <<spent, apps, told, akNow, crossed, unsure, issued>>,
           akReq[r].op # "create", ~At(r, "update", "read"), pc \in PcOf(akReq[r].op),
           keptTokens' \subseteq keptTokens
    PROVE  KeysInv'
  <1>1. GoesOn(r, pc)
    BY ReqGoes
  <1>2. OnlyReq(r) /\ akReq'[r].pc \in PcOf(akReq'[r].op)
    BY <1>1, Zenon DEF GoesOn
  <1>3. Creating(r)' /\ Keeping(r)'
    <2>1. Keeping(r)
      BY DEF KeysInv
    <2> QED BY <1>1, <2>1, Zenon DEF GoesOn, Creating, Keeping
  <1>4. \A t \in keptTokens' : t \in keptTokens \/ Kept(t)'
    OBVIOUS
  <1>5. issued \subseteq issued'
    OBVIOUS
  <1> QED BY <1>2, <1>3, <1>4, <1>5, QuietKeys, Zenon

\* A request arrives.
LEMMA ArriveKeeps ==
    ASSUME KeysInv, NEW r \in AkReqs, Arrive(r)
    PROVE  KeysInv'
  <1>1. /\ akReq[r] = NoReq
        /\ UNCHANGED <<spent, apps, told, akNow, crossed, unsure, issued, keptTokens>>
    BY DEF Arrive
  <1>2. PICK op \in AskedOps, u \in AkUsers, a \in AkApps, p \in AkProjects \cup {Global},
             s \in 1 .. MaxSecret, n \in NewNames :
                 MayAsk(op, u, a, p, s, n) /\ akReq' = [akReq EXCEPT ![r] = NewReq(op, u, a, p, s, n)]
    BY Zenon DEF Arrive
  <1>3. /\ akReq = [q \in AkReqs |-> akReq[q]]
        /\ \A q \in AkReqs : IsReq(akReq[q])
        /\ \A x \in AkApps : apps[x] # NoApp => x \in spent
    BY DEF KeysInv, KeysShaped
  <1>4. /\ IsReq(akReq'[r]) /\ akReq'[r].op = op /\ akReq'[r].pc = FirstStep(op)
        /\ akReq'[r].app = a /\ akReq'[r].secret = s
    BY <1>2, <1>3, Zenon DEF NewReq, NoReq, IsReq
  <1>5. OnlyReq(r)
    <2>1. \A q \in AkReqs \ {r} : akReq'[q] = akReq[q]
      BY <1>2, <1>3
    <2>2. akReq' = [q \in AkReqs |-> akReq'[q]]
      BY <1>2, <1>3
    <2> QED BY <1>3, <1>4, <2>1, <2>2 DEF OnlyReq, SameReq
  <1>6. FirstStep(op) \in PcOf(op) /\ FirstStep(op) \notin {"grant", "cleanup", "keep"}
    BY Zenon DEF AskedOps, FirstStep, PcOf
  <1>7. Creating(r)'
    <2>1. ASSUME op = "create"
          PROVE  apps'[a] = NoApp /\ \A q \in AkReqs : akReq'[q].op = "create" => q = r
      BY <1>1, <1>2, <1>3, <1>5, <2>1 DEF MayAsk, OnlyReq, SameReq
    <2> QED BY <1>4, <1>6, <2>1 DEF Creating
  <1>8. Keeping(r)'
    BY <1>4, <1>6 DEF Keeping
  <1>9. akReq[r].op = "idle" /\ akReq[r].pc = ""
    <2>1. NoReq.op = "idle" /\ NoReq.pc = ""
      BY DEF NoReq
    <2> QED BY <1>1, <2>1, Zenon
  <1>10. akReq[r].op # "create" /\ ~At(r, "update", "read") /\ akReq'[r].pc \in PcOf(akReq'[r].op)
    BY <1>4, <1>6, <1>9, Zenon DEF At
  <1>11. issued \subseteq issued' /\ \A t \in keptTokens' : t \in keptTokens \/ Kept(t)'
    BY <1>1
  <1> QED BY <1>1, <1>5, <1>7, <1>8, <1>10, <1>11, QuietKeys

\* What a request at one of these steps is about.
LEMMA OpOfPc ==
    ASSUME KeysInv, NEW r \in AkReqs
    PROVE  /\ akReq[r].pc \in {"owner", "uncache", "delete", "rotate"} =>
                  akReq[r].op \in {"delete", "rotate", "update", "clear"}
           /\ akReq[r].pc \in {"uncache", "delete", "rotate"} => akReq[r].op # "update"
  <1>1. akReq[r].pc \in PcOf(akReq[r].op)
    BY DEF KeysInv
  <1> QED BY <1>1, Zenon DEF PcOf

\* Checking the owner of a key, deleting its kept tokens, and listing and walking the keys of a project.
LEMMA WalkKeeps ==
    ASSUME KeysInv, NEW r \in AkReqs,
           validateOwnership(r) \/ deleteApplication(r) \/ ListClients(r) \/ ListUsers(r) \/ EachListed(r)
    PROVE  KeysInv'
  <1>1. UNCHANGED <<spent, apps, told, akNow, crossed, unsure, issued>> /\ keptTokens' \subseteq keptTokens
    BY Zenon DEF validateOwnership, deleteApplication, ListClients, ListUsers, EachListed
  <1>2. issued \subseteq issued' /\ \A t \in keptTokens' : t \in keptTokens \/ Kept(t)'
    BY <1>1
  <1>3. akReq[r].op # "create" /\ ~At(r, "update", "read")
    BY OpOfPc, Zenon DEF validateOwnership, deleteApplication, ListClients, ListUsers, EachListed, At
  <1>4. CASE Finishes(r)
    BY <1>1, <1>2, <1>3, <1>4, QuietEnd
  <1>5. CASE validateOwnership(r) /\ ~Finishes(r)
    <2> DEFINE pc == IF akReq[r].op = "update" THEN "update" ELSE "uncache"
    <2>1. Goes(r, pc) /\ akReq[r].pc = "owner"
      BY <1>5 DEF validateOwnership
    <2>2. pc # "keep" /\ pc \in PcOf(akReq[r].op)
      BY <2>1, OpOfPc, Zenon DEF PcOf
    <2> QED BY <1>1, <1>3, <2>1, <2>2, QuietGo
  <1>6. CASE deleteApplication(r) /\ ~Finishes(r)
    <2> DEFINE pc == IF akReq[r].op = "rotate" THEN "rotate" ELSE "delete"
    <2>1. Goes(r, pc) /\ akReq[r].pc = "uncache"
      BY <1>6 DEF deleteApplication
    <2>2. pc # "keep" /\ pc \in PcOf(akReq[r].op)
      BY <2>1, OpOfPc, Zenon DEF PcOf
    <2> QED BY <1>1, <1>3, <2>1, <2>2, QuietGo
  <1>7. CASE (ListClients(r) \/ ListUsers(r) \/ EachListed(r)) /\ ~Finishes(r)
    <2>1. /\ akReq = [q \in AkReqs |-> akReq[q]]
          /\ \A q \in AkReqs : IsReq(akReq[q])
      BY DEF KeysInv, KeysShaped
    <2>2. akReq[r].op = "clear" /\ akReq[r].pc \in {"list", "each"}
      BY <1>7, Zenon DEF ListClients, ListUsers, EachListed, At
    <2>3. /\ \A q \in AkReqs \ {r} : akReq'[q] = akReq[q]
          /\ akReq' = [q \in AkReqs |-> akReq'[q]]
          /\ IsReq(akReq'[r]) /\ akReq'[r].op = "clear"
          /\ akReq'[r].pc \in {"list", "each", "owner", "delete"}
      <3>1. CASE ListClients(r)
        <4> DEFINE todo == akReq[r].todo \o Listed(r, Page(akReq[r].page))
                   page == akReq[r].page + 1
                   pages == IF akReq[r].page = 0 THEN TotalPages ELSE akReq[r].pages
        <4>1. \/ akReq' = [akReq EXCEPT ![r].pc = "each"]
              \/ akReq' = [akReq EXCEPT ![r].todo = todo, ![r].page = page, ![r].pages = pages]
          BY <1>7, <3>1, Zenon DEF ListClients
        <4> HIDE DEF todo, page, pages
        <4> QED BY <2>1, <2>2, <4>1 DEF IsReq
      <3>2. CASE ListUsers(r)
        BY <1>7, <2>1, <2>2, <3>2 DEF ListUsers, IsReq
      <3>3. CASE EachListed(r)
        BY <1>7, <2>1, <2>2, <3>3 DEF EachListed, IsReq
      <3> QED BY <1>7, <3>1, <3>2, <3>3
    <2>4. OnlyReq(r) /\ akReq'[r].pc \in PcOf(akReq'[r].op) /\ Creating(r)' /\ Keeping(r)'
      BY <2>1, <2>3 DEF OnlyReq, SameReq, PcOf, Creating, Keeping
    <2> QED BY <1>1, <1>2, <1>3, <2>4, QuietKeys
  <1> QED BY <1>4, <1>5, <1>6, <1>7

\* A token request finds a token, asks for one and stores it.
LEMMA TokenKeeps ==
    ASSUME KeysInv, NEW r \in AkReqs,
           \/ Lookup(r) \/ deleteApplicationMetadata(r) \/ AskAuth0(r) \/ AskGotrue(r)
           \/ insertApplicationMetadata(r)
    PROVE  KeysInv'
  <1>1. akReq[r].op = "token" /\ UNCHANGED <<spent, apps, told, akNow, crossed, unsure>>
    BY DEF Lookup, deleteApplicationMetadata, AskAuth0, AskGotrue, insertApplicationMetadata, At
  <1>2. akReq[r].op # "create" /\ ~At(r, "update", "read")
    BY <1>1 DEF At
  <1>3. Keeping(r)
    BY DEF KeysInv
  <1>4. issued \subseteq issued'
    BY DEF Lookup, deleteApplicationMetadata, AskAuth0, AskGotrue, insertApplicationMetadata, TokenMade
  <1>5. CASE Lookup(r) \/ deleteApplicationMetadata(r)
    <2>1. keptTokens' \subseteq keptTokens /\ issued' = issued
      BY <1>5 DEF Lookup, deleteApplicationMetadata
    <2>2. \A t \in keptTokens' : t \in keptTokens \/ Kept(t)'
      BY <2>1
    <2>3. CASE Finishes(r)
      BY <1>1, <1>2, <1>4, <2>2, <2>3, QuietEnd
    <2>4. ASSUME NEW pc \in {"expired", "ask"}, Goes(r, pc)
          PROVE  KeysInv'
      <3>1. pc # "keep" /\ pc \in PcOf(akReq[r].op)
        BY <1>1 DEF PcOf
      <3> QED BY <1>1, <1>2, <2>1, <2>4, <3>1, QuietGo
    <2> QED BY <1>5, <2>3, <2>4 DEF Lookup, deleteApplicationMetadata
  <1>6. CASE (AskAuth0(r) \/ AskGotrue(r)) /\ Finishes(r)
    <2>1. keptTokens' = keptTokens
      BY <1>6 DEF AskAuth0, AskGotrue
    <2> QED BY <1>1, <1>2, <1>4, <1>6, <2>1, QuietEnd
  <1>7. CASE AskAuth0(r) /\ ~Finishes(r)
    <2>1. /\ TokenMade(r) /\ keptTokens' = keptTokens
          /\ akReq' = [akReq EXCEPT ![r].pc = "keep", ![r].ends = akNow + TokenLife]
      BY <1>7 DEF AskAuth0
    <2>2. /\ akReq = [q \in AkReqs |-> akReq[q]]
          /\ \A q \in AkReqs : IsReq(akReq[q])
          /\ akNow \in Nat
      BY DEF KeysInv, KeysShaped
    <2>3. /\ \A q \in AkReqs \ {r} : akReq'[q] = akReq[q]
          /\ akReq' = [q \in AkReqs |-> akReq'[q]]
          /\ IsReq(akReq'[r]) /\ akReq'[r].op = "token" /\ akReq'[r].pc = "keep"
          /\ akReq'[r].app = akReq[r].app /\ akReq'[r].secret = akReq[r].secret
          /\ akReq'[r].ends = akNow + TokenLife
      <3> DEFINE ends == akNow + TokenLife
      <3>1. akReq' = [akReq EXCEPT ![r].pc = "keep", ![r].ends = ends]
        BY <2>1
      <3> HIDE DEF ends
      <3>2. akReq'[r] = [akReq[r] EXCEPT !.pc = "keep", !.ends = ends] /\ IsReq(akReq[r])
        BY <2>2, <3>1
      <3>3. /\ IsReq(akReq'[r]) /\ akReq'[r].op = "token" /\ akReq'[r].pc = "keep"
            /\ akReq'[r].app = akReq[r].app /\ akReq'[r].secret = akReq[r].secret /\ akReq'[r].ends = ends
        BY <1>1, <3>2, Zenon DEF IsReq
      <3>4. (\A q \in AkReqs \ {r} : akReq'[q] = akReq[q]) /\ akReq' = [q \in AkReqs |-> akReq'[q]]
        BY <2>2, <3>1
      <3> QED BY <3>3, <3>4 DEF ends
    <2>4. OnlyReq(r) /\ akReq'[r].pc \in PcOf(akReq'[r].op) /\ Creating(r)'
      BY <2>2, <2>3 DEF OnlyReq, SameReq, PcOf, Creating
    <2>5. /\ akReq[r].app \in AkApps /\ akReq[r].secret \in Nat \ {0}
          /\ apps[akReq[r].app].granted /\ apps[akReq[r].app].secret = akReq[r].secret
          /\ <<akReq[r].app, akReq[r].secret, akNow + TokenLife>> \in issued'
      <3>1. akReq[r].app \in AkApps /\ akReq[r].secret \in Nat \ {0}
        BY <1>1, <1>3, Zenon DEF Keeping
      <3>2. apps[akReq[r].app].granted /\ apps[akReq[r].app].secret = akReq[r].secret
        BY <2>1, Zenon DEF TokenMade
      <3>3. <<akReq[r].app, akReq[r].secret, akNow + TokenLife>> \in issued'
        BY <2>1 DEF TokenMade
      <3> QED BY <3>1, <3>2, <3>3, Zenon
    <2>6. Made(akReq[r].app, akReq[r].secret)'
      BY <1>1, <2>3, <2>5, Zenon DEF Made
    <2>7. akNow + TokenLife \in Nat /\ akNow' + TokenLife <= (akNow + TokenLife) + KeepDelay
      BY <1>1, <2>2, AkNumbers
    <2>8. Keeping(r)'
      BY <2>3, <2>5, <2>6, <2>7, Zenon DEF Keeping
    <2>9. \A t \in keptTokens' : t \in keptTokens \/ Kept(t)'
      BY <2>1
    <2> QED BY <1>1, <1>2, <1>4, <2>4, <2>8, <2>9, QuietKeys
  <1>8. CASE insertApplicationMetadata(r)
    <2> DEFINE t == <<akReq[r].app, akReq[r].secret, akNow + TokenLife, akReq[r].ends>>
    <2>1. /\ Finishes(r) /\ At(r, "token", "keep") /\ issued' = issued
          /\ keptTokens' \subseteq keptTokens \cup {t}
      BY <1>8 DEF insertApplicationMetadata
    <2>2. ASSUME NEW x, x = t
          PROVE  Kept(x)'
      <3>1. /\ Made(akReq[r].app, akReq[r].secret)
            /\ <<akReq[r].app, akReq[r].secret, akReq[r].ends>> \in issued
            /\ akReq[r].ends \in Nat /\ akNow + TokenLife <= akReq[r].ends + KeepDelay
        BY <1>3, <2>1, Zenon DEF Keeping, At
      <3>2. x[1] = akReq[r].app /\ x[2] = akReq[r].secret /\ x[3] = akNow + TokenLife /\ x[4] = akReq[r].ends
        BY <2>2
      <3>3. Made(x[1], x[2])'
        <4>1. Made(x[1], x[2])
          BY <3>1, <3>2, Zenon
        <4> QED BY <1>1, <4>1, MadeKept
      <3>4. akNow + TokenLife \in Nat
        BY AkNumbers DEF KeysInv, KeysShaped
      <3> QED BY <2>1, <3>1, <3>2, <3>3, <3>4, Zenon DEF Kept
    <2>3. \A x \in keptTokens' : x \in keptTokens \/ Kept(x)'
      <3> HIDE DEF t
      <3> QED BY <2>1, <2>2
    <2> QED BY <1>1, <1>2, <1>4, <2>1, <2>3, QuietEnd
  <1> QED BY <1>5, <1>6, <1>7, <1>8 DEF AskGotrue

\* A request for invitations.
LEMMA InviteKeeps ==
    ASSUME KeysInv, NEW r \in AkReqs, CreateInvitation(r)
    PROVE  KeysInv'
  <1>1. /\ akReq[r].op = "invite" /\ akReq[r].pc = "next"
        /\ UNCHANGED <<spent, apps, told, akNow, crossed, unsure, issued, keptTokens>>
    BY DEF CreateInvitation, At
  <1>2. akReq[r].op # "create" /\ ~At(r, "update", "read")
    BY <1>1 DEF At
  <1>3. issued \subseteq issued' /\ \A t \in keptTokens' : t \in keptTokens \/ Kept(t)'
    BY <1>1
  <1>4. CASE Finishes(r)
    BY <1>1, <1>2, <1>3, <1>4, QuietEnd
  <1>5. CASE ~Finishes(r)
    <2>1. akReq' = [akReq EXCEPT ![r].todo = Tail(@)]
      BY <1>5 DEF CreateInvitation
    <2>2. /\ akReq = [q \in AkReqs |-> akReq[q]]
          /\ \A q \in AkReqs : IsReq(akReq[q])
      BY DEF KeysInv, KeysShaped
    <2>3. /\ \A q \in AkReqs \ {r} : akReq'[q] = akReq[q]
          /\ akReq' = [q \in AkReqs |-> akReq'[q]]
          /\ IsReq(akReq'[r]) /\ akReq'[r].op = "invite" /\ akReq'[r].pc = "next"
      <3> DEFINE rest == Tail(akReq[r].todo)
      <3>1. akReq' = [akReq EXCEPT ![r].todo = rest]
        BY <2>1
      <3> HIDE DEF rest
      <3>2. akReq'[r] = [akReq[r] EXCEPT !.todo = rest] /\ IsReq(akReq[r])
        BY <2>2, <3>1
      <3>3. IsReq(akReq'[r]) /\ akReq'[r].op = "invite" /\ akReq'[r].pc = "next"
        BY <1>1, <3>2 DEF IsReq
      <3>4. (\A q \in AkReqs \ {r} : akReq'[q] = akReq[q]) /\ akReq' = [q \in AkReqs |-> akReq'[q]]
        BY <2>2, <3>1
      <3> QED BY <3>3, <3>4
    <2>4. OnlyReq(r) /\ akReq'[r].pc \in PcOf(akReq'[r].op) /\ Creating(r)' /\ Keeping(r)'
      BY <2>2, <2>3 DEF OnlyReq, SameReq, PcOf, Creating, Keeping
    <2> QED BY <1>1, <1>2, <1>3, <2>4, QuietKeys
  <1> QED BY <1>4, <1>5

\* The keys, the requests and the tokens stay, and a second may pass.
LEMMA KeysStay ==
    ASSUME KeysInv, UNCHANGED <<spent, apps, keptTokens, akReq, issued, told, unsure, crossed>>,
           akNow' = akNow \/ AkTick
    PROVE  KeysInv'
  <1>1. akNow' \in Nat /\ KeysShaped'
    BY DEF KeysInv, KeysShaped, AkTick
  <1>2. \A a, s : Made(a, s) => Made(a, s)'
    BY Zenon DEF Made
  <1>3. ASSUME NEW q \in AkReqs
        PROVE  akReq'[q].pc \in PcOf(akReq'[q].op) /\ Creating(q)' /\ Keeping(q)'
    <2>1. akReq[q].pc \in PcOf(akReq[q].op) /\ Creating(q) /\ Keeping(q)
      BY DEF KeysInv
    <2>2. Creating(q)'
      BY <2>1, Zenon DEF Creating
    <2>3. ASSUME akReq[q].op = "token", akReq[q].pc = "keep"
          PROVE  akNow' + TokenLife <= akReq[q].ends + KeepDelay
      <3>1. akNow \in Nat /\ akReq[q].ends \in Nat /\ akNow + TokenLife <= akReq[q].ends + KeepDelay
        BY <2>1, <2>3 DEF Keeping, KeysInv, KeysShaped
      <3>2. CASE AkTick
        <4>1. akNow + TokenLife < akReq[q].ends + KeepDelay /\ akNow' = akNow + 1
          BY <2>3, <3>2 DEF AkTick, At
        <4> QED BY <3>1, <4>1, AkNumbers
      <3> QED BY <3>1, <3>2
    <2>4. Keeping(q)'
      BY <1>2, <2>1, <2>3, Zenon DEF Keeping
    <2> QED BY <2>1, <2>2, <2>4
  <1>4. ASSUME NEW t \in keptTokens
        PROVE  Kept(t)'
    <2>1. Kept(t)
      BY DEF KeysInv
    <2> QED BY <1>2, <2>1, Zenon DEF Kept
  <1>5. ASSUME NEW a \in AkApps
        PROVE  AsTold(a)'
    <2>1. AsTold(a)
      BY DEF KeysInv
    <2> QED BY <2>1, Zenon DEF AsTold, At
  <1> QED BY <1>1, <1>3, <1>4, <1>5 DEF KeysInv

\* After a step that ends a request, or lets it go on, only the shape of its key is left to show.
LEMMA ShapedAfter ==
    ASSUME KeysInv, NEW r \in AkReqs, OnlyReq(r), akNow' = akNow, spent \subseteq spent', NEW b,
           apps' = [a \in AkApps |-> apps'[a]], told' = [a \in AkApps |-> told'[a]],
           \A a \in AkApps \ {b} : apps'[a] = apps[a] /\ told'[a] = told[a],
           b \in AkApps => /\ IsApp(apps'[b]) /\ apps'[b].secret \in Nat
                           /\ apps'[b] # NoApp => b \in spent'
                           /\ told'[b] = <<told'[b][1], told'[b][2]>>
    PROVE  KeysShaped'
  <1>1. ASSUME NEW a \in AkApps
        PROVE  /\ IsApp(apps'[a]) /\ apps'[a].secret \in Nat /\ (apps'[a] # NoApp => a \in spent')
               /\ told'[a] = <<told'[a][1], told'[a][2]>>
    <2>1. CASE a = b
      BY <2>1, Zenon
    <2>2. CASE a # b
      <3>1. apps'[a] = apps[a] /\ told'[a] = told[a]
        BY <2>2
      <3>2. /\ IsApp(apps[a]) /\ apps[a].secret \in Nat /\ (apps[a] # NoApp => a \in spent)
            /\ told[a] = <<told[a][1], told[a][2]>>
        BY DEF KeysInv, KeysShaped
      <3>3. a \in spent => a \in spent'
        OBVIOUS
      <3> QED BY <3>1, <3>2, <3>3, Zenon
    <2> QED BY <2>1, <2>2
  <1>2. akNow' \in Nat
    BY DEF KeysInv, KeysShaped
  <1> QED BY <1>1, <1>2 DEF KeysShaped, OnlyReq

\* The key a request is about, and the tokens of that key.
LEMMA KeyOf ==
    ASSUME KeysInv, NEW b \in AkApps
    PROVE  /\ apps = [a \in AkApps |-> apps[a]] /\ told = [a \in AkApps |-> told[a]]
           /\ IsApp(apps[b]) /\ apps[b].secret \in Nat /\ (apps[b] # NoApp => b \in spent)
           /\ told[b] = <<told[b][1], told[b][2]>> /\ AsTold(b)
           /\ NoApp.secret = 0 /\ NoApp.granted = FALSE /\ IsApp(NoApp)
           /\ \A s \in Nat \ {0} : apps[b] = NoApp /\ Made(b, s) => <<b, s>> \in crossed
           /\ \A s \in Nat \ {0} : ~apps[b].granted /\ Made(b, s) => <<b, s>> \in crossed
  <1>1. NoApp.secret = 0 /\ NoApp.granted = FALSE /\ IsApp(NoApp)
    BY DEF NoApp, IsApp
  <1>2. ASSUME NEW s \in Nat \ {0}, apps[b] = NoApp, Made(b, s)
        PROVE  <<b, s>> \in crossed
    <2>1. apps[b].secret # s
      BY <1>1, <1>2
    <2> QED BY <1>2, <2>1, Zenon DEF Made
  <1>3. ASSUME NEW s \in Nat \ {0}, ~apps[b].granted, Made(b, s)
        PROVE  <<b, s>> \in crossed
    BY <1>3, Zenon DEF Made
  <1>4. /\ apps = [a \in AkApps |-> apps[a]] /\ told = [a \in AkApps |-> told[a]]
        /\ IsApp(apps[b]) /\ apps[b].secret \in Nat /\ (apps[b] # NoApp => b \in spent)
        /\ told[b] = <<told[b][1], told[b][2]>> /\ AsTold(b)
    BY DEF KeysInv, KeysShaped
  <1> QED BY <1>1, <1>2, <1>3, <1>4

\* The provider makes a key: the first step of creating one with auth0, the only one with gotrue.
LEMMA MakeKeeps ==
    ASSUME KeysInv, NEW r \in AkReqs, CreateClient(r) \/ SignUp(r)
    PROVE  KeysInv'
  <1>1. PICK b : b = akReq[r].app
    OBVIOUS
  <1>2. /\ akReq[r].op = "create" /\ akReq[r].pc \in {"client", "signup"}
        /\ UNCHANGED <<keptTokens, akNow, issued, crossed>>
    BY Zenon DEF CreateClient, SignUp, At
  <1>3. b \in AkApps /\ apps[b] = NoApp /\ \A p \in AkReqs : akReq[p].op = "create" => p = r
    BY <1>1, <1>2 DEF KeysInv, Creating
  <1>4. PICK sent \in BOOLEAN, heard \in BOOLEAN, granted \in BOOLEAN :
           /\ heard => sent
           /\ spent' = IF sent THEN spent \cup {b} ELSE spent
           /\ apps' = IF sent THEN Create(b, r, granted) ELSE apps
           /\ unsure' = IF sent /\ ~heard THEN unsure \cup {b} ELSE unsure
           /\ \/ /\ granted /\ (Finishes(r) \/ FinishesAfterChange(r))
                 /\ told' = IF heard THEN [told EXCEPT ![b] = <<1, "first">>] ELSE told
              \/ /\ ~granted /\ told' = told
                 /\ akReq' = LET next == IF heard THEN [akReq EXCEPT ![r].pc = "grant"] ELSE [akReq EXCEPT ![r] = NoReq]
                             IN  IF sent THEN Disturb(next, r) ELSE next
    <2>1. CASE CreateClient(r)
      BY <1>1, <2>1, Zenon DEF CreateClient
    <2>2. CASE SignUp(r)
      BY <1>1, <2>2, Zenon DEF SignUp, createUser
    <2> QED BY <2>1, <2>2, Zenon
  <1>5. \/ Ends(r) /\ (granted \/ ~heard)
        \/ GoesOn(r, "grant") /\ ~granted /\ heard /\ sent
    <2>1. CASE ~granted /\ heard
      <3>1. akReq' = Disturb([akReq EXCEPT ![r].pc = "grant"], r)
        BY <1>4, <2>1
      <3> QED BY <1>2, <1>4, <2>1, <3>1, ReqGoesAfterChange
    <2>2. CASE ~granted /\ ~heard
      <3>1. Finishes(r) \/ FinishesAfterChange(r)
        BY <1>4, <2>2 DEF Finishes, FinishesAfterChange
      <3> QED BY <2>2, <3>1, ReqEnds
    <2>3. CASE granted
      BY <1>4, <2>3, ReqEnds
    <2> QED BY <2>1, <2>2, <2>3
  <1>6. OnlyReq(r) /\ akReq'[r].op # "token" /\ akReq'[r].pc \in PcOf(akReq'[r].op)
    <2>1. CASE Ends(r)
      BY <2>1, EndedReq
    <2>2. CASE GoesOn(r, "grant")
      BY <1>2, <2>2 DEF GoesOn, PcOf
    <2> QED BY <1>5, <2>1, <2>2
  <1>7. apps = [a \in AkApps |-> apps[a]] /\ told = [a \in AkApps |-> told[a]]
    BY DEF KeysInv, KeysShaped
  <1>8. /\ apps' = [a \in AkApps |-> apps'[a]] /\ told' = [a \in AkApps |-> told'[a]]
        /\ \A a \in AkApps \ {b} : apps'[a] = apps[a] /\ told'[a] = told[a]
    BY <1>4, <1>7, Zenon DEF Create
  <1>9. /\ IsApp(apps'[b]) /\ apps'[b].secret \in Nat
        /\ apps'[b] # NoApp => b \in spent'
        /\ told'[b] = <<told'[b][1], told'[b][2]>>
    <2>1. told'[b] = <<told'[b][1], told'[b][2]>>
      <3>1. CASE told' = told
        <4>1. told[b] = <<told[b][1], told[b][2]>>
          BY <1>3, KeyOf, Zenon
        <4> QED BY <3>1, <4>1, Zenon
      <3>2. CASE told' = [told EXCEPT ![b] = <<1, "first">>]
        <4>1. told'[b] = <<1, "first">>
          BY <1>3, <1>7, <3>2
        <4> QED BY <4>1
      <3> QED BY <1>4, <3>1, <3>2
    <2>2. CASE sent
      <3>1. IsApp(apps'[b]) /\ apps'[b].secret = 1
        BY <1>3, <1>4, <1>7, <2>2, Zenon DEF Create, App, IsApp
      <3>2. b \in spent'
        BY <1>4, <2>2
      <3> QED BY <2>1, <3>1, <3>2
    <2>3. CASE ~sent
      <3>1. apps'[b] = NoApp
        BY <1>3, <1>4, <2>3
      <3>2. IsApp(NoApp) /\ NoApp.secret \in Nat
        BY <1>3, KeyOf, Zenon
      <3> QED BY <2>1, <3>1, <3>2, Zenon
    <2> QED BY <2>2, <2>3
  <1>10. KeysShaped'
    BY <1>2, <1>4, <1>6, <1>8, <1>9, ShapedAfter
  <1>11. sent => apps'[b].granted = granted /\ apps'[b].secret = 1 /\ apps'[b].name = "first"
    BY <1>3, <1>4, <1>7 DEF Create, App
  <1>12. AsTold(b)'
    <2>1. CASE ~sent
      BY <1>3, <1>4, <2>1, Zenon DEF AsTold
    <2>2. CASE sent /\ ~heard
      <3>1. b \in unsure'
        BY <1>4, <2>2
      <3> QED BY <3>1, Zenon DEF AsTold
    <2>3. CASE sent /\ heard /\ granted
      <3>1. told'[b][1] = 1 /\ told'[b][2] = "first"
        BY <1>3, <1>4, <1>7, <2>3
      <3> QED BY <1>11, <2>3, <3>1, Zenon DEF AsTold
    <2>4. CASE sent /\ heard /\ ~granted
      <3>1. akReq'[r].op = "create" /\ akReq'[r].app = b
        BY <1>1, <1>2, <1>5, <2>4 DEF GoesOn
      <3> QED BY <1>11, <2>4, <3>1, Zenon DEF AsTold
    <2> QED BY <2>1, <2>2, <2>3, <2>4
  <1>13. Creating(r)'
    <2>1. CASE Ends(r)
      BY <2>1, EndedReq
    <2>2. CASE GoesOn(r, "grant") /\ ~granted /\ sent
      <3>1. akReq'[r].op = "create" /\ akReq'[r].app = b /\ akReq'[r].pc = "grant"
        BY <1>1, <1>2, <2>2 DEF GoesOn
      <3>2. \A p \in AkReqs : akReq'[p].op = "create" => p = r
        BY <1>3, <1>6, Zenon DEF OnlyReq, SameReq
      <3>3. ~apps'[b].granted
        BY <1>11, <2>2, Zenon
      <3>4. "grant" \notin {"client", "signup"}
        OBVIOUS
      <3> QED BY <1>3, <3>1, <3>2, <3>3, <3>4, Zenon DEF Creating
    <2> QED BY <1>5, <2>1, <2>2
  <1>14. ASSUME NEW s \in Nat \ {0}, Made(b, s)
         PROVE  Made(b, s)'
    <2>1. <<b, s>> \in crossed
      BY <1>3, <1>14, KeyOf, Zenon
    <2> QED BY <1>2, <1>3, <2>1, Zenon DEF Made
  <1>15. unsure \subseteq unsure' /\ crossed \subseteq crossed'
    BY <1>2, <1>4
  <1> QED BY <1>1, <1>2, <1>6, <1>8, <1>10, <1>12, <1>13, <1>14, <1>15, KeyChanges

\* The key is gone: deleted by itself, with its project, or because its grant failed.
LEMMA RemovalKeeps ==
    ASSUME KeysInv, NEW r \in AkReqs, Removal(r)
    PROVE  KeysInv'
  <1>1. PICK b : b = akReq[r].app
    OBVIOUS
  <1>2. /\ akReq[r].op \in {"delete", "rotate", "clear"}
        /\ akReq[r].op # "create" /\ ~At(r, "update", "read")
        /\ UNCHANGED <<spent, keptTokens, akNow, issued, told, unsure>>
    BY OpOfPc DEF Removal, At
  <1>3. CASE Finishes(r) /\ UNCHANGED <<apps, crossed>>
    <2>1. issued \subseteq issued' /\ \A t \in keptTokens' : t \in keptTokens \/ Kept(t)'
      BY <1>2
    <2> QED BY <1>2, <1>3, <2>1, QuietEnd
  <1>4. CASE ~(Finishes(r) /\ UNCHANGED <<apps, crossed>>)
    <2>1. /\ apps' = [apps EXCEPT ![b] = NoApp]
          /\ crossed' = crossed \cup OnTheWay(b) \cup LeftBehind(b)
      BY <1>1, <1>4 DEF Removal
    <2>2. Ends(r) \/ (GoesOn(r, "each") /\ akReq[r].op = "clear")
      <3>1. CASE akReq[r].op = "clear"
        <4>1. akReq' = Disturb([akReq EXCEPT ![r].pc = "each"], r)
          BY <1>4, <3>1 DEF Removal
        <4> QED BY <3>1, <4>1, ReqGoesAfterChange
      <3>2. CASE akReq[r].op # "clear"
        <4>1. FinishesAfterChange(r)
          BY <1>4, <3>2 DEF Removal
        <4> QED BY <4>1, ReqEnds
      <3> QED BY <3>1, <3>2
    <2>3. OnlyReq(r) /\ akReq'[r].op # "token" /\ akReq'[r].pc \in PcOf(akReq'[r].op) /\ Creating(r)'
      <3>1. CASE Ends(r)
        BY <3>1, EndedReq
      <3>2. CASE GoesOn(r, "each") /\ akReq[r].op = "clear"
        BY <3>2 DEF GoesOn, PcOf, Creating
      <3> QED BY <2>2, <3>1, <3>2
    <2>4. apps = [a \in AkApps |-> apps[a]] /\ told = [a \in AkApps |-> told[a]]
      BY DEF KeysInv, KeysShaped
    <2>5. /\ apps' = [a \in AkApps |-> apps'[a]] /\ told' = [a \in AkApps |-> told'[a]]
          /\ \A a \in AkApps \ {b} : apps'[a] = apps[a] /\ told'[a] = told[a]
          /\ b \in AkApps => apps'[b] = NoApp
      BY <1>2, <2>1, <2>4
    <2>6. ASSUME b \in AkApps
          PROVE  /\ IsApp(apps'[b]) /\ apps'[b].secret \in Nat
                 /\ apps'[b] # NoApp => b \in spent'
                 /\ told'[b] = <<told'[b][1], told'[b][2]>>
      <3>1. IsApp(NoApp) /\ NoApp.secret \in Nat /\ told[b] = <<told[b][1], told[b][2]>>
        <4>1. IsApp(NoApp) /\ NoApp.secret = 0 /\ told[b] = <<told[b][1], told[b][2]>>
          BY <2>6, KeyOf, Zenon
        <4>2. 0 \in Nat
          OBVIOUS
        <4> QED BY <4>1, <4>2, Zenon
      <3> QED BY <1>2, <2>5, <2>6, <3>1, Zenon
    <2>7. KeysShaped'
      BY <1>2, <2>3, <2>5, <2>6, ShapedAfter
    <2>8. b \in AkApps => AsTold(b)'
      BY <2>5, Zenon DEF AsTold
    <2>9. ASSUME NEW s \in Nat \ {0}, Made(b, s), <<b, s>> \in LeftBehind(b) \cup OnTheWay(b)
          PROVE  Made(b, s)'
      <3>1. <<b, s>> \in crossed'
        BY <2>1, <2>9
      <3> QED BY <2>9, <3>1, Zenon DEF Made
    <2>10. unsure \subseteq unsure' /\ crossed \subseteq crossed'
      BY <1>2, <2>1
    <2>11. /\ apps[b] = NoApp => apps'[b] = NoApp
           /\ ~apps[b].granted => ~apps'[b].granted
      <3>1. CASE b \in AkApps
        BY <2>5, <3>1, KeyOf, Zenon
      <3>2. CASE b \notin AkApps
        <4>1. apps' = apps
          BY <2>1, <2>4, <3>2
        <4> QED BY <4>1, Zenon
      <3> QED BY <3>1, <3>2
    <2> QED BY <1>1, <1>2, <2>3, <2>5, <2>7, <2>8, <2>9, <2>10, <2>11, KeyChanges
  <1> QED BY <1>3, <1>4

\* The grant of a new key is made, or the key is deleted again.
LEMMA GrantKeeps ==
    ASSUME KeysInv, NEW r \in AkReqs, CreateGrant(r) \/ Cleanup(r)
    PROVE  KeysInv'
  <1>1. PICK b : b = akReq[r].app
    OBVIOUS
  <1>2. /\ akReq[r].op = "create" /\ akReq[r].pc \in {"grant", "cleanup"}
        /\ UNCHANGED <<spent, keptTokens, akNow, issued, crossed>>
    BY DEF CreateGrant, Cleanup, At
  <1>3. b \in AkApps /\ ~apps[b].granted /\ \A p \in AkReqs : akReq[p].op = "create" => p = r
    BY <1>1, <1>2, Zenon DEF KeysInv, Creating
  <1>4. /\ apps = [a \in AkApps |-> apps[a]] /\ told = [a \in AkApps |-> told[a]]
        /\ IsApp(apps[b]) /\ apps[b].secret \in Nat /\ (apps[b] # NoApp => b \in spent)
        /\ told[b] = <<told[b][1], told[b][2]>> /\ AsTold(b)
        /\ NoApp.secret = 0 /\ IsApp(NoApp)
    BY <1>3, KeyOf, Zenon
  <1>5. ASSUME NEW s \in Nat \ {0}, Made(b, s)
        PROVE  Made(b, s)'
    <2>1. <<b, s>> \in crossed
      BY <1>3, <1>5, KeyOf, Zenon
    <2> QED BY <1>2, <1>3, <2>1, Zenon DEF Made
  <1>6. CASE CreateGrant(r) /\ apps[b] # NoApp /\ Finishes(r)
             /\ apps' = [apps EXCEPT ![b].granted = TRUE]
             /\ told' = [told EXCEPT ![b] = <<apps[b].secret, apps[b].name>>]
    <2>1. Ends(r)
      BY <1>6, ReqEnds
    <2>2. unsure' = unsure
      BY <1>6 DEF CreateGrant
    <2>3. /\ apps' = [a \in AkApps |-> apps'[a]] /\ told' = [a \in AkApps |-> told'[a]]
          /\ \A a \in AkApps \ {b} : apps'[a] = apps[a] /\ told'[a] = told[a]
          /\ told'[b] = <<apps[b].secret, apps[b].name>>
      BY <1>3, <1>4, <1>6, Zenon
    <2>4. apps'[b] = [apps[b] EXCEPT !.granted = TRUE]
      BY <1>3, <1>4, <1>6
    <2>5. /\ IsApp(apps'[b]) /\ apps'[b].secret = apps[b].secret /\ apps'[b].name = apps[b].name
          /\ apps'[b].granted = TRUE
      BY <1>4, <2>4, Zenon DEF IsApp
    <2>6. told'[b] = <<told'[b][1], told'[b][2]>> /\ told'[b][1] = apps[b].secret /\ told'[b][2] = apps[b].name
      BY <2>3
    <2>7. KeysShaped'
      BY <1>2, <1>4, <1>6, <2>1, <2>3, <2>5, <2>6, EndedReq, ShapedAfter, Zenon
    <2>8. AsTold(b)'
      BY <2>5, <2>6, Zenon DEF AsTold
    <2>9. unsure \subseteq unsure' /\ crossed \subseteq crossed'
      BY <1>2, <2>2
    <2>10. OnlyReq(r) /\ akReq'[r].op # "token" /\ akReq'[r].pc \in PcOf(akReq'[r].op) /\ Creating(r)'
      BY <2>1, EndedReq
    <2> QED BY <1>1, <1>2, <1>5, <2>3, <2>7, <2>8, <2>9, <2>10, KeyChanges
  <1>7. CASE CreateGrant(r) /\ Goes(r, "cleanup") /\ UNCHANGED <<apps, told>>
    <2>1. GoesOn(r, "cleanup")
      BY <1>7, ReqGoes
    <2>2. unsure' = unsure
      BY <1>7 DEF CreateGrant
    <2>3. akReq'[r].op = "create" /\ akReq'[r].pc = "cleanup" /\ akReq'[r].app = b /\ OnlyReq(r)
      BY <1>1, <1>2, <2>1 DEF GoesOn
    <2>4. KeysShaped'
      BY <1>2, <1>7, <2>3 DEF KeysInv, KeysShaped, OnlyReq
    <2>5. AsTold(b)'
      BY <1>3, <1>7, <2>3, Zenon DEF AsTold
    <2>6. Creating(r)'
      <3>1. \A p \in AkReqs : akReq'[p].op = "create" => p = r
        BY <1>3, <2>3, Zenon DEF OnlyReq, SameReq
      <3>2. "cleanup" \notin {"client", "signup"}
        OBVIOUS
      <3> QED BY <1>3, <1>7, <2>3, <3>1, <3>2, Zenon DEF Creating
    <2>7. akReq'[r].op # "token" /\ akReq'[r].pc \in PcOf(akReq'[r].op)
      BY <2>3 DEF PcOf
    <2>8. /\ unsure \subseteq unsure' /\ crossed \subseteq crossed'
          /\ \A a \in AkApps \ {b} : apps'[a] = apps[a] /\ told'[a] = told[a]
      BY <1>2, <1>7, <2>2
    <2> QED BY <1>1, <1>2, <1>5, <2>3, <2>4, <2>5, <2>6, <2>7, <2>8, KeyChanges
  <1>8. CASE Cleanup(r)
    <2>1. \/ apps' = [apps EXCEPT ![b] = NoApp] /\ FinishesAfterChange(r) /\ unsure' = unsure
          \/ unsure' = unsure \cup {b} /\ Finishes(r) /\ apps' = apps
      BY <1>1, <1>8 DEF Cleanup
    <2>2. Ends(r) /\ told' = told
      BY <1>8, <2>1, ReqEnds DEF Cleanup
    <2>3. /\ apps' = [a \in AkApps |-> apps'[a]] /\ told' = [a \in AkApps |-> told'[a]]
          /\ \A a \in AkApps \ {b} : apps'[a] = apps[a] /\ told'[a] = told[a]
          /\ apps'[b] = NoApp \/ (apps'[b] = apps[b] /\ b \in unsure')
      BY <1>3, <1>4, <2>1, <2>2
    <2>4. IsApp(apps'[b]) /\ apps'[b].secret \in Nat /\ (apps'[b] # NoApp => b \in spent')
      <3>1. 0 \in Nat
        OBVIOUS
      <3> QED BY <1>2, <1>4, <2>3, <3>1, Zenon
    <2>5. KeysShaped'
      BY <1>2, <1>4, <2>2, <2>3, <2>4, EndedReq, ShapedAfter, Zenon
    <2>6. AsTold(b)'
      BY <2>3, Zenon DEF AsTold
    <2>7. unsure \subseteq unsure' /\ crossed \subseteq crossed'
      BY <1>2, <2>1
    <2>8. OnlyReq(r) /\ akReq'[r].op # "token" /\ akReq'[r].pc \in PcOf(akReq'[r].op) /\ Creating(r)'
      BY <2>2, EndedReq
    <2> QED BY <1>1, <1>2, <1>5, <2>3, <2>5, <2>6, <2>7, <2>8, KeyChanges
  <1> QED BY <1>1, <1>6, <1>7, <1>8 DEF CreateGrant

\* The secret of a key is rotated, its name is changed or its user is told the name it has.
LEMMA ChangeKeeps ==
    ASSUME KeysInv, NEW r \in AkReqs,
           Rotation(r) \/ UpdateClient(r) \/ ReadUpdated(r) \/ UpdateUser(r)
    PROVE  KeysInv'
  <1>1. PICK b : b = akReq[r].app
    OBVIOUS
  <1>2. /\ akReq[r].op \in {"rotate", "update"}
        /\ UNCHANGED <<spent, keptTokens, akNow, issued>>
    BY DEF Rotation, UpdateClient, ReadUpdated, UpdateUser, At
  <1>3. apps = [a \in AkApps |-> apps[a]] /\ told = [a \in AkApps |-> told[a]]
    BY DEF KeysInv, KeysShaped
  <1>4. ASSUME b \in AkApps
        PROVE  /\ IsApp(apps[b]) /\ apps[b].secret \in Nat /\ (apps[b] # NoApp => b \in spent)
               /\ told[b] = <<told[b][1], told[b][2]>> /\ AsTold(b)
    BY <1>4, KeyOf, Zenon
  <1>5. Ends(r) \/ (UpdateClient(r) /\ GoesOn(r, "read"))
    BY ReqEnds, ReqGoes, Zenon DEF Rotation, UpdateClient, ReadUpdated, UpdateUser
  <1>6. OnlyReq(r) /\ akReq'[r].op # "token" /\ akReq'[r].pc \in PcOf(akReq'[r].op) /\ Creating(r)'
    <2>1. CASE Ends(r)
      BY <2>1, EndedReq
    <2>2. CASE UpdateClient(r) /\ GoesOn(r, "read")
      BY <2>2 DEF UpdateClient, At, GoesOn, PcOf, Creating
    <2> QED BY <1>5, <2>1, <2>2
  \* What the step does to the key, and to what its user knows.
  <1> DEFINE Excused == \E q \in AkReqs : At(q, "update", "read")' /\ akReq'[q].app = b
  <1>7. /\ unsure \subseteq unsure' /\ crossed \subseteq crossed'
        /\ \/ apps' = apps
           \/ apps[b] # NoApp /\ apps' = [apps EXCEPT ![b].secret = @ + 1]
              /\ crossed' = crossed \cup OnTheWay(b) \cup LeftBehind(b)
           \/ apps[b] # NoApp /\ \E n : apps' = [apps EXCEPT ![b].name = n]
    BY <1>1, Zenon DEF Rotation, UpdateClient, ReadUpdated, UpdateUser
  <1>8. /\ apps' = [a \in AkApps |-> apps'[a]]
        /\ \A a \in AkApps \ {b} : apps'[a] = apps[a]
        /\ b \notin AkApps => apps' = apps
    BY <1>3, <1>7
  <1>9. ASSUME b \in AkApps
        PROVE  /\ IsApp(apps'[b]) /\ apps'[b].secret \in Nat /\ apps'[b].granted = apps[b].granted
               /\ apps'[b] = apps[b] \/ apps[b] # NoApp
               /\ apps'[b].secret = apps[b].secret \/ crossed' = crossed \cup OnTheWay(b) \cup LeftBehind(b)
    <2>1. CASE apps' = apps
      BY <1>4, <1>9, <2>1, Zenon
    <2>2. CASE apps[b] # NoApp /\ apps' = [apps EXCEPT ![b].secret = @ + 1]
               /\ crossed' = crossed \cup OnTheWay(b) \cup LeftBehind(b)
      <3>1. apps'[b] = [apps[b] EXCEPT !.secret = @ + 1]
        BY <1>3, <1>9, <2>2
      <3>2. IsApp(apps'[b]) /\ apps'[b].secret = apps[b].secret + 1 /\ apps'[b].granted = apps[b].granted
        BY <1>4, <1>9, <3>1 DEF IsApp
      <3>3. apps[b].secret + 1 \in Nat
        BY <1>4, <1>9
      <3> QED BY <2>2, <3>2, <3>3, Zenon
    <2>3. ASSUME NEW n, apps[b] # NoApp, apps' = [apps EXCEPT ![b].name = n]
          PROVE  IsApp(apps'[b]) /\ apps'[b].secret = apps[b].secret /\ apps'[b].granted = apps[b].granted
      <3>1. apps'[b] = [apps[b] EXCEPT !.name = n]
        BY <1>3, <1>9, <2>3
      <3> QED BY <1>4, <1>9, <3>1 DEF IsApp
    <2> QED BY <1>4, <1>7, <1>9, <2>1, <2>2, <2>3, Zenon
  <1>10. /\ told' = [a \in AkApps |-> told'[a]]
         /\ \A a \in AkApps \ {b} : told'[a] = told[a]
         /\ b \in AkApps => told'[b] = <<told'[b][1], told'[b][2]>>
    <2>1. \/ told' = told
          \/ \E s, n : told' = [told EXCEPT ![b] = <<s, n>>]
          \/ told' = [told EXCEPT ![b][2] = akReq[r].name]
      <3>1. CASE Rotation(r)
        <4> DEFINE n == IF provider = "auth0" THEN apps[b].name ELSE told[b][2]
        <4>1. told' = told \/ told' = [told EXCEPT ![b] = <<apps[b].secret + 1, n>>]
          BY <1>1, <1>3, <3>1, Zenon DEF Rotation
        <4> HIDE DEF n
        <4> QED BY <4>1
      <3>2. CASE UpdateClient(r)
        BY <3>2 DEF UpdateClient
      <3>3. CASE ReadUpdated(r)
        BY <1>1, <3>3 DEF ReadUpdated
      <3>4. CASE UpdateUser(r)
        BY <1>1, <3>4 DEF UpdateUser
      <3> QED BY <3>1, <3>2, <3>3, <3>4
    <2>2. CASE told' = told
      BY <1>3, <1>4, <2>2
    <2>3. ASSUME NEW s, NEW n, told' = [told EXCEPT ![b] = <<s, n>>]
          PROVE  /\ told' = [a \in AkApps |-> told'[a]]
                 /\ \A a \in AkApps \ {b} : told'[a] = told[a]
                 /\ b \in AkApps => told'[b] = <<told'[b][1], told'[b][2]>>
      BY <1>3, <2>3
    <2>4. CASE told' = [told EXCEPT ![b][2] = akReq[r].name]
      <3>1. /\ told' = [a \in AkApps |-> told'[a]]
            /\ \A a \in AkApps \ {b} : told'[a] = told[a]
            /\ b \in AkApps => told'[b] = [told[b] EXCEPT ![2] = akReq[r].name]
        BY <1>3, <2>4, Zenon
      <3>2. ASSUME b \in AkApps
            PROVE  told'[b] = <<told[b][1], akReq[r].name>>
        BY <1>4, <3>1, <3>2
      <3> QED BY <3>1, <3>2
    <2> QED BY <2>1, <2>2, <2>3, <2>4
  <1>11. KeysShaped'
    <2>1. b \in AkApps => (apps'[b] # NoApp => b \in spent')
      BY <1>2, <1>4, <1>9, Zenon
    <2> QED BY <1>2, <1>6, <1>8, <1>9, <1>10, <2>1, ShapedAfter
  <1>12. ASSUME NEW s \in Nat \ {0}, Made(b, s), <<b, s>> \in LeftBehind(b) \cup OnTheWay(b)
         PROVE  Made(b, s)'
    <2>1. b \in AkApps
      BY <1>12 DEF Made
    <2>2. CASE crossed' = crossed \cup OnTheWay(b) \cup LeftBehind(b)
      <3>1. <<b, s>> \in crossed'
        BY <1>12, <2>2
      <3> QED BY <1>12, <3>1, Zenon DEF Made
    <2>3. CASE apps'[b].secret = apps[b].secret
      <3>1. <<b, s>> \in crossed => <<b, s>> \in crossed'
        BY <1>7
      <3> QED BY <1>9, <1>12, <2>1, <2>3, <3>1, Zenon DEF Made
    <2> QED BY <1>9, <2>1, <2>2, <2>3
  <1>13. /\ apps[b] = NoApp => apps'[b] = NoApp
         /\ ~apps[b].granted => ~apps'[b].granted
    <2>1. CASE b \in AkApps
      BY <1>9, <2>1, Zenon
    <2>2. CASE b \notin AkApps
      BY <1>8, <2>2, Zenon
    <2> QED BY <2>1, <2>2
  \* The user of the key is not sure, nothing changed for them, or they know the key's secret and its
  \* name as before or better.
  <1> DEFINE Stands == apps'[b] = apps[b] /\ told'[b] = told[b] /\ ~At(r, "update", "read")
             Known == /\ apps'[b].granted = apps[b].granted /\ apps[b] # NoApp
                      /\ \/ told'[b][1] = apps'[b].secret
                         \/ told'[b][1] = told[b][1] /\ apps'[b].secret = apps[b].secret
                      /\ \/ told'[b][2] = apps'[b].name
                         \/ Excused
                         \/ told'[b][2] = told[b][2] /\ apps'[b].name = apps[b].name /\ ~At(r, "update", "read")
  <1>14. ASSUME b \in AkApps
         PROVE  b \in unsure' \/ apps'[b] = NoApp \/ Stands \/ Known
    <2>1. CASE Rotation(r)
      <3>1. ~At(r, "update", "read")
        BY <2>1 DEF Rotation, At
      <3>2. CASE UNCHANGED <<apps, told>>
        BY <3>1, <3>2, Zenon
      <3>3. CASE ~UNCHANGED <<apps, told>> /\ b \notin unsure'
        <4> DEFINE n == IF provider = "auth0" THEN apps[b].name ELSE told[b][2]
        <4>1. /\ apps[b] # NoApp /\ apps' = [apps EXCEPT ![b].secret = @ + 1]
              /\ told' = [told EXCEPT ![b] = <<apps[b].secret + 1, n>>]
          BY <1>1, <1>3, <1>14, <2>1, <3>3, Zenon DEF Rotation
        <4>2. apps'[b] = [apps[b] EXCEPT !.secret = @ + 1]
          BY <1>3, <1>14, <4>1
        <4>3. /\ apps'[b].secret = apps[b].secret + 1 /\ apps'[b].name = apps[b].name
              /\ apps'[b].granted = apps[b].granted
          BY <1>4, <1>14, <4>2 DEF IsApp
        <4> HIDE DEF n
        <4>4. told'[b][1] = apps[b].secret + 1 /\ told'[b][2] = n
          BY <1>3, <1>14, <4>1
        <4>5. n = apps[b].name \/ n = told[b][2]
          BY DEF n
        <4> QED BY <3>1, <4>1, <4>3, <4>4, <4>5, Zenon
      <3> QED BY <3>2, <3>3, Zenon
    <2>2. CASE UpdateClient(r)
      <3>1. ~At(r, "update", "read") /\ told' = told
        BY <2>2 DEF UpdateClient, At
      <3>2. CASE apps' = apps
        BY <3>1, <3>2, Zenon
      <3>3. CASE apps' # apps /\ b \notin unsure'
        <4>1. apps[b] # NoApp /\ apps' = [apps EXCEPT ![b].name = akReq[r].name] /\ Goes(r, "read")
          BY <1>1, <2>2, <3>3 DEF UpdateClient
        <4>2. apps'[b] = [apps[b] EXCEPT !.name = akReq[r].name]
          BY <1>3, <1>14, <4>1
        <4>3. apps'[b].secret = apps[b].secret /\ apps'[b].granted = apps[b].granted
          BY <1>4, <1>14, <4>2 DEF IsApp
        <4>4. At(r, "update", "read")' /\ akReq'[r].app = b
          BY <1>1, <2>2, <4>1, ReqGoes DEF UpdateClient, At, GoesOn
        <4> QED BY <3>1, <4>1, <4>3, <4>4, Zenon
      <3> QED BY <3>2, <3>3
    <2>3. CASE ReadUpdated(r)
      <3>1. apps' = apps
        BY <2>3, Zenon DEF ReadUpdated
      <3>2. CASE b \notin unsure'
        <4>1. apps[b] # NoApp /\ told' = [told EXCEPT ![b] = <<apps[b].secret, apps[b].name>>]
          BY <1>1, <2>3, <3>2 DEF ReadUpdated
        <4>2. told'[b][1] = apps[b].secret /\ told'[b][2] = apps[b].name
          BY <1>3, <1>14, <4>1
        <4> QED BY <3>1, <4>1, <4>2, Zenon
      <3> QED BY <3>2, Zenon
    <2>4. CASE UpdateUser(r)
      <3>1. ~At(r, "update", "read")
        BY <2>4 DEF UpdateUser, At
      <3>2. CASE UNCHANGED <<apps, told>>
        BY <3>1, <3>2, Zenon
      <3>3. CASE ~UNCHANGED <<apps, told>> /\ b \notin unsure'
        <4>1. /\ apps[b] # NoApp /\ apps' = [apps EXCEPT ![b].name = akReq[r].name]
              /\ told' = [told EXCEPT ![b][2] = akReq[r].name]
          BY <1>1, <2>4, <3>3 DEF UpdateUser
        <4>2. /\ apps'[b] = [apps[b] EXCEPT !.name = akReq[r].name]
              /\ told'[b] = [told[b] EXCEPT ![2] = akReq[r].name]
          BY <1>3, <1>14, <4>1
        <4>3. apps'[b].secret = apps[b].secret /\ apps'[b].granted = apps[b].granted /\ apps'[b].name = akReq[r].name
          BY <1>4, <1>14, <4>2 DEF IsApp
        <4>4. told'[b][1] = told[b][1] /\ told'[b][2] = akReq[r].name
          BY <1>4, <1>14, <4>2
        <4> QED BY <4>1, <4>3, <4>4, Zenon
      <3> QED BY <3>2, <3>3
    <2> QED BY <2>1, <2>2, <2>3, <2>4, Zenon
  <1>15. ASSUME b \in AkApps
         PROVE  AsTold(b)'
    <2>1. AsTold(b) /\ akReq[r].op # "create"
      BY <1>2, <1>4, <1>15
    <2>2. ASSUME NEW q \in AkReqs, At(q, "update", "read"), akReq[q].app = b, ~At(r, "update", "read")
          PROVE  At(q, "update", "read")' /\ akReq'[q].app = b
      BY <1>6, <2>2, Zenon DEF OnlyReq, SameReq, At
    <2>3. ASSUME NEW q \in AkReqs, akReq[q].op = "create", akReq[q].app = b
          PROVE  akReq'[q].op = "create" /\ akReq'[q].app = b
      BY <1>6, <2>1, <2>3, Zenon DEF OnlyReq, SameReq
    <2>4. b \in unsure => b \in unsure'
      BY <1>7
    <2>5. CASE b \in unsure' \/ apps'[b] = NoApp
      BY <2>5, Zenon DEF AsTold
    <2>6. CASE Stands
      BY <2>1, <2>2, <2>3, <2>4, <2>6, Zenon DEF AsTold
    <2>7. CASE Known /\ b \notin unsure'
      <3>1. CASE apps[b].granted
        <4>1. told[b][1] = apps[b].secret
              /\ (told[b][2] = apps[b].name \/ \E q \in AkReqs : At(q, "update", "read") /\ akReq[q].app = b)
          BY <2>1, <2>4, <2>7, <3>1, Zenon DEF AsTold
        <4>2. apps'[b].granted /\ told'[b][1] = apps'[b].secret
          BY <2>7, <3>1, <4>1, Zenon
        <4>3. told'[b][2] = apps'[b].name \/ Excused
          BY <2>2, <2>7, <4>1, Zenon
        <4> QED BY <4>2, <4>3, Zenon DEF AsTold
      <3>2. CASE ~apps[b].granted
        BY <2>1, <2>3, <2>4, <2>7, <3>2, Zenon DEF AsTold
      <3> QED BY <3>1, <3>2
    <2> QED BY <1>14, <1>15, <2>5, <2>6, <2>7, Zenon
  <1> QED BY <1>1, <1>2, <1>6, <1>7, <1>8, <1>10, <1>11, <1>12, <1>13, <1>15, KeyChanges

\* Every step of the keys keeps the invariant.
LEMMA KeysStep ==
    ASSUME KeysInv, AkNext
    PROVE  KeysInv'
  <1>1. CASE DeleteInvitations \/ AkTick
    <2>1. /\ UNCHANGED <<spent, apps, keptTokens, akReq, issued, told, unsure, crossed>>
          /\ akNow' = akNow \/ AkTick
      BY <1>1 DEF DeleteInvitations, AkTick
    <2> QED BY <2>1, KeysStay
  <1>2. ASSUME NEW r \in AkReqs, AkStep(r)
        PROVE  KeysInv'
    <2>1. CASE Arrive(r)
      BY <2>1, ArriveKeeps
    <2>2. CASE CreateClient(r) \/ SignUp(r)
      BY <2>2, MakeKeeps
    <2>3. CASE CreateGrant(r) \/ Cleanup(r)
      BY <2>3, GrantKeeps
    <2>4. CASE validateOwnership(r) \/ deleteApplication(r) \/ ListClients(r) \/ ListUsers(r) \/ EachListed(r)
      BY <2>4, WalkKeeps
    <2>5. CASE Removal(r)
      BY <2>5, RemovalKeeps
    <2>6. CASE Rotation(r) \/ UpdateClient(r) \/ ReadUpdated(r) \/ UpdateUser(r)
      BY <2>6, ChangeKeeps
    <2>7. CASE \/ Lookup(r) \/ deleteApplicationMetadata(r) \/ AskAuth0(r) \/ AskGotrue(r)
               \/ insertApplicationMetadata(r)
      BY <2>7, TokenKeeps
    <2>8. CASE CreateInvitation(r)
      BY <2>8, InviteKeeps
    <2> QED BY <1>2, <2>1, <2>2, <2>3, <2>4, <2>5, <2>6, <2>7, <2>8
            DEF AkStep, DeleteClient, DeleteUser, RotateClient, RotateUser, DeleteListedClients, DeleteListedUsers
  <1> QED BY <1>1, <1>2 DEF AkNext

=============================================================================
