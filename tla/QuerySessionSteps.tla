-------------------------- MODULE QuerySessionSteps -------------------------
(***************************************************************************)
(* What the statements of a transaction leave in its session, and the      *)
(* inductive invariant Held on it: types, and what the events of a         *)
(* transaction that has not failed have to do with the documents it saw    *)
(* and with its writes. Every step keeps it.                               *)
(***************************************************************************)
EXTENDS QuerySession, FiniteSetTheorems, WellFoundedInduction, TLAPS

-----------------------------------------------------------------------------
(* The operators the model takes from the library.                          *)

\* A set of naturals that is not empty has a least one.
LEMMA LeastNat ==
    ASSUME NEW T \in SUBSET Nat, T # {}
    PROVE  \E x \in T : \A y \in T : x <= y
  <1> DEFINE R == OpToRel(<, Nat)
  <1>1. IsWellFoundedOn(R, Nat)
    BY NatLessThanWellFounded, Zenon
  <1>2. \A x, y \in Nat : x < y => <<x, y>> \in R
    BY Zenon DEF OpToRel
  <1> HIDE DEF R
  <1>3. PICK x \in T : \A y \in T : ~(<<y, x>> \in R)
    BY <1>1, WFMin, Zenon
  <1>4. ASSUME NEW y \in T
        PROVE  x <= y
    <2>1. x \in Nat /\ y \in Nat /\ ~(y < x)
      BY <1>2, <1>3, Zenon
    <2> QED BY <2>1
  <1> QED BY <1>4, Zenon

\* Max of a bounded set of naturals: the least of its upper bounds.
LEMMA MaxOf ==
    ASSUME NEW n \in Nat, NEW S \in SUBSET (0 .. n), S # {}
    PROVE  Max(S) \in S /\ \A y \in S : y <= Max(S)
  <1> DEFINE T == {m \in Nat : \A y \in S : y <= m}
  <1>1. n \in T
    OBVIOUS
  <1>2. PICK m \in T : \A k \in T : m <= k
    BY <1>1, LeastNat, Zenon
  <1>3. m \in S
    <2>1. SUFFICES ASSUME m \notin S PROVE FALSE
      BY Zenon
    <2>0. PICK z \in S : TRUE
      BY Zenon
    <2>2. m # 0
      BY <2>0, <2>1
    <2>3. m - 1 \in T
      BY <2>1, <2>2
    <2> QED BY <1>2, <2>3
  <1>4. \E x \in S : \A y \in S : x >= y
    BY <1>3, Zenon
  <1> QED BY <1>4, Zenon DEF Max

\* Max is determined by what it is.
LEMMA MaxIs ==
    ASSUME NEW n \in Nat, NEW S \in SUBSET (0 .. n), NEW m \in S, \A y \in S : y <= m
    PROVE  Max(S) = m
  <1> DEFINE x == Max(S)
  <1>1. x \in S /\ m <= x
    BY MaxOf, Zenon
  <1> HIDE DEF x
  <1>2. x \in Nat /\ m \in Nat /\ x <= m
    BY <1>1
  <1>3. x = m
    BY <1>1, <1>2
  <1> QED BY <1>3, Zenon DEF x

-----------------------------------------------------------------------------
(* Documents.                                                               *)

\* The committed transactions and what each has written.
HistType == hist \in Seq([id : 0 .. MaxTx, writes : WriteSets])

\* The elements of a sequence.
LEMMA ElementOf ==
    ASSUME NEW S, NEW q \in Seq(S), NEW i \in DOMAIN q
    PROVE  q[i] \in S /\ i \in 1 .. Len(q)
  OBVIOUS

\* The transactions of the history.
LEMMA HistWrites ==
    ASSUME HistType, NEW i \in DOMAIN hist
    PROVE  hist[i].writes \in WriteSets /\ hist[i].id \in 0 .. MaxTx
  <1> DEFINE R == [id : 0 .. MaxTx, writes : WriteSets]
  <1>1. hist[i] \in R
    <2>1. hist \in Seq(R)
      BY Zenon DEF HistType
    <2> HIDE DEF R
    <2> QED BY <2>1, ElementOf, Zenon
  <1> QED BY <1>1, Zenon

\* A set of writes is a function of keys.
LEMMA WritesAreDocs ==
    ASSUME NEW w \in WriteSets
    PROVE  /\ DOMAIN w \subseteq Keys
           /\ \A k \in DOMAIN w : w[k] \in Docs \cup {None}
           /\ w \in [DOMAIN w -> Docs \cup {None}]
  BY Zenon DEF WriteSets

\* DocsAfter, without Max: the document of a key is the one its last writer
\* wrote.
LEMMA DocsAfterIs ==
    ASSUME HistType, NEW n \in 0 .. Len(hist), NEW k \in Keys
    PROVE  \/ /\ \A i \in 1 .. n : k \notin DOMAIN hist[i].writes
              /\ DocsAfter(n)[k] = None
           \/ \E m \in 1 .. n :
              /\ k \in DOMAIN hist[m].writes /\ \A i \in m + 1 .. n : k \notin DOMAIN hist[i].writes
              /\ DocsAfter(n)[k] = hist[m].writes[k]
  <1> DEFINE W == {i \in 1 .. n : k \in DOMAIN hist[i].writes}
  <1>1. DocsAfter(n)[k] = IF W = {} THEN None ELSE hist[Max(W)].writes[k]
    BY Zenon DEF DocsAfter
  <1>2. CASE W = {}
    BY <1>1, <1>2, Zenon
  <1>3. CASE W # {}
    <2>0. n \in Nat /\ W \in SUBSET (0 .. n)
      BY DEF HistType
    <2> HIDE DEF W
    <2>1. Max(W) \in W /\ \A y \in W : y <= Max(W)
      BY <1>3, <2>0, MaxOf, Zenon
    <2> USE DEF W
    <2> DEFINE m == Max(W)
    <2>2. m \in 1 .. n /\ k \in DOMAIN hist[m].writes /\ DocsAfter(n)[k] = hist[m].writes[k]
      BY <1>1, <1>3, <2>1, Zenon
    <2>3. \A i \in m + 1 .. n : k \notin DOMAIN hist[i].writes
      <3> SUFFICES ASSUME NEW i \in m + 1 .. n, k \in DOMAIN hist[i].writes
                   PROVE  FALSE
        BY Zenon
      <3>1. i \in W
        BY <2>0, <2>2
      <3> QED BY <2>0, <2>1, <2>2, <3>1
    <2> QED BY <2>2, <2>3, Zenon
  <1> QED BY <1>2, <1>3, Zenon

\* Documents are of their type.
LEMMA DocsAfterType ==
    ASSUME HistType, NEW n \in 0 .. Len(hist), NEW k \in Keys
    PROVE  DocsAfter(n)[k] \in Docs \cup {None}
  <1>1. CASE DocsAfter(n)[k] = None
    BY <1>1, Zenon
  <1>2. CASE DocsAfter(n)[k] # None
    <2>1. PICK m \in 1 .. n : k \in DOMAIN hist[m].writes /\ DocsAfter(n)[k] = hist[m].writes[k]
      BY <1>2, DocsAfterIs, Zenon
    <2>2. m \in DOMAIN hist
      BY <2>1 DEF HistType
    <2>3. hist[m].writes \in WriteSets
      BY <2>2, HistWrites, Zenon
    <2> QED BY <2>1, <2>3, WritesAreDocs, Zenon
  <1> QED BY <1>1, <1>2, Zenon

\* What two lists of transactions say of a key is the same when the last
\* writer is: for a list that is longer by transactions that do not write it.
LEMMA DocsAfterSame ==
    ASSUME HistType, NEW n \in 0 .. Len(hist), NEW m \in 0 .. n, NEW k \in Keys,
           \A i \in m + 1 .. n : k \notin DOMAIN hist[i].writes
    PROVE  DocsAfter(n)[k] = DocsAfter(m)[k]
  <1> DEFINE W(a) == {i \in 1 .. a : k \in DOMAIN hist[i].writes}
  <1>1. W(n) = W(m)
    BY DEF HistType
  <1> QED BY <1>1, Zenon DEF DocsAfter

\* A commit leaves what transactions before it have seen, and adds its writes.
LEMMA DocsAfterCommit ==
    ASSUME HistType, NEW w \in WriteSets, NEW id, hist' = Append(hist, [id |-> id, writes |-> w])
    PROVE  /\ \A n \in 0 .. Len(hist) : DocsAfter(n)' = DocsAfter(n)
           /\ \A k \in Keys : Documents'[k] = IF k \in DOMAIN w THEN w[k] ELSE Documents[k]
  <1>0. /\ Len(hist) \in Nat /\ Len(hist') = Len(hist) + 1
        /\ \A i \in 1 .. Len(hist) : hist'[i] = hist[i]
        /\ hist'[Len(hist) + 1].writes = w
    BY DEF HistType
  <1>1. ASSUME NEW n \in 0 .. Len(hist)
        PROVE  DocsAfter(n)' = DocsAfter(n)
    <2> DEFINE W(k) == {i \in 1 .. n : k \in DOMAIN hist[i].writes}
               V(k) == {i \in 1 .. n : k \in DOMAIN hist'[i].writes}
    <2>1. ASSUME NEW k \in Keys
          PROVE  (IF V(k) = {} THEN None ELSE hist'[Max(V(k))].writes[k])
                     = (IF W(k) = {} THEN None ELSE hist[Max(W(k))].writes[k])
      <3>1. V(k) = W(k)
        BY <1>0
      <3>2. CASE W(k) # {}
        <4>1. n \in Nat /\ W(k) \in SUBSET (0 .. n)
          BY <1>0
        <4> HIDE DEF W
        <4>2. Max(W(k)) \in W(k)
          BY <3>2, <4>1, MaxOf, Zenon
        <4>3. Max(W(k)) \in 1 .. Len(hist)
          BY <1>0, <4>2 DEF W
        <4> QED BY <1>0, <3>1, <3>2, <4>3, Zenon
      <3> QED BY <3>1, <3>2, Zenon
    <2> QED BY <2>1, Zenon DEF DocsAfter
  <1>2. ASSUME NEW k \in Keys
        PROVE  Documents'[k] = IF k \in DOMAIN w THEN w[k] ELSE Documents[k]
    <2> DEFINE n == Len(hist)
               V == {i \in 1 .. n + 1 : k \in DOMAIN hist'[i].writes}
               W == {i \in 1 .. n : k \in DOMAIN hist[i].writes}
    <2>1. Documents'[k] = IF V = {} THEN None ELSE hist'[Max(V)].writes[k]
      BY <1>0, Zenon DEF Documents, DocsAfter
    <2>2. Documents[k] = IF W = {} THEN None ELSE hist[Max(W)].writes[k]
      BY Zenon DEF Documents, DocsAfter
    <2>3. CASE k \in DOMAIN w
      <3>1. n + 1 \in V /\ V \in SUBSET (0 .. n + 1) /\ n + 1 \in Nat /\ \A y \in V : y <= n + 1
        BY <1>0, <2>3
      <3> HIDE DEF V
      <3>2. Max(V) = n + 1
        BY <3>1, MaxIs, Zenon
      <3> QED BY <1>0, <2>1, <2>3, <3>1, <3>2, Zenon
    <2>4. CASE k \notin DOMAIN w
      <3>1. V = W
        BY <1>0, <2>4
      <3>2. CASE W # {}
        <4>1. n \in Nat /\ W \in SUBSET (0 .. n)
          BY <1>0
        <4> HIDE DEF W
        <4>2. Max(W) \in W
          BY <3>2, <4>1, MaxOf, Zenon
        <4>3. Max(W) \in 1 .. n
          BY <4>2, Zenon DEF W
        <4> HIDE DEF V
        <4> QED BY <1>0, <2>1, <2>2, <2>4, <3>1, <3>2, <4>3, Zenon
      <3> QED BY <2>1, <2>2, <2>4, <3>1, <3>2, Zenon
    <2> QED BY <2>3, <2>4, Zenon
  <1> QED BY <1>1, <1>2, Zenon

-----------------------------------------------------------------------------
(* The events of a transaction. Of the events ev, i is the first one of its *)
(* key from lo on, the one that follows j, or the last one of its key.      *)

\* Event i is the first of its key from lo on, follows event j of its key, or
\* is the last of its key.
First(ev, lo, i) == \A m \in lo .. i - 1 : ev[m].key # ev[i].key
Follows(ev, j, i) == ev[j].key = ev[i].key /\ \A m \in j + 1 .. i - 1 : ev[m].key # ev[i].key
Final(ev, i) == \A m \in i + 1 .. Len(ev) : ev[m].key # ev[i].key

\* The search store takes event e of transaction x when it has d, and what
\* an update merges with d is cleared from it unless d is stale.
Fits(x, e, d) ==
    /\ e.op = "insert" => d = None
    /\ e.op = "update" => d # None /\ (e.key \in x.stale \/ d.object \subseteq x.tentative)
    /\ e.op = "delete" => d # None

\* The events from lo on fit one after the other, the first ones the documents base.
Chained(x, lo, base) ==
    \A i \in lo .. Len(x.events) :
        /\ First(x.events, lo, i) => Fits(x, x.events[i], base[x.events[i].key])
        /\ \A j \in lo .. i - 1 : Follows(x.events, j, i) => Fits(x, x.events[i], x.events[j].doc)

\* The last event of a key has what the transaction writes.
WritesLast(x) ==
    \A i \in 1 .. Len(x.events) : Final(x.events, i) =>
        x.events[i].key \in DOMAIN x.writes /\ x.writes[x.events[i].key] = x.events[i].doc

\* What the statements of a transaction that sees the documents base leave
\* for its commit.
Sound(x, base) ==
    /\ \A i \in 1 .. Len(x.events) : x.events[i].op # "replace" => x.events[i].key \in x.reads
    /\ Chained(x, 1, base)
    /\ WritesLast(x)

\* What holds of a transaction on the documents of its snapshot.
TxSound(x) == Sound(x, DocsAfter(x.snap))

\* Transaction x has become y with one more event, e.
Extends(x, y, e) ==
    /\ y.events = Append(x.events, e) /\ y.snap = x.snap
    /\ y.writes = [j \in DOMAIN x.writes \cup {e.key} |-> IF j = e.key THEN e.doc ELSE x.writes[j]]
    /\ x.reads \subseteq y.reads /\ (e.op # "replace" => e.key \in y.reads)
    /\ x.stale \subseteq y.stale
    /\ x.tentative \subseteq y.tentative \/ Updated(x.events) \subseteq y.stale
    /\ Fits(y, e, View(x, e.key))

\* Every key of the events has a last event.
LEMMA HasFinal ==
    ASSUME NEW ev \in Seq(Event), NEW k \in KeysOf(ev)
    PROVE  \E i \in 1 .. Len(ev) : ev[i].key = k /\ Final(ev, i)
  <1> DEFINE S == {i \in 1 .. Len(ev) : ev[i].key = k}
  <1>1. Len(ev) \in Nat /\ S \in SUBSET (0 .. Len(ev)) /\ S # {}
    BY DEF KeysOf
  <1> HIDE DEF S
  <1>2. Max(S) \in S /\ \A y \in S : y <= Max(S)
    BY <1>1, MaxOf, Zenon
  <1> DEFINE i == Max(S)
  <1>3. i \in 1 .. Len(ev) /\ ev[i].key = k
    BY <1>2, Zenon DEF S
  <1> HIDE DEF i
  <1>4. ASSUME NEW m \in i + 1 .. Len(ev), ev[m].key = ev[i].key
        PROVE  FALSE
    <2>1. m \in S
      BY <1>1, <1>3, <1>4 DEF S
    <2>2. m <= i
      BY <1>2, <2>1, Zenon DEF i
    <2> QED BY <1>1, <1>3, <2>2
  <1> QED BY <1>3, <1>4, Zenon DEF Final

\* A statement that extends a sound transaction leaves a sound one.
LEMMA ExtendsSound ==
    ASSUME NEW x \in SessionType, NEW y \in SessionType, NEW e \in Event, Extends(x, y, e),
           TxSound(x), DOMAIN x.writes \subseteq KeysOf(x.events)
    PROVE  TxSound(y)
  <1> DEFINE n == Len(x.events)
  <1>0. x.events \in Seq(Event) /\ y.events \in Seq(Event) /\ e.key \in Keys
    BY Zenon DEF SessionType, Event
  <1>1. /\ n \in Nat /\ Len(y.events) = n + 1 /\ y.events[n + 1] = e
        /\ \A i \in 1 .. n : y.events[i] = x.events[i]
    BY <1>0 DEF Extends
  <1>2. /\ e.key \in DOMAIN y.writes /\ y.writes[e.key] = e.doc
        /\ \A j \in DOMAIN x.writes \ {e.key} : j \in DOMAIN y.writes /\ y.writes[j] = x.writes[j]
    BY Zenon DEF Extends
  <1> HIDE DEF n
  <1>3. ASSUME NEW i \in 1 .. Len(y.events)
        PROVE  y.events[i].op # "replace" => y.events[i].key \in y.reads
    BY <1>1, <1>3 DEF TxSound, Sound, Extends, n
  <1>4. WritesLast(y)
    <2> SUFFICES ASSUME NEW i \in 1 .. Len(y.events), Final(y.events, i)
                 PROVE  y.events[i].key \in DOMAIN y.writes /\ y.writes[y.events[i].key] = y.events[i].doc
      BY Zenon DEF WritesLast
    <2>1. CASE i = n + 1
      BY <1>1, <1>2, <2>1, Zenon
    <2>2. CASE i # n + 1
      <3>1. i \in 1 .. n /\ y.events[i] = x.events[i] /\ y.events[i].key # e.key
        BY <1>1, <2>2 DEF Final
      <3>2. Final(x.events, i)
        BY <1>1, <3>1, SMTT(40) DEF Final, n
      <3> QED BY <1>2, <3>1, <3>2, Zenon DEF TxSound, Sound, WritesLast, n
    <2> QED BY <2>1, <2>2, Zenon
  <1>5. \A f, d : f.op = "update" /\ f.key \in Updated(x.events) /\ Fits(x, f, d) => Fits(y, f, d)
    BY Zenon DEF Extends, Fits
  <1>6. ASSUME NEW i \in 1 .. n, NEW d, Fits(x, x.events[i], d)
        PROVE  Fits(y, x.events[i], d)
    <2>1. x.events[i].op = "update" => x.events[i].key \in Updated(x.events)
      BY <1>0, <1>1 DEF Updated, n
    <2> QED BY <1>5, <1>6, <2>1, Zenon DEF Fits
  <1>7. Chained(y, 1, DocsAfter(y.snap))
    <2> DEFINE base == DocsAfter(x.snap)
    <2>0. y.snap = x.snap
      BY Zenon DEF Extends
    <2> HIDE DEF base
    <2> SUFFICES ASSUME NEW i \in 1 .. Len(y.events)
                 PROVE  /\ First(y.events, 1, i) => Fits(y, y.events[i], base[y.events[i].key])
                        /\ \A j \in 1 .. i - 1 : Follows(y.events, j, i) => Fits(y, y.events[i], y.events[j].doc)
      BY <2>0, Zenon DEF Chained, base
    <2>1. CASE i # n + 1
      <3>1. i \in 1 .. n /\ y.events[i] = x.events[i] /\ \A j \in 1 .. i - 1 : y.events[j] = x.events[j]
        BY <1>1, <2>1
      <3>2. First(y.events, 1, i) => First(x.events, 1, i)
        BY <1>1, <3>1, Zenon DEF First
      <3>3. \A j \in 1 .. i - 1 : Follows(y.events, j, i) => Follows(x.events, j, i)
        BY <1>1, <3>1 DEF Follows
      <3>4. /\ First(x.events, 1, i) => Fits(x, x.events[i], base[x.events[i].key])
            /\ \A j \in 1 .. i - 1 : Follows(x.events, j, i) => Fits(x, x.events[i], x.events[j].doc)
        BY <3>1, Zenon DEF TxSound, Sound, Chained, base, n
      <3> QED BY <1>6, <3>1, <3>2, <3>3, <3>4, Zenon
    <2>2. CASE i = n + 1
      <3>1. Fits(y, e, View(x, e.key)) /\ y.events[i] = e
        BY <1>1, <2>2, Zenon DEF Extends
      <3>2. ASSUME First(y.events, 1, i)
            PROVE  View(x, e.key) = base[e.key]
        <4>1. e.key \notin KeysOf(x.events)
          <5>1. \A m \in 1 .. n : x.events[m].key # e.key
            BY <1>1, <2>2, <3>2 DEF First
          <5>2. DOMAIN x.events = 1 .. n
            BY <1>0 DEF n
          <5> QED BY <5>1, <5>2, Zenon DEF KeysOf
        <4> QED BY <4>1, Zenon DEF View, base
      <3>3. ASSUME NEW j \in 1 .. i - 1, Follows(y.events, j, i)
            PROVE  View(x, e.key) = y.events[j].doc
        <4>0. j \in 1 .. n /\ i - 1 = n
          BY <1>0, <1>1, <2>2
        <4>3. y.events[j] = x.events[j] /\ \A m \in j + 1 .. n : m \in 1 .. n /\ y.events[m] = x.events[m]
          BY <1>0, <1>1, <4>0
        <4>4. y.events[i] = e /\ y.events[j].key = e.key /\ \A m \in j + 1 .. n : y.events[m].key # e.key
          BY <1>1, <2>2, <3>3, <4>0, Zenon DEF Follows
        <4>5. Final(x.events, j)
          BY <4>3, <4>4, Zenon DEF Final, n
        <4>1. j \in 1 .. n /\ x.events[j].key = e.key /\ y.events[j] = x.events[j] /\ Final(x.events, j)
          BY <4>0, <4>3, <4>4, <4>5, Zenon
        <4>2. e.key \in DOMAIN x.writes /\ x.writes[e.key] = x.events[j].doc
          BY <4>1, Zenon DEF TxSound, Sound, WritesLast, n
        <4> QED BY <4>1, <4>2, Zenon DEF View
      <3> QED BY <3>1, <3>2, <3>3, Zenon
    <2> QED BY <2>1, <2>2, Zenon
  <1> QED BY <1>3, <1>4, <1>7, Zenon DEF TxSound, Sound

\* What a statement leaves of a session as it is.
Same(x, y) ==
    /\ y.pc = x.pc /\ y.explicit = x.explicit /\ y.id = x.id /\ y.st = x.st /\ y.snap = x.snap
    /\ y.next = x.next /\ y.reply = x.reply

\* The session is one whose statement can run.
Runnable(x) ==
    /\ x \in SessionType /\ x.snap <= Len(hist) /\ Len(x.events) <= MaxStatements
    /\ DOMAIN x.writes \subseteq KeysOf(x.events) /\ x.stale \subseteq KeysOf(x.events)

\* What a statement leaves: the session is of its type, and sound when it was.
RanWell(x, y) ==
    /\ y \in SessionType /\ Same(x, y) /\ Len(x.events) <= Len(y.events)
    /\ DOMAIN y.writes \subseteq KeysOf(y.events) /\ y.stale \subseteq KeysOf(y.events)
    /\ x.failed => y.failed
    /\ TxSound(x) /\ ~y.failed => TxSound(y)

\* The document a session sees.
LEMMA ViewType ==
    ASSUME HistType, NEW x \in SessionType, x.snap <= Len(hist), NEW k \in Keys
    PROVE  View(x, k) \in Docs \cup {None}
  <1>1. x.snap \in 0 .. Len(hist) /\ x.writes \in WriteSets
    BY DEF SessionType, HistType
  <1> QED BY <1>1, DocsAfterType, WritesAreDocs, Zenon DEF View

\* Events that are added keep the keys there were.
LEMMA KeysOfAppend ==
    ASSUME NEW ev \in Seq(Event), NEW e \in Event
    PROVE  /\ KeysOf(Append(ev, e)) = KeysOf(ev) \cup {e.key}
           /\ Append(ev, e) \in Seq(Event) /\ Len(Append(ev, e)) = Len(ev) + 1
  <1> DEFINE n == Len(ev)
             w == Append(ev, e)
  <1>1. /\ n \in Nat /\ w \in Seq(Event) /\ Len(w) = n + 1 /\ w[n + 1] = e /\ \A i \in 1 .. n : w[i] = ev[i]
        /\ DOMAIN w = 1 .. n + 1 /\ DOMAIN ev = 1 .. n
    OBVIOUS
  <1> HIDE DEF n, w
  <1>2. ASSUME NEW k \in KeysOf(w)
        PROVE  k \in KeysOf(ev) \cup {e.key}
    <2>1. PICK i \in 1 .. n + 1 : w[i].key = k
      BY <1>1, Zenon DEF KeysOf
    <2> QED BY <1>1, <2>1 DEF KeysOf
  <1>3. ASSUME NEW k \in KeysOf(ev) \cup {e.key}
        PROVE  k \in KeysOf(w)
    <2>1. CASE k = e.key
      BY <1>1, <2>1 DEF KeysOf
    <2>2. CASE k \in KeysOf(ev)
      <3>1. PICK i \in 1 .. n : ev[i].key = k
        BY <1>1, <2>2, Zenon DEF KeysOf
      <3> QED BY <1>1, <3>1 DEF KeysOf
    <2> QED BY <2>1, <2>2, Zenon
  <1>4. KeysOf(w) = KeysOf(ev) \cup {e.key}
    BY <1>2, <1>3, Zenon
  <1> QED BY <1>1, <1>4, Zenon DEF n, w

\* The writes of a session that wrote one document more.
LEMMA WroteType ==
    ASSUME NEW w \in WriteSets, NEW k \in Keys, NEW d \in Docs \cup {None}
    PROVE  [j \in DOMAIN w \cup {k} |-> IF j = k THEN d ELSE w[j]] \in WriteSets
  <1>1. w \in [DOMAIN w -> Docs \cup {None}] /\ DOMAIN w \in SUBSET Keys
    BY Zenon DEF WriteSets
  <1>2. [j \in DOMAIN w \cup {k} |-> IF j = k THEN d ELSE w[j]] \in [DOMAIN w \cup {k} -> Docs \cup {None}]
    BY <1>1, Zenon
  <1>3. DOMAIN w \cup {k} \in SUBSET Keys
    BY <1>1, Zenon
  <1> QED BY <1>2, <1>3, Zenon DEF WriteSets

\* A statement reads a key.
LEMMA ReadIs ==
    ASSUME NEW x \in SessionType, NEW k \in Keys
    PROVE  LET y == Read(x, k)
           IN  /\ y \in SessionType /\ Same(x, y) /\ y.reads = x.reads \cup {k} /\ y.events = x.events
               /\ y.writes = x.writes /\ y.tentative = x.tentative /\ y.stale = x.stale /\ y.failed = x.failed
  BY Zenon DEF Read, SessionType, Same

\* The listener is told of a write.
LEMMA ToldIs ==
    ASSUME NEW x \in SessionType, NEW op, NEW k, NEW d, [op |-> op, key |-> k, doc |-> d] \in Event
    PROVE  LET y == Told(x, op, k, d)
           IN  /\ y \in SessionType /\ Same(x, y) /\ y.events = Append(x.events, [op |-> op, key |-> k, doc |-> d])
               /\ y.reads = x.reads
               /\ y.writes = x.writes /\ y.tentative = x.tentative /\ y.stale = x.stale /\ y.failed = x.failed
  <1> DEFINE e == [op |-> op, key |-> k, doc |-> d]
  <1>1. x.events \in Seq(Event)
    BY Zenon DEF SessionType
  <1>2. Append(x.events, e) \in Seq(Event)
    BY <1>1
  <1>3. Told(x, op, k, d) = [x EXCEPT !.events = Append(@, e)]
    BY Zenon DEF Told
  <1> HIDE DEF e
  <1>4. LET y == [x EXCEPT !.events = Append(@, e)]
        IN  /\ y \in SessionType /\ Same(x, y) /\ y.events = Append(x.events, e)
            /\ y.reads = x.reads
            /\ y.writes = x.writes /\ y.tentative = x.tentative /\ y.stale = x.stale /\ y.failed = x.failed
    BY <1>2, Zenon DEF SessionType, Same
  <1> QED BY <1>3, <1>4, Zenon DEF e

\* The store is told of it.
LEMMA WroteIs ==
    ASSUME NEW x \in SessionType, NEW k \in Keys, NEW d \in Docs \cup {None}
    PROVE  LET y == Wrote(x, k, d)
           IN  /\ y \in SessionType /\ Same(x, y)
               /\ y.writes = [j \in DOMAIN x.writes \cup {k} |-> IF j = k THEN d ELSE x.writes[j]]
               /\ y.reads = x.reads /\ y.events = x.events
               /\ y.tentative = x.tentative /\ y.stale = x.stale /\ y.failed = x.failed
  <1> DEFINE w == [j \in DOMAIN x.writes \cup {k} |-> IF j = k THEN d ELSE x.writes[j]]
  <1>1. x.writes \in WriteSets
    BY Zenon DEF SessionType
  <1>2. w \in WriteSets
    BY <1>1, WroteType, Zenon
  <1>3. Wrote(x, k, d) = [x EXCEPT !.writes = w]
    BY Zenon DEF Wrote
  <1> HIDE DEF w
  <1>4. LET y == [x EXCEPT !.writes = w]
        IN  /\ y \in SessionType /\ Same(x, y) /\ y.writes = w
            /\ y.reads = x.reads /\ y.events = x.events
            /\ y.tentative = x.tentative /\ y.stale = x.stale /\ y.failed = x.failed
    BY <1>2, Zenon DEF SessionType, Same
  <1> QED BY <1>3, <1>4, Zenon DEF w

\* A statement that only reads.
LEMMA ReadStep ==
    ASSUME NEW x, Runnable(x), NEW k \in Keys
    PROVE  RanWell(x, Read(x, k)) /\ Runnable(Read(x, k)) /\ k \in Read(x, k).reads /\ Read(x, k).events = x.events
  <1> DEFINE y == Read(x, k)
  <1>1. /\ y \in SessionType /\ Same(x, y) /\ y.reads = x.reads \cup {k} /\ y.events = x.events
        /\ y.writes = x.writes /\ y.tentative = x.tentative /\ y.stale = x.stale /\ y.failed = x.failed
    BY ReadIs, Zenon DEF Runnable
  <1> HIDE DEF y
  <1>2. x.events \in Seq(Event)
    BY Zenon DEF Runnable, SessionType
  <1>3. TxSound(x) => TxSound(y)
    <2> DEFINE base == DocsAfter(x.snap)
    <2>1. DocsAfter(y.snap) = base
      BY <1>1, Zenon DEF Same
    <2> HIDE DEF base
    <2>2. ASSUME NEW e, NEW d
          PROVE  Fits(x, e, d) => Fits(y, e, d)
      BY <1>1, Zenon DEF Fits
    <2>3. Chained(x, 1, base) => Chained(y, 1, base)
      BY <1>1, <2>2, Zenon DEF Chained
    <2>4. WritesLast(x) => WritesLast(y)
      BY <1>1, Zenon DEF WritesLast
    <2>5. Sound(x, base) => Sound(y, base)
      BY <1>1, <2>3, <2>4, Zenon DEF Sound
    <2> QED BY <2>1, <2>5, Zenon DEF TxSound, base
  <1> QED BY <1>1, <1>2, <1>3 DEF RanWell, Runnable, Same, y

\* A statement that writes, of which the listener has been told.
LEMMA WriteStep ==
    ASSUME NEW x, Runnable(x), NEW z \in SessionType, NEW e \in Event,
           Same(x, z), Extends(x, z, e), z.stale \subseteq KeysOf(x.events) \cup {e.key}, x.failed => z.failed
    PROVE  RanWell(x, z)
  <1>1. x \in SessionType /\ x.events \in Seq(Event)
    BY Zenon DEF Runnable, SessionType
  <1>2. /\ KeysOf(z.events) = KeysOf(x.events) \cup {e.key} /\ Len(z.events) = Len(x.events) + 1
        /\ Len(x.events) \in Nat
    BY <1>1, KeysOfAppend DEF Extends
  <1>3. DOMAIN z.writes = DOMAIN x.writes \cup {e.key}
    BY Zenon DEF Extends
  <1>4. TxSound(x) => TxSound(z)
    BY <1>1, ExtendsSound, Zenon DEF Runnable
  <1>5. Len(x.events) <= Len(z.events)
    BY <1>2
  <1> QED BY <1>2, <1>3, <1>4, <1>5, Zenon DEF RanWell, Runnable

\* The document of a statement.
LEMMA NewDocType ==
    ASSUME NEW x, Runnable(x), NEW object \in SUBSET Parts
    PROVE  NewDoc(x, object) \in Docs
  <1>1. x.id \in 0 .. MaxTx /\ x.events \in Seq(Event) /\ MaxStatements \in Nat \ {0}
    BY SessionAssumption, Zenon DEF Runnable, SessionType
  <1>2. Len(x.events) + 1 \in 1 .. 2 * MaxStatements
    <2>1. Len(x.events) \in Nat /\ Len(x.events) <= MaxStatements
      BY <1>1 DEF Runnable
    <2> QED BY <1>1, <2>1
  <1> QED BY <1>1, <1>2, Zenon DEF NewDoc, Docs

\* Session x has become y, which has told the listener and the store of e.
Adds(x, y, e) ==
    /\ y \in SessionType /\ Same(x, y)
    /\ y.events = Append(x.events, e)
    /\ y.writes = [j \in DOMAIN x.writes \cup {e.key} |-> IF j = e.key THEN e.doc ELSE x.writes[j]]
    /\ y.tentative = x.tentative /\ y.stale = x.stale /\ y.failed = x.failed

\* Told, then Wrote: one event more, and the other fields as they were.
LEMMA ToldWrote ==
    ASSUME NEW x \in SessionType, NEW op, NEW k \in Keys, NEW d, [op |-> op, key |-> k, doc |-> d] \in Event
    PROVE  /\ Adds(x, Wrote(Told(x, op, k, d), k, d), [op |-> op, key |-> k, doc |-> d])
           /\ Wrote(Told(x, op, k, d), k, d).reads = x.reads
  <1> DEFINE u == Told(x, op, k, d)
             e == [op |-> op, key |-> k, doc |-> d]
  <1>1. /\ u \in SessionType /\ Same(x, u) /\ u.events = Append(x.events, e)
        /\ u.reads = x.reads
        /\ u.writes = x.writes /\ u.tentative = x.tentative /\ u.stale = x.stale /\ u.failed = x.failed
    BY ToldIs
  <1>2. d \in Docs \cup {None}
    BY Zenon DEF Event
  <1>6. e.key = k /\ e.doc = d
    BY Zenon
  <1> HIDE DEF u, e
  <1> DEFINE y == Wrote(u, k, d)
  <1>3. /\ y \in SessionType /\ Same(u, y)
        /\ y.writes = [j \in DOMAIN u.writes \cup {k} |-> IF j = k THEN d ELSE u.writes[j]]
        /\ y.reads = u.reads /\ y.events = u.events
        /\ y.tentative = u.tentative /\ y.stale = u.stale /\ y.failed = u.failed
    <2>1. u \in SessionType
      BY <1>1, Zenon
    <2> QED BY <1>2, <2>1, WroteIs, Zenon
  <1> HIDE DEF y
  <1>4. Same(x, y)
    BY <1>1, <1>3, Zenon DEF Same
  <1>5. Adds(x, y, e) /\ y.reads = x.reads
    BY <1>1, <1>3, <1>4, <1>6, Zenon DEF Adds
  <1> QED BY <1>5, Zenon DEF y, u, e

\* Read, Told and Wrote: the statement extends the transaction when its event
\* fits what the transaction sees.
LEMMA OneWrite ==
    ASSUME NEW x, Runnable(x), NEW op, NEW k \in Keys, NEW d, [op |-> op, key |-> k, doc |-> d] \in Event
    PROVE  LET e == [op |-> op, key |-> k, doc |-> d]
               y == Wrote(Told(Read(x, k), op, k, d), k, d)
           IN  /\ Adds(x, y, e) /\ y.reads = x.reads \cup {k}
               /\ Fits(y, e, View(x, k)) => Extends(x, y, e) /\ RanWell(x, y)
  <1> DEFINE e == [op |-> op, key |-> k, doc |-> d]
             r == Read(x, k)
             y == Wrote(Told(r, op, k, d), k, d)
  <1>1. e \in Event /\ e.key = k
    BY Zenon
  <1>2. /\ r \in SessionType /\ Same(x, r) /\ r.reads = x.reads \cup {k} /\ r.events = x.events
        /\ r.writes = x.writes /\ r.tentative = x.tentative /\ r.stale = x.stale /\ r.failed = x.failed
    BY ReadIs, Zenon DEF Runnable
  <1> HIDE DEF r
  <1>3. Adds(r, y, e) /\ y.reads = r.reads
    BY <1>2, ToldWrote
  <1> HIDE DEF y, e
  <1>4. Adds(x, y, e) /\ y.reads = x.reads \cup {k}
    BY <1>2, <1>3, Zenon DEF Same, Adds
  <1>5. ASSUME Fits(y, e, View(x, k))
        PROVE  Extends(x, y, e) /\ RanWell(x, y)
    <2>1. Extends(x, y, e)
      BY <1>1, <1>4, <1>5, Zenon DEF Extends, Adds, Same
    <2>2. y.stale \subseteq KeysOf(x.events) \cup {e.key} /\ (x.failed => y.failed) /\ y \in SessionType /\ Same(x, y)
      BY <1>4, Zenon DEF Runnable, Adds
    <2> QED BY <1>1, <2>1, <2>2, WriteStep, Zenon
  <1> QED BY <1>4, <1>5, Zenon DEF y, e, r

\* Replace writes whatever was there.
LEMMA ReplaceStep ==
    ASSUME NEW x, Runnable(x), NEW k \in Keys, NEW d \in Docs
    PROVE  RanWell(x, Replace(x, k, d))
  <1> DEFINE e == [op |-> "replace", key |-> k, doc |-> d]
             y == Wrote(Told(Read(x, k), "replace", k, d), k, d)
  <1>1. Fits(y, e, View(x, k))
    BY Zenon DEF Fits
  <1>0. e \in Event
    BY Zenon DEF Event
  <1>2. Fits(y, e, View(x, k)) => RanWell(x, y)
    BY <1>0, OneWrite, Zenon
  <1> QED BY <1>1, <1>2, Zenon DEF Replace

\* Delete finds a document or only reads.
LEMMA DeleteStep ==
    ASSUME NEW x, Runnable(x), NEW k \in Keys
    PROVE  /\ RanWell(x, Delete(x, k))
           /\ View(x, k) # None => Len(Delete(x, k).events) = Len(x.events) + 1
  <1> DEFINE e == [op |-> "delete", key |-> k, doc |-> None]
             y == Wrote(Told(Read(x, k), "delete", k, None), k, None)
  <1>1. CASE View(x, k) = None
    BY <1>1, ReadStep, Zenon DEF Delete
  <1>2. CASE View(x, k) # None
    <2>1. Fits(y, e, View(x, k))
      BY <1>2, Zenon DEF Fits
    <2>0. e \in Event
      BY Zenon DEF Event
    <2>2. Adds(x, y, e) /\ (Fits(y, e, View(x, k)) => RanWell(x, y))
      BY <2>0, OneWrite, Zenon
    <2>3. Delete(x, k) = y /\ x.events \in Seq(Event)
      BY <1>2, Zenon DEF Delete, Runnable, SessionType
    <2> HIDE DEF e, y
    <2>4. Len(y.events) = Len(x.events) + 1
      BY <2>0, <2>2, <2>3, KeysOfAppend, Zenon DEF Adds
    <2> QED BY <2>1, <2>2, <2>3, <2>4, Zenon
  <1> QED BY <1>1, <1>2, Zenon

\* Insert is refused when there is a document.
LEMMA InsertStep ==
    ASSUME NEW x, Runnable(x), NEW k \in Keys, NEW d \in Docs
    PROVE  RanWell(x, Insert(x, k, d))
  <1> DEFINE e == [op |-> "insert", key |-> k, doc |-> d]
             told == Told(Read(x, k), "insert", k, d)
             y == Wrote(told, k, d)
  <1>1. CASE View(x, k) = None
    <2>1. Fits(y, e, View(x, k))
      BY <1>1, Zenon DEF Fits
    <2>0. e \in Event
      BY Zenon DEF Event
    <2>2. Fits(y, e, View(x, k)) => RanWell(x, y)
      BY <2>0, OneWrite, Zenon
    <2> QED BY <1>1, <2>1, <2>2, Zenon DEF Insert
  <1>2. CASE View(x, k) # None
    <2> DEFINE r == Read(x, k)
               z == [told EXCEPT !.failed = TRUE]
    <2>0. x.events \in Seq(Event) /\ e \in Event /\ e.key = k
      BY Zenon DEF Runnable, SessionType, Event
    <2>1. /\ r \in SessionType /\ Same(x, r) /\ r.events = x.events /\ r.writes = x.writes /\ r.stale = x.stale
      BY ReadIs, Zenon DEF Runnable
    <2> HIDE DEF r
    <2>2. /\ told \in SessionType /\ Same(r, told) /\ told.events = Append(r.events, e)
          /\ told.writes = r.writes /\ told.stale = r.stale
      BY <2>0, <2>1, ToldIs, SMTT(40) DEF r
    <2> HIDE DEF told
    <2>3. /\ z \in SessionType /\ Same(told, z) /\ z.events = told.events /\ z.writes = told.writes
          /\ z.stale = told.stale /\ z.failed
      BY <2>2, Zenon DEF SessionType, Same
    <2> HIDE DEF z, e
    <2>4. KeysOf(z.events) = KeysOf(x.events) \cup {k} /\ Len(z.events) = Len(x.events) + 1 /\ Len(x.events) \in Nat
      BY <2>0, <2>1, <2>2, <2>3, KeysOfAppend, SMTT(40)
    <2>5. Same(x, z)
      BY <2>1, <2>2, <2>3, Zenon DEF Same
    <2>6. Len(x.events) <= Len(z.events)
      BY <2>4
    <2>7. RanWell(x, z)
      BY <2>1, <2>2, <2>3, <2>4, <2>5, <2>6, Zenon DEF RanWell, Runnable
    <2> QED BY <1>2, <2>7, Zenon DEF Insert, z, told, r
  <1> QED BY <1>1, <1>2, Zenon

\* Update and Unset find a document or only read; the one leaves the keys of
\* the object for the indexer, the other marks the key.
LEMMA UpdateStep ==
    ASSUME HistType, NEW x, Runnable(x), NEW k \in Keys, NEW d \in Docs
    PROVE  RanWell(x, Update(x, k, d)) /\ RanWell(x, Unset(x, k, d))
  <1> DEFINE e == [op |-> "update", key |-> k, doc |-> d]
             y == Wrote(Told(Read(x, k), "update", k, d), k, d)
             v == View(x, k)
  <1>1. CASE v = None
    BY <1>1, ReadStep, Zenon DEF Update, Unset
  <1>2. CASE v # None
    <2>0. e \in Event
      BY Zenon DEF Event
    <2>1. Adds(x, y, e) /\ y.reads = x.reads \cup {k} /\ (Fits(y, e, v) => RanWell(x, y))
      BY <2>0, OneWrite
    <2>2. e.op = "update" /\ e.key = k
      BY Zenon
    <2>3. v \in Docs /\ v.object \in SUBSET Parts /\ x \in SessionType
      BY <1>2, ViewType, Zenon DEF Runnable, Docs
    <2>4. x.events \in Seq(Event) /\ Updated(x.events) \subseteq KeysOf(x.events)
      BY <2>3, Zenon DEF SessionType, KeysOf, Updated
    <2>5. KeysOf(x.events) \subseteq Keys
      <3>1. \A i \in DOMAIN x.events : x.events[i] \in Event
        BY <2>4, ElementOf, Zenon
      <3> QED BY <3>1, Zenon DEF KeysOf, Event
    <2>6. Update(x, k, d) = IF v.object = {} THEN y
                            ELSE [y EXCEPT !.tentative = v.object,
                                           !.stale = IF x.tentative \in {{}, v.object} THEN @
                                                     ELSE @ \cup Updated(x.events)]
      BY <1>2, Zenon DEF Update
    <2>7. Unset(x, k, d) = [y EXCEPT !.stale = @ \cup {k}]
      BY <1>2, Zenon DEF Unset
    <2> HIDE DEF e, y, v
    <2>8. ASSUME NEW z, z \in SessionType, Same(y, z), z.events = y.events, z.writes = y.writes, z.reads = y.reads,
                 z.failed = y.failed, y.stale \subseteq z.stale, z.stale \subseteq KeysOf(x.events) \cup {k},
                 y.tentative \subseteq z.tentative \/ Updated(x.events) \subseteq z.stale,
                 k \in z.stale \/ v.object \subseteq z.tentative
          PROVE  RanWell(x, z)
      <3>1. Fits(z, e, v)
        BY <1>2, <2>2, <2>8, Zenon DEF Fits
      <3>2. Same(x, z)
        BY <2>1, <2>8, Zenon DEF Adds, Same
      <3>3. Extends(x, z, e)
        BY <2>1, <2>2, <2>8, <3>1, <3>2, Zenon DEF Extends, Adds, Same, v
      <3>4. z.stale \subseteq KeysOf(x.events) \cup {e.key} /\ (x.failed => z.failed)
        BY <2>1, <2>2, <2>8, Zenon DEF Adds
      <3> QED BY <2>0, <2>8, <3>2, <3>3, <3>4, WriteStep, Zenon
    <2>9. y \in SessionType /\ y.stale = x.stale /\ y.tentative = x.tentative /\ x.stale \subseteq KeysOf(x.events)
      BY <2>1, Zenon DEF Adds, Runnable
    <2>10. RanWell(x, Update(x, k, d))
      <3>1. CASE v.object = {}
        <4>1. Fits(y, e, v)
          BY <1>2, <2>2, <3>1, Zenon DEF Fits
        <4> QED BY <2>1, <2>2, <2>6, <3>1, <4>1, Zenon
      <3>2. CASE v.object # {}
        <4> DEFINE stale == IF x.tentative \in {{}, v.object} THEN y.stale ELSE y.stale \cup Updated(x.events)
                   z == [y EXCEPT !.tentative = v.object, !.stale = stale]
        <4>1. Update(x, k, d) = z
          BY <2>6, <3>2, Zenon
        <4>2. stale \in SUBSET Keys /\ y.stale \subseteq stale /\ stale \subseteq KeysOf(x.events) \cup {k}
          BY <2>4, <2>5, <2>9, Zenon
        <4>3. x.tentative \subseteq v.object \/ Updated(x.events) \subseteq stale
          BY Zenon
        <4> HIDE DEF stale
        <4>4. /\ z \in SessionType /\ Same(y, z) /\ z.events = y.events /\ z.writes = y.writes /\ z.reads = y.reads
              /\ z.failed = y.failed /\ z.stale = stale /\ z.tentative = v.object
          BY <2>3, <2>9, <4>2, Zenon DEF SessionType, Same
        <4> HIDE DEF z
        <4>5. RanWell(x, z)
          BY <2>8, <2>9, <4>2, <4>3, <4>4, Zenon
        <4> QED BY <4>1, <4>5, Zenon
      <3> QED BY <3>1, <3>2, Zenon
    <2>11. RanWell(x, Unset(x, k, d))
      <3> DEFINE z == [y EXCEPT !.stale = @ \cup {k}]
      <3>1. /\ z \in SessionType /\ Same(y, z) /\ z.events = y.events /\ z.writes = y.writes /\ z.reads = y.reads
            /\ z.failed = y.failed /\ z.stale = y.stale \cup {k} /\ z.tentative = y.tentative
        BY <2>9, Zenon DEF SessionType, Same
      <3> HIDE DEF z
      <3>2. RanWell(x, z)
        BY <2>8, <2>9, <3>1, Zenon
      <3> QED BY <2>7, <3>2, Zenon DEF z
    <2> QED BY <2>10, <2>11, Zenon
  <1> QED BY <1>1, <1>2, Zenon

\* Move deletes under one key and replaces under the other.
LEMMA MoveStep ==
    ASSUME HistType, NEW x, Runnable(x), Len(x.events) < MaxStatements, NEW k \in Keys, NEW to \in Keys
    PROVE  RanWell(x, Move(x, k, to))
  <1> DEFINE v == View(x, k)
             gone == Delete(x, k)
             doc == NewDoc(gone, v.object)
             y == Wrote(Told(gone, "replace", to, doc), to, doc)
             e == [op |-> "replace", key |-> to, doc |-> doc]
  <1>1. CASE v = None
    BY <1>1, ReadStep, Zenon DEF Move
  <1>2. CASE v # None
    <2>1. RanWell(x, gone) /\ Len(gone.events) = Len(x.events) + 1
      BY <1>2, DeleteStep, Zenon
    <2>2. v.object \in SUBSET Parts
      BY <1>2, ViewType, Zenon DEF Runnable, Docs
    <2>3. Move(x, k, to) = y
      BY <1>2, Zenon DEF Move
    <2> HIDE DEF gone, v
    <2>4. Runnable(gone)
      <3>1. Len(x.events) \in Nat /\ MaxStatements \in Nat
        BY SessionAssumption DEF Runnable, SessionType
      <3>2. Len(gone.events) <= MaxStatements
        BY <2>1, <3>1
      <3> QED BY <2>1, <3>2, Zenon DEF RanWell, Runnable, Same
    <2>5. doc \in Docs
      BY <2>2, <2>4, NewDocType, Zenon
    <2> HIDE DEF doc
    <2>6. e \in Event /\ gone \in SessionType /\ e.op = "replace" /\ e.key = to
      BY <2>4, <2>5, Zenon DEF Event, Runnable
    <2>7. Fits(y, e, View(gone, to))
      BY <2>5, Zenon DEF Fits
    <2>8. Adds(gone, y, e) /\ y.reads = gone.reads
      <3>1. e \in Event /\ gone \in SessionType
        BY <2>6, Zenon
      <3> QED BY <3>1, ToldWrote
    <2> HIDE DEF y, e
    <2>9. Extends(gone, y, e)
      BY <2>6, <2>7, <2>8, Zenon DEF Extends, Adds, Same
    <2>10. /\ y.stale \subseteq KeysOf(gone.events) \cup {e.key} /\ (gone.failed => y.failed)
           /\ y \in SessionType /\ Same(gone, y)
      BY <2>1, <2>8, Zenon DEF RanWell, Adds
    <2>11. RanWell(gone, y)
      BY <2>4, <2>6, <2>9, <2>10, WriteStep, Zenon
    <2>12. Len(x.events) <= Len(y.events)
      <3>1. Len(x.events) \in Nat /\ Len(gone.events) \in Nat /\ Len(y.events) \in Nat
        BY <2>4, <2>10 DEF Runnable, SessionType
      <3> QED BY <2>1, <2>11, <3>1, SMTT(40) DEF RanWell
    <2>13. RanWell(x, y)
      BY <2>1, <2>11, <2>12, Zenon DEF RanWell, Same
    <2> QED BY <2>3, <2>13, Zenon
  <1> QED BY <1>1, <1>2, Zenon

\* Every statement.
LEMMA RunStep ==
    ASSUME HistType, NEW x, Runnable(x), Len(x.events) < MaxStatements, NEW st \in Statements
    PROVE  RanWell(x, Run(x, st))
  <1> DEFINE doc == NewDoc(x, st.object)
  <1>1. /\ st.key \in Keys /\ st.to \in Keys /\ st.object \in SUBSET Parts
        /\ st.op \in {"insert", "replace", "update", "unset", "delete", "move"}
    BY SessionAssumption, Zenon DEF Statements
  <1>2. doc \in Docs
    BY <1>1, NewDocType, Zenon
  <1> HIDE DEF doc
  <1>3. CASE st.op = "insert"
    BY <1>1, <1>2, <1>3, InsertStep, Zenon DEF Run, doc
  <1>4. CASE st.op = "replace"
    BY <1>1, <1>2, <1>4, ReplaceStep, Zenon DEF Run, doc
  <1>5. CASE st.op = "update"
    BY <1>1, <1>2, <1>5, UpdateStep, Zenon DEF Run, doc
  <1>6. CASE st.op = "unset"
    BY <1>1, <1>2, <1>6, UpdateStep, Zenon DEF Run, doc
  <1>7. CASE st.op = "delete"
    BY <1>1, <1>7, DeleteStep, Zenon DEF Run
  <1>8. CASE st.op = "move"
    BY <1>1, <1>8, MoveStep, Zenon DEF Run
  <1> QED BY <1>1, <1>3, <1>4, <1>5, <1>6, <1>7, <1>8, Zenon

-----------------------------------------------------------------------------
(* What holds of every session, whatever the others do.                     *)

\* A session whose transaction sees the documents base.
Local(x, base) ==
    /\ x \in SessionType /\ x.next <= Len(x.events) + 1
    /\ DOMAIN x.writes \subseteq KeysOf(x.events) /\ x.stale \subseteq KeysOf(x.events)
    /\ x.pc \in {"open", "ran"} =>
        /\ x.next = 1 /\ (~x.failed => Sound(x, base))
        /\ ~x.explicit => x.st \in Statements /\ (x.pc = "open" => x.events = <<>>)

\* DocsAfter of the history h.
DocsIn(h, n) ==
    [k \in Keys |->
        LET writers == {i \in 1 .. n : k \in DOMAIN h[i].writes}
        IN  IF writers = {} THEN None ELSE h[Max(writers)].writes[k]]

\* Every session is what its position says, on a snapshot there was.
SessionsHeld ==
    /\ ses \in [Sessions -> SessionType]
    /\ \A s \in Sessions :
        Local(ses[s], DocsIn(hist, ses[s].snap)) /\ ses[s].id <= begun /\ ses[s].snap <= Len(hist)

\* What the stores and the counters hold is of its type.
StoresHeld ==
    /\ HistType /\ log \in Seq(Seq(Event)) /\ search \in [Keys -> Docs \cup {None}]
    /\ begun \in 0 .. MaxTx /\ faults \in 0 .. MaxFaults /\ tainted \subseteq Keys

\* The inductive invariant behind TypeOK.
Held == StoresHeld /\ SessionsHeld

\* A transaction and a listener as Create makes them.
LEMMA FreshLocal ==
    ASSUME HistType, NEW x \in SessionType, ~x.explicit => x.st \in Statements, NEW base
    PROVE  Local(Fresh(x), base) /\ Fresh(x).id = x.id /\ Fresh(x).snap = Len(hist) /\ Fresh(x).reply = x.reply
           /\ Fresh(x).pc = "open"
  <1> DEFINE y == Fresh(x)
             wr == <<>>
             ev == <<>>
  <1>0. Len(hist) \in Nat
    BY DEF HistType
  <1>1. <<>> \in WriteSets /\ <<>> \in Seq(Event) /\ DOMAIN <<>> = {} /\ KeysOf(<<>>) = {}
    BY DEF WriteSets, KeysOf
  <1>2. /\ y \in SessionType /\ y.pc = "open" /\ y.next = 1 /\ y.events = <<>> /\ y.writes = <<>> /\ y.stale = {}
        /\ y.explicit = x.explicit /\ y.st = x.st /\ y.id = x.id /\ y.snap = Len(hist) /\ y.reply = x.reply
    <2> DEFINE a == [x EXCEPT !.pc = "open", !.snap = Len(hist), !.reads = {}]
               b == [a EXCEPT !.writes = wr, !.events = ev]
               c == [b EXCEPT !.next = 1]
    <2>1. y = [c EXCEPT !.tentative = {}, !.stale = {}, !.failed = FALSE]
      BY Zenon DEF Fresh
    <2>2. wr \in WriteSets /\ ev \in Seq(Event)
      BY <1>1, Zenon
    <2> HIDE DEF y, wr, ev
    <2>3. /\ a \in SessionType /\ a.pc = "open" /\ a.snap = Len(hist)
          /\ a.explicit = x.explicit /\ a.st = x.st /\ a.id = x.id /\ a.reply = x.reply
      BY <1>0, Zenon DEF SessionType
    <2> HIDE DEF a
    <2>4. /\ b \in SessionType /\ b.pc = a.pc /\ b.events = ev /\ b.writes = wr
          /\ b.explicit = a.explicit /\ b.st = a.st /\ b.id = a.id /\ b.snap = a.snap /\ b.reply = a.reply
      BY <2>2, <2>3, Zenon DEF SessionType
    <2> HIDE DEF b
    <2>5. /\ c \in SessionType /\ c.pc = b.pc /\ c.next = 1 /\ c.events = b.events /\ c.writes = b.writes
          /\ c.explicit = b.explicit /\ c.st = b.st /\ c.id = b.id /\ c.snap = b.snap /\ c.reply = b.reply
      <3>1. b \in SessionType
        BY <2>4, Zenon
      <3>2. c \in SessionType
        BY <3>1, SMTT(40) DEF SessionType
      <3>3. /\ c.pc = b.pc /\ c.next = 1 /\ c.events = b.events /\ c.writes = b.writes
            /\ c.explicit = b.explicit /\ c.st = b.st /\ c.id = b.id /\ c.snap = b.snap /\ c.reply = b.reply
        BY <3>1, Zenon DEF SessionType
      <3> QED BY <3>2, <3>3, Zenon
    <2> HIDE DEF c
    <2>6. /\ y \in SessionType /\ y.pc = c.pc /\ y.next = c.next /\ y.events = c.events /\ y.writes = c.writes
          /\ y.explicit = c.explicit /\ y.st = c.st /\ y.id = c.id /\ y.snap = c.snap /\ y.reply = c.reply /\ y.stale = {}
      BY <2>1, <2>5, Zenon DEF SessionType
    <2> QED BY <2>3, <2>4, <2>5, <2>6, Zenon DEF wr, ev
  <1> HIDE DEF y
  <1>3. Sound(y, base)
    BY <1>2 DEF Sound, Chained, WritesLast
  <1>4. Local(y, base)
    BY <1>1, <1>2, <1>3, SMTT(40) DEF Local
  <1> QED BY <1>2, <1>4, Zenon DEF y

\* The session there is at the start.
LEMMA IdleType ==
    ASSUME NEW wr \in WriteSets, NEW ev \in Seq(Event), NEW id \in 0 .. MaxTx
    PROVE  [pc |-> "idle", explicit |-> FALSE, id |-> id, st |-> None, snap |-> 0, reads |-> {}, writes |-> wr,
            events |-> ev, next |-> 1, tentative |-> {}, stale |-> {}, failed |-> FALSE, reply |-> "none"] \in SessionType
  BY DEF SessionType, Replies

\* A session that has ended, or has not begun, has nothing open.
LEMMA IdleLocal ==
    ASSUME NEW base
    PROVE  /\ Idle \in SessionType /\ Local(Idle, base) /\ Idle.pc = "idle" /\ Idle.next = 1 /\ Idle.events = <<>>
           /\ Idle.writes = <<>> /\ Idle.stale = {} /\ Idle.snap = 0 /\ Idle.id = 0 /\ Idle.reply = "none"
           /\ ~Idle.explicit
  <1> DEFINE wr == <<>>
             ev == <<>>
  <1>1. wr \in WriteSets /\ ev \in Seq(Event) /\ 0 \in 0 .. MaxTx /\ DOMAIN <<>> = {} /\ KeysOf(<<>>) = {}
    BY SessionAssumption DEF WriteSets, KeysOf
  <1>2. Idle = [pc |-> "idle", explicit |-> FALSE, id |-> 0, st |-> None, snap |-> 0, reads |-> {}, writes |-> wr,
                events |-> ev, next |-> 1, tentative |-> {}, stale |-> {}, failed |-> FALSE, reply |-> "none"]
    BY Zenon DEF Idle
  <1> HIDE DEF wr, ev
  <1>3. Idle \in SessionType
    BY <1>1, <1>2, IdleType, Zenon
  <1>4. /\ Idle.pc = "idle" /\ Idle.next = 1 /\ Idle.events = ev /\ Idle.writes = wr /\ Idle.stale = {}
        /\ Idle.snap = 0 /\ Idle.id = 0 /\ Idle.reply = "none" /\ ~Idle.explicit
    BY <1>2, Zenon
  <1> USE DEF wr, ev
  <1>5. Local(Idle, base)
    BY <1>1, <1>3, <1>4 DEF Local
  <1> QED BY <1>3, <1>4, <1>5, Zenon

\* A session that has ended.
LEMMA EndLocal ==
    ASSUME NEW id \in 0 .. MaxTx, NEW reply \in Replies, NEW base
    PROVE  LET y == [Idle EXCEPT !.id = id, !.reply = reply]
           IN  Local(y, base) /\ y.pc = "idle" /\ y.id = id /\ y.snap = 0 /\ y.reply = reply
  <1> DEFINE y == [Idle EXCEPT !.id = id, !.reply = reply]
  <1>1. /\ Idle \in SessionType /\ Local(Idle, base) /\ Idle.pc = "idle" /\ Idle.next = 1 /\ Idle.events = <<>>
        /\ Idle.writes = <<>> /\ Idle.stale = {} /\ Idle.snap = 0
    BY IdleLocal, Zenon
  <1>2. /\ y \in SessionType /\ y.pc = Idle.pc /\ y.next = Idle.next /\ y.events = Idle.events /\ y.writes = Idle.writes
        /\ y.stale = Idle.stale /\ y.id = id /\ y.snap = Idle.snap /\ y.reply = reply
    <2>1. Idle \in SessionType
      BY <1>1, Zenon
    <2> QED BY <2>1, Zenon DEF SessionType
  <1> HIDE DEF y
  <1>3. Local(y, base)
    BY <1>1, <1>2, Zenon DEF Local
  <1> QED BY <1>1, <1>2, <1>3, Zenon DEF y

\* A statement of an open transaction, which ends in pc.
LEMMA RunLocal ==
    ASSUME HistType, NEW x, Local(x, DocsAfter(x.snap)), x.snap <= Len(hist), x.pc = "open",
           Len(x.events) < MaxStatements, NEW st \in Statements, NEW pc \in {"open", "ran"},
           pc = "open" => x.explicit
    PROVE  LET y == [Run(x, st) EXCEPT !.pc = pc]
           IN  /\ Local(y, DocsAfter(y.snap)) /\ y.id = x.id /\ y.snap = x.snap /\ y.reply = x.reply /\ y.pc = pc
  <1> DEFINE z == Run(x, st)
             y == [z EXCEPT !.pc = pc]
  <1>1. Runnable(x)
    <2>1. Len(x.events) \in Nat /\ MaxStatements \in Nat
      BY SessionAssumption DEF Local, SessionType
    <2> QED BY <2>1 DEF Local, Runnable
  <1>2. RanWell(x, z)
    BY <1>1, RunStep, Zenon
  <1> HIDE DEF z
  <1>3. /\ z \in SessionType /\ y \in SessionType /\ y.pc = pc
        /\ y.explicit = x.explicit /\ y.id = x.id /\ y.st = x.st /\ y.snap = x.snap /\ y.next = x.next
        /\ y.reply = x.reply /\ y.events = z.events /\ y.writes = z.writes /\ y.reads = z.reads
        /\ y.stale = z.stale /\ y.tentative = z.tentative /\ y.failed = z.failed
    BY <1>2, Zenon DEF RanWell, Same, SessionType
  <1> HIDE DEF y
  <1>4. ~y.failed => Sound(y, DocsAfter(y.snap))
    <2>1. ~z.failed => TxSound(z)
      BY <1>2, Zenon DEF RanWell, Local, TxSound
    <2>2. z.snap = x.snap
      BY <1>2, Zenon DEF RanWell, Same
    <2>3. DocsAfter(y.snap) = DocsAfter(z.snap)
      BY <1>3, <2>2, Zenon
    <2> DEFINE base == DocsAfter(z.snap)
    <2>4. ~z.failed => Sound(z, base)
      BY <2>1, Zenon DEF TxSound
    <2> HIDE DEF base
    <2>5. Chained(z, 1, base) => Chained(y, 1, base)
      <3>1. ASSUME NEW e, NEW d
            PROVE  Fits(z, e, d) => Fits(y, e, d)
        BY <1>3, Zenon DEF Fits
      <3> QED BY <1>3, <3>1, Zenon DEF Chained
    <2>6. WritesLast(z) => WritesLast(y)
      BY <1>3, ZenonT(40) DEF WritesLast
    <2>7. Sound(z, base) => Sound(y, base)
      BY <1>3, <2>5, <2>6, ZenonT(40) DEF Sound
    <2> QED BY <1>3, <2>3, <2>4, <2>7, Zenon DEF base
  <1>5. x.next = 1 /\ Len(y.events) \in Nat
    BY <1>3 DEF Local, SessionType
  <1>6. Local(y, DocsAfter(y.snap))
    BY <1>2, <1>3, <1>4, <1>5 DEF Local, RanWell
  <1> QED BY <1>3, <1>6, Zenon DEF y, z

\* The documents after a number of transactions, before and after a step.
LEMMA DocsInIs ==
    ASSUME NEW n
    PROVE  DocsAfter(n) = DocsIn(hist, n) /\ DocsAfter(n)' = DocsIn(hist', n)
  BY Zenon DEF DocsAfter, DocsIn

\* The history stays or grows by one transaction.
Grows == hist' = hist \/ \E id, w : w \in WriteSets /\ hist' = Append(hist, [id |-> id, writes |-> w])

\* What a transaction has seen stays.
LEMMA SeenStays ==
    ASSUME HistType, Grows, NEW n \in 0 .. Len(hist)
    PROVE  DocsIn(hist', n) = DocsIn(hist, n)
  <1>1. CASE hist' = hist
    BY <1>1, Zenon
  <1>2. CASE hist' # hist
    <2>1. PICK id, w : w \in WriteSets /\ hist' = Append(hist, [id |-> id, writes |-> w])
      BY <1>2, Zenon DEF Grows
    <2>2. DocsAfter(n)' = DocsAfter(n)
      BY <2>1, DocsAfterCommit, Zenon
    <2> QED BY <2>2, DocsInIs, Zenon
  <1> QED BY <1>1, <1>2, Zenon

\* A step of one session leaves what holds of the others.
LEMMA OneSession ==
    ASSUME HistType, SessionsHeld, Grows, begun \in Nat, begun' \in {begun, begun + 1},
           NEW s \in Sessions, NEW z, ses' = [ses EXCEPT ![s] = z],
           Local(z, DocsIn(hist, z.snap)), z.snap <= Len(hist), z.id <= begun'
    PROVE  SessionsHeld'
  <1>1. z \in SessionType /\ ses' \in [Sessions -> SessionType]
    BY Zenon DEF Local, SessionsHeld
  <1>2. ASSUME NEW r \in Sessions
        PROVE  Local(ses'[r], DocsIn(hist', ses'[r].snap)) /\ ses'[r].id <= begun' /\ ses'[r].snap <= Len(hist')
    <2> DEFINE x == ses'[r]
    <2>1. Local(x, DocsIn(hist, x.snap)) /\ x.snap <= Len(hist) /\ (x.id <= begun \/ x.id <= begun')
      <3>1. CASE r = s
        <4>1. x = z
          BY <3>1, Zenon DEF SessionsHeld
        <4> QED BY <4>1, Zenon
      <3>2. CASE r # s
        <4>1. x = ses[r]
          BY <3>2, Zenon DEF SessionsHeld
        <4> QED BY <4>1, Zenon DEF SessionsHeld
      <3> QED BY <3>1, <3>2, Zenon
    <2>2. x \in SessionType
      BY <1>1, Zenon
    <2> HIDE DEF x
    <2>3. x.snap \in 0 .. Len(hist) /\ x.id \in Nat /\ Len(hist) \in Nat
      BY <2>1, <2>2 DEF SessionType, HistType
    <2>4. DocsIn(hist', x.snap) = DocsIn(hist, x.snap)
      BY <2>3, SeenStays, Zenon
    <2>5. Len(hist) <= Len(hist') /\ Len(hist') \in Nat
      <3>1. CASE hist' = hist
        BY <2>3, <3>1
      <3>2. ASSUME NEW id, NEW w, hist' = Append(hist, [id |-> id, writes |-> w])
            PROVE  Len(hist) <= Len(hist') /\ Len(hist') \in Nat
        BY <3>2 DEF HistType
      <3> QED BY <3>1, <3>2, Zenon DEF Grows
    <2>6. x.id <= begun' /\ x.snap <= Len(hist')
      BY <2>1, <2>3, <2>5
    <2> QED BY <2>1, <2>4, <2>6, Zenon DEF x
  <1> QED BY <1>1, <1>2, Zenon DEF SessionsHeld

\* The first record of the log has an insert for each of the first documents.
LEMMA FirstRecord ==
    ASSUME Init
    PROVE  \E q \in Seq(FirstEvents) : log = <<q>> /\ \A e \in FirstEvents : \E i \in DOMAIN q : q[i] = e
  <1> DEFINE n == Cardinality(Stored)
  <1>1. n \in Nat
    BY SessionAssumption, FS_Subset, FS_CardinalityType, Zenon
  <1>2. PICK q \in Surjection(1 .. n, FirstEvents) : log = <<q>>
    BY Zenon DEF Init
  <1> HIDE DEF n
  <1>3. q \in [1 .. n -> FirstEvents] /\ \A e \in FirstEvents : \E i \in 1 .. n : q[i] = e
    BY Zenon DEF Surjection
  <1>4. q \in Seq(FirstEvents) /\ DOMAIN q = 1 .. n
    BY <1>1, <1>3
  <1> QED BY <1>2, <1>3, <1>4, Zenon

\* Init.
LEMMA HeldStarts ==
    ASSUME Init
    PROVE  Held
  <1> DEFINE w == [k \in Stored |-> FirstDoc]
             T == [id : 0 .. MaxTx, writes : WriteSets]
  <1>0. MaxTx \in Nat /\ MaxFaults \in Nat /\ MaxStatements \in Nat \ {0} /\ Stored \subseteq Keys
    BY SessionAssumption, Zenon
  <1>1. FirstDoc \in Docs
    BY <1>0 DEF FirstDoc, Docs
  <1>2. w \in WriteSets
    BY <1>0, <1>1 DEF WriteSets
  <1>3. FirstEvents \subseteq Event
    BY <1>0, <1>1 DEF Event, FirstEvents
  <1> HIDE DEF w
  <1>4. PICK q \in Seq(FirstEvents) : log = <<q>>
    BY FirstRecord, Zenon
  <1>5. q \in Seq(Event)
    BY <1>3
  <1>6. hist = <<[id |-> 0, writes |-> w]>>
    BY Zenon DEF Init, w
  <1>7. HistType
    <2>1. [id |-> 0, writes |-> w] \in T
      BY <1>0, <1>2
    <2> HIDE DEF T
    <2>2. hist \in Seq(T)
      BY <1>6, <2>1
    <2> QED BY <2>2, Zenon DEF HistType, T
  <1>8. log \in Seq(Seq(Event))
    <2> DEFINE S == Seq(Event)
    <2>1. q \in S
      BY <1>5, Zenon
    <2> HIDE DEF S
    <2>2. <<q>> \in Seq(S)
      BY <2>1
    <2> QED BY <1>4, <2>2, Zenon DEF S
  <1>9. StoresHeld
    <2>1. search \in [Keys -> Docs \cup {None}]
      BY <1>1, Zenon DEF Init
    <2> QED BY <1>0, <1>7, <1>8, <2>1 DEF Init, StoresHeld
  <1>11. Local(Idle, DocsIn(hist, Idle.snap)) /\ Idle.id = 0 /\ Idle.snap = 0
    BY IdleLocal, Zenon
  <1>12. SessionsHeld
    <2>1. Idle \in SessionType /\ Len(hist) \in Nat
      BY <1>7, <1>11 DEF Local, HistType
    <2>2. ses = [r \in Sessions |-> Idle] /\ begun = 0
      BY Zenon DEF Init
    <2>3. Idle.id <= begun /\ Idle.snap <= Len(hist)
      BY <1>11, <2>1, <2>2
    <2> QED BY <1>11, <2>1, <2>2, <2>3, Zenon DEF SessionsHeld
  <1> QED BY <1>9, <1>12, Zenon DEF Held

\* What is known of one session.
LEMMA HeldOf ==
    ASSUME Held, NEW s \in Sessions
    PROVE  /\ ses[s] \in SessionType /\ Local(ses[s], DocsAfter(ses[s].snap)) /\ ses[s].snap <= Len(hist)
           /\ ses[s].id <= begun /\ ses[s].id \in 0 .. MaxTx /\ ses[s].snap \in 0 .. Len(hist) /\ Len(hist) \in Nat
           /\ HistType /\ begun \in Nat
  <1>1. ses[s] \in SessionType /\ HistType /\ begun \in Nat
    BY SMTT(40) DEF Held, SessionsHeld, StoresHeld
  <1>2. ses[s].id \in 0 .. MaxTx /\ ses[s].snap \in 0 .. Len(hist) /\ Len(hist) \in Nat
    BY <1>1, SMTT(40) DEF SessionType, Held, SessionsHeld, HistType
  <1> QED BY <1>1, <1>2, DocsInIs, Zenon DEF Held, SessionsHeld

\* The keys of events are keys, and so are those of what is left of them.
LEMMA KeysOfType ==
    ASSUME NEW x \in SessionType
    PROVE  /\ KeysOf(x.events) \subseteq Keys /\ Pending(x) \in Seq(Event)
           /\ KeysOf(Pending(x)) \subseteq KeysOf(x.events)
           /\ x.pc = "post" => KeysOf(Pending(x)) = {x.events[i].key : i \in x.next .. Len(x.events)}
           /\ x.pc # "post" => KeysOf(Pending(x)) = {}
  <1>1. x.events \in Seq(Event) /\ Len(x.events) \in Nat /\ x.next \in Nat \ {0}
    BY DEF SessionType
  <1>2. \A i \in DOMAIN x.events : x.events[i] \in Event
    BY <1>1, ElementOf, Zenon
  <1>3. KeysOf(x.events) \subseteq Keys
    BY <1>2, Zenon DEF KeysOf, Event
  <1>4. CASE x.pc # "post"
    <2>1. Pending(x) = <<>>
      BY <1>4, Zenon DEF Pending
    <2> QED BY <1>3, <1>4, <2>1 DEF KeysOf
  <1>5. CASE x.pc = "post"
    <2> DEFINE q == SubSeq(x.events, x.next, Len(x.events))
               n == x.next
               m == Len(x.events)
    <2>1. q \in Seq(Event) /\ DOMAIN q = 1 .. Len(q)
      BY <1>1
    <2>2. Len(q) = IF n <= m THEN m - n + 1 ELSE 0
      BY <1>1
    <2>3. \A i \in 1 .. Len(q) : q[i] = x.events[n + i - 1] /\ n + i - 1 \in n .. m
      BY <1>1, <2>2
    <2>4. \A j \in n .. m : j - n + 1 \in 1 .. Len(q) /\ q[j - n + 1] = x.events[j] /\ j \in 1 .. m
      <3> SUFFICES ASSUME NEW j \in n .. m
                   PROVE  j - n + 1 \in 1 .. Len(q) /\ q[j - n + 1] = x.events[j] /\ j \in 1 .. m
        BY Zenon
      <3> HIDE DEF q
      <3>1. j - n + 1 \in 1 .. Len(q) /\ j \in 1 .. m /\ n + (j - n + 1) - 1 = j
        BY <1>1, <2>2
      <3> QED BY <2>3, <3>1, Zenon
    <2>5. Pending(x) = q /\ DOMAIN x.events = 1 .. m
      BY <1>1, <1>5 DEF Pending
    <2> HIDE DEF q
    <2>6. ASSUME NEW k \in KeysOf(q)
          PROVE  k \in {x.events[i].key : i \in n .. m}
      <3>1. PICK i \in 1 .. Len(q) : q[i].key = k
        BY <2>1, Zenon DEF KeysOf
      <3> QED BY <2>3, <3>1, Zenon
    <2>7. ASSUME NEW j \in n .. m
          PROVE  x.events[j].key \in KeysOf(q) /\ x.events[j].key \in KeysOf(x.events)
      BY <2>1, <2>4, <2>5, Zenon DEF KeysOf
    <2>8. KeysOf(q) = {x.events[i].key : i \in n .. m}
      BY <2>6, <2>7, Zenon
    <2> HIDE DEF n, m
    <2> QED BY <1>3, <1>5, <2>1, <2>5, <2>7, <2>8 DEF n, m
  <1> QED BY <1>4, <1>5, Zenon

\* A commit puts keys in doubt.
LEMMA InDoubtType ==
    ASSUME Held, NEW s \in Sessions
    PROVE  InDoubt(s) \subseteq Keys
  <1>1. \A r \in Sessions : KeysOf(ses[r].events) \subseteq Keys /\ KeysOf(Pending(ses[r])) \subseteq Keys
    BY HeldOf, KeysOfType, Zenon
  <1>2. ses[s].stale \subseteq Keys
    BY HeldOf, Zenon DEF SessionType
  <1> QED BY <1>1, <1>2, Zenon DEF InDoubt

\* What is durable is of its type.
LEMMA DurableHeld ==
    ASSUME Held, NEW s \in Sessions, Durable(ses[s])
    PROVE  Grows /\ HistType' /\ log' \in Seq(Seq(Event)) /\ Len(hist') = Len(hist) + 1
  <1> DEFINE x == ses[s]
             T == [id : 0 .. MaxTx, writes : WriteSets]
             S == Seq(Event)
             e == [id |-> x.id, writes |-> x.writes]
             q == x.events
  <1>1. x.id \in 0 .. MaxTx /\ x.writes \in WriteSets /\ q \in S
    BY HeldOf, Zenon DEF SessionType
  <1>2. hist' = Append(hist, e) /\ log' = IF q = <<>> THEN log ELSE Append(log, q)
    BY Zenon DEF Durable
  <1>3. hist \in Seq(T) /\ e \in T /\ log \in Seq(S)
    BY <1>1, Zenon DEF Held, StoresHeld, HistType
  <1>4. Grows
    BY <1>1, <1>2, Zenon DEF Grows
  <1> HIDE DEF T, S, e, q
  <1>5. hist' \in Seq(T) /\ Len(hist') = Len(hist) + 1
    BY <1>2, <1>3
  <1>6. log' \in Seq(S)
    BY <1>1, <1>2, <1>3
  <1> QED BY <1>4, <1>5, <1>6, Zenon DEF HistType, T, S

\* A session ends.
LEMMA EndHeld ==
    ASSUME Held, Grows, UNCHANGED begun, NEW s \in Sessions, NEW reply \in Replies, End(s, reply)
    PROVE  SessionsHeld'
  <1> DEFINE id == ses[s].id
             z == [Idle EXCEPT !.id = id, !.reply = reply]
  <1>1. id \in 0 .. MaxTx /\ id <= begun /\ Len(hist) \in Nat /\ HistType /\ begun \in Nat
    BY HeldOf, Zenon
  <1>2. ses' = [ses EXCEPT ![s] = z]
    BY Zenon DEF End
  <1> HIDE DEF id
  <1>3. Local(z, DocsIn(hist, z.snap)) /\ z.snap = 0 /\ z.id = id
    BY <1>1, EndLocal, ZenonT(40)
  <1> HIDE DEF z
  <1>4. z.snap <= Len(hist) /\ z.id <= begun' /\ begun' \in {begun, begun + 1}
    BY <1>1, <1>3
  <1> QED BY <1>1, <1>2, <1>3, <1>4, OneSession, Zenon DEF Held

\* A session has its transaction and listener made anew.
LEMMA FreshHeld ==
    ASSUME Held, UNCHANGED hist, begun' \in {begun, begun + 1}, NEW s \in Sessions, NEW x \in SessionType,
           ~x.explicit => x.st \in Statements, x.id <= begun', ses' = [ses EXCEPT ![s] = Fresh(x)]
    PROVE  SessionsHeld'
  <1> DEFINE z == Fresh(x)
  <1>1. Len(hist) \in Nat /\ HistType /\ begun \in Nat
    BY HeldOf, Zenon
  <1>2. Local(z, DocsIn(hist, z.snap)) /\ z.id = x.id /\ z.snap = Len(hist)
    BY <1>1, FreshLocal, Zenon
  <1> HIDE DEF z
  <1>3. z.snap <= Len(hist) /\ z.id <= begun' /\ Grows
    BY <1>1, <1>2 DEF Grows
  <1> QED BY <1>1, <1>2, <1>3, OneSession, Zenon DEF Held, z

\* A statement of an explicit transaction.
LEMMA ExecuteLocal ==
    ASSUME HistType, NEW x, Local(x, DocsAfter(x.snap)), x.snap <= Len(hist), x.pc = "open", x.explicit,
           Len(x.events) < MaxStatements, NEW st \in Statements
    PROVE  LET y == Run(x, st)
           IN  /\ Local(y, DocsAfter(y.snap)) /\ y.id = x.id /\ y.snap = x.snap /\ y.reply = x.reply /\ y.pc = "open"
  <1> DEFINE y == Run(x, st)
  <1>1. Runnable(x)
    <2>1. Len(x.events) \in Nat /\ MaxStatements \in Nat
      BY SessionAssumption DEF Local, SessionType
    <2> QED BY <2>1 DEF Local, Runnable
  <1>2. RanWell(x, y)
    BY <1>1, RunStep, Zenon
  <1> HIDE DEF y
  <1>3. ~y.failed => Sound(y, DocsAfter(y.snap))
    BY <1>2, Zenon DEF RanWell, Local, TxSound
  <1>4. x.next = 1 /\ Len(y.events) \in Nat
    BY <1>2, SMTT(40) DEF Local, RanWell, SessionType
  <1>5. Local(y, DocsAfter(y.snap))
    BY <1>2, <1>3, <1>4 DEF Local, RanWell, Same
  <1> QED BY <1>2, <1>5, Zenon DEF y, RanWell, Same

\* What the indexer makes of an event.
LEMMA PackedType ==
    ASSUME Held, NEW x, NEW e \in Event, ~Refused(e)
    PROVE  Packed(x, e) \in Docs \cup {None} /\ e.key \in Keys
  <1>1. /\ e.key \in Keys /\ e.doc \in Docs \cup {None} /\ (e.op = "update" => e.doc \in Docs)
        /\ search[e.key] \in Docs \cup {None}
    BY Zenon DEF Event, Held, StoresHeld
  <1>2. CASE e.op # "update"
    BY <1>1, <1>2, Zenon DEF Packed
  <1>3. CASE e.op = "update"
    <2>1. e.doc \in Docs /\ search[e.key] \in Docs
      BY <1>1, <1>3, Zenon DEF Refused
    <2> DEFINE d == e.doc
               o == d.object \cup (search[e.key].object \ x.tentative)
    <2>2. o \in SUBSET Parts
      BY <2>1, Zenon DEF Docs
    <2>3. Packed(x, e) = [d EXCEPT !.object = o]
      BY <1>3, Zenon DEF Packed
    <2> HIDE DEF d, o
    <2>4. [d EXCEPT !.object = o] \in Docs
      BY <2>1, <2>2, Zenon DEF Docs, d
    <2> QED BY <1>1, <2>3, <2>4, Zenon
  <1> QED BY <1>2, <1>3, Zenon

\* The head of what is left to index.
LEMMA HeadOf ==
    ASSUME NEW x \in SessionType, Pending(x) # <<>>
    PROVE  /\ x.pc = "post" /\ x.next \in 1 .. Len(x.events) /\ Len(x.events) \in Nat
           /\ Head(Pending(x)) = x.events[x.next] /\ x.events[x.next] \in Event
  <1>1. x.pc = "post"
    BY Zenon DEF Pending
  <1>2. x.events \in Seq(Event) /\ Len(x.events) \in Nat /\ x.next \in Nat \ {0}
    BY DEF SessionType
  <1> DEFINE q == SubSeq(x.events, x.next, Len(x.events))
  <1>3. q # <<>> /\ Pending(x) = q
    BY <1>1, Zenon DEF Pending
  <1>4. x.next <= Len(x.events)
    <2> SUFFICES ASSUME x.next > Len(x.events) PROVE FALSE
      BY <1>2
    <2>1. q = <<>>
      BY <1>2
    <2> QED BY <1>3, <2>1, Zenon
  <1>5. x.next \in DOMAIN x.events
    BY <1>2, <1>4
  <1>6. x.events[x.next] \in Event
    BY <1>2, <1>5, ElementOf, Zenon
  <1>7. Head(q) = x.events[x.next]
    BY <1>2, <1>4
  <1> QED BY <1>1, <1>2, <1>3, <1>4, <1>6, <1>7, SMTT(40)

\* Every step of a session.
LEMMA HeldStep ==
    ASSUME Held, [Next]_vars
    PROVE  Held'
  <1>0. CASE UNCHANGED vars
    BY <1>0, Zenon DEF vars, Held, StoresHeld, SessionsHeld, HistType
  <1> SUFFICES ASSUME NEW s \in Sessions,
                      \/ \E st \in Statements : CreateImplicit(s, st) \/ Execute(s, st)
                      \/ BeginTransaction(s) \/ RollbackTransaction(s) \/ RunImplicit(s) \/ VersionChanged(s)
                      \/ Commit(s) \/ CommitConflict(s) \/ CommitUnknown(s) \/ CommitError(s)
                      \/ IndexEvent(s) \/ PostCommitDone(s) \/ PostCommitLost(s)
               PROVE  Held'
    BY <1>0, Zenon DEF Next
  <1> DEFINE x == ses[s]
  <1>1. /\ x \in SessionType /\ Local(x, DocsAfter(x.snap)) /\ x.snap <= Len(hist) /\ x.id <= begun
        /\ x.id \in 0 .. MaxTx /\ x.snap \in 0 .. Len(hist) /\ Len(hist) \in Nat /\ HistType /\ begun \in Nat
    BY HeldOf, Zenon
  <1>2. hist' = hist => Grows
    BY Zenon DEF Grows
  <1>3. MaxTx \in Nat /\ MaxFaults \in Nat /\ MaxStatements \in Nat \ {0}
    BY SessionAssumption, Zenon
  <1>4. StoresHeld /\ begun \in 0 .. MaxTx /\ faults \in 0 .. MaxFaults /\ tainted \subseteq Keys
    BY Zenon DEF Held, StoresHeld
  <1>5. \A reply \in {"rolled back", "conflict", "unknown", "error", "not indexed", "ok"} : reply \in Replies
    BY Zenon DEF Replies
  <1>6. ASSUME NEW st \in Statements, CreateImplicit(s, st)
        PROVE  Held'
    <2> DEFINE y == [Idle EXCEPT !.id = begun + 1, !.st = st]
    <2>6. begun < MaxTx /\ UNCHANGED <<hist, log, search, faults, tainted>>
      BY <1>6, Zenon DEF CreateImplicit
    <2>7. begun + 1 \in 0 .. MaxTx
      BY <1>3, <1>4, <2>6
    <2>1. y \in SessionType /\ ~y.explicit /\ y.st = st /\ y.id = begun + 1
      <3>1. Idle \in SessionType /\ ~Idle.explicit
        BY IdleLocal, Zenon
      <3> QED BY <2>7, <3>1, Zenon DEF SessionType
    <2>2. ses' = [ses EXCEPT ![s] = Fresh(y)] /\ begun' = begun + 1 /\ UNCHANGED hist
      BY <1>6, ZenonT(40) DEF CreateImplicit
    <2> HIDE DEF y
    <2>3. begun' \in {begun, begun + 1} /\ y.id <= begun'
      BY <1>1, <2>1, <2>2
    <2>4. SessionsHeld'
      BY <2>1, <2>2, <2>3, FreshHeld, Zenon
    <2>5. StoresHeld'
      BY <1>4, <2>2, <2>6, <2>7, Zenon DEF StoresHeld, HistType
    <2> QED BY <2>4, <2>5, Zenon DEF Held
  <1>7. ASSUME BeginTransaction(s)
        PROVE  Held'
    <2> DEFINE y == [Idle EXCEPT !.id = begun + 1, !.explicit = TRUE]
    <2>1. y \in SessionType /\ y.explicit /\ y.id = begun + 1
      <3>1. Idle \in SessionType /\ begun + 1 \in 0 .. MaxTx
        BY <1>3, <1>4, <1>7, IdleLocal DEF BeginTransaction
      <3> QED BY <3>1, Zenon DEF SessionType
    <2>2. ses' = [ses EXCEPT ![s] = Fresh(y)] /\ begun' = begun + 1 /\ UNCHANGED hist
      BY <1>7, Zenon DEF BeginTransaction
    <2> HIDE DEF y
    <2>3. begun' \in {begun, begun + 1} /\ y.id <= begun'
      BY <1>1, <2>1, <2>2
    <2>4. SessionsHeld'
      BY <2>1, <2>2, <2>3, FreshHeld, Zenon
    <2>5. StoresHeld'
      BY <1>3, <1>4, <1>7 DEF BeginTransaction, StoresHeld, HistType
    <2> QED BY <2>4, <2>5, Zenon DEF Held
  <1>8. ASSUME RunImplicit(s)
        PROVE  Held'
    <2>1. x.pc = "open" /\ ~x.explicit /\ x.st \in Statements /\ x.events = <<>> /\ Len(x.events) < MaxStatements
      BY <1>1, <1>3, <1>8 DEF RunImplicit, Local
    <2> DEFINE st == x.st
               z == [Run(x, st) EXCEPT !.pc = "ran"]
    <2>2. ses' = [ses EXCEPT ![s] = z] /\ UNCHANGED <<hist, log, search, begun, faults, tainted>>
      BY <1>8, Zenon DEF RunImplicit
    <2> HIDE DEF x, st
    <2>3. Local(z, DocsAfter(z.snap)) /\ z.id = x.id /\ z.snap = x.snap
      BY <1>1, <2>1, RunLocal, Zenon DEF st
    <2> HIDE DEF z
    <2>4. Local(z, DocsIn(hist, z.snap)) /\ z.snap <= Len(hist) /\ z.id <= begun' /\ begun' \in {begun, begun + 1}
      BY <1>1, <2>2, <2>3, DocsInIs, Zenon
    <2>5. SessionsHeld'
      BY <1>1, <1>2, <2>2, <2>4, OneSession, ZenonT(40) DEF Held
    <2> QED BY <1>4, <2>2, <2>5, Zenon DEF Held, StoresHeld, HistType
  <1>9. ASSUME NEW st \in Statements, Execute(s, st)
        PROVE  Held'
    <2>1. x.pc = "open" /\ x.explicit /\ Len(x.events) < MaxStatements
      BY <1>9, Zenon DEF Execute
    <2> DEFINE z == Run(x, st)
    <2>2. ses' = [ses EXCEPT ![s] = z] /\ UNCHANGED <<hist, log, search, begun, faults, tainted>>
      BY <1>9, Zenon DEF Execute
    <2> HIDE DEF x
    <2>3. Local(z, DocsAfter(z.snap)) /\ z.id = x.id /\ z.snap = x.snap
      BY <1>1, <2>1, ExecuteLocal, Zenon
    <2> HIDE DEF z
    <2>4. Local(z, DocsIn(hist, z.snap)) /\ z.snap <= Len(hist) /\ z.id <= begun' /\ begun' \in {begun, begun + 1}
      BY <1>1, <2>2, <2>3, DocsInIs, Zenon
    <2>5. SessionsHeld'
      BY <1>1, <1>2, <2>2, <2>4, OneSession, Zenon DEF Held
    <2> QED BY <1>4, <2>2, <2>5, Zenon DEF Held, StoresHeld, HistType
  <1>10. ASSUME NEW reply \in Replies, End(s, reply), UNCHANGED <<hist, log, search, begun, faults, tainted>>
         PROVE  Held'
    <2>1. SessionsHeld'
      BY <1>2, <1>10, EndHeld, Zenon
    <2> QED BY <1>4, <1>10, <2>1, Zenon DEF Held, StoresHeld, HistType
  <1>11. CASE RollbackTransaction(s)
    BY <1>5, <1>10, <1>11, Zenon DEF RollbackTransaction
  <1>12. CASE CommitError(s)
    BY <1>5, <1>10, <1>12, Zenon DEF CommitError
  <1>13. CASE PostCommitDone(s)
    BY <1>5, <1>10, <1>13, Zenon DEF PostCommitDone
  <1>14. ASSUME x.pc \in {"open", "ran"}, ses' = [ses EXCEPT ![s] = Fresh(@)], UNCHANGED <<hist, begun>>
         PROVE  SessionsHeld'
    <2>1. ~x.explicit => x.st \in Statements
      BY <1>1, <1>14, Zenon DEF Local
    <2>2. ses' = [ses EXCEPT ![s] = Fresh(x)] /\ begun' \in {begun, begun + 1} /\ x.id <= begun' /\ UNCHANGED hist
      BY <1>1, <1>14, Zenon
    <2> HIDE DEF x
    <2> QED BY <1>1, <2>1, <2>2, FreshHeld, Zenon
  <1>15. CASE VersionChanged(s)
    <2>1. SessionsHeld'
      BY <1>14, <1>15, Zenon DEF VersionChanged
    <2> QED BY <1>3, <1>4, <1>15, <2>1, SMTT(40) DEF VersionChanged, Held, StoresHeld, HistType
  <1>16. CASE CommitConflict(s)
    <2>1. CASE End(s, "conflict")
      BY <1>5, <1>10, <1>16, <2>1, Zenon DEF CommitConflict
    <2>2. CASE ses' = [ses EXCEPT ![s] = Fresh(@)]
      <3>1. SessionsHeld'
        BY <1>14, <1>16, <2>2, Zenon DEF CommitConflict, Committing
      <3> QED BY <1>4, <1>16, <3>1, Zenon DEF CommitConflict, Held, StoresHeld, HistType
    <2> QED BY <1>16, <2>1, <2>2, Zenon DEF CommitConflict
  <1>17. CASE Commit(s)
    <2>1. Durable(ses[s]) /\ tainted' = tainted \cup InDoubt(s) /\ UNCHANGED <<search, begun, faults>>
          /\ ses' = [ses EXCEPT ![s].pc = "post"]
      BY <1>17, Zenon DEF Commit
    <2>2. Grows /\ HistType' /\ log' \in Seq(Seq(Event)) /\ tainted' \subseteq Keys
      BY <1>4, <2>1, DurableHeld, InDoubtType, Zenon
    <2> DEFINE z == [x EXCEPT !.pc = "post"]
    <2>3. ses' = [ses EXCEPT ![s] = z]
      BY <2>1, Zenon
    <2> HIDE DEF x
    <2>4. /\ z \in SessionType /\ z.pc = "post" /\ z.next = x.next /\ z.events = x.events /\ z.writes = x.writes
          /\ z.stale = x.stale /\ z.snap = x.snap /\ z.id = x.id
      BY <1>1, Zenon DEF SessionType
    <2> HIDE DEF z
    <2>5. Local(z, DocsIn(hist, z.snap)) /\ z.snap <= Len(hist) /\ z.id <= begun' /\ begun' \in {begun, begun + 1}
      BY <1>1, <2>1, <2>4, Zenon DEF Local
    <2>6. SessionsHeld'
      BY <1>1, <2>2, <2>3, <2>5, OneSession, Zenon DEF Held
    <2> QED BY <1>4, <2>1, <2>2, <2>6, Zenon DEF Held, StoresHeld
  <1>18. CASE CommitUnknown(s)
    <2>1. Grows /\ HistType' /\ log' \in Seq(Seq(Event)) /\ tainted' \subseteq Keys
      <3>1. CASE UNCHANGED <<hist, log, tainted>>
        BY <1>2, <1>4, <3>1, Zenon DEF StoresHeld, HistType
      <3>2. CASE Durable(ses[s]) /\ tainted' = tainted \cup InDoubt(s) \cup KeysOf(ses[s].events)
        BY <1>1, <1>4, <3>2, DurableHeld, InDoubtType, KeysOfType, ZenonT(40)
      <3> QED BY <1>18, <3>1, <3>2, Zenon DEF CommitUnknown
    <2>2. End(s, "unknown") /\ UNCHANGED <<search, begun>> /\ faults' \in 0 .. MaxFaults
      BY <1>3, <1>4, <1>18 DEF CommitUnknown
    <2>3. SessionsHeld'
      BY <1>5, <2>1, <2>2, EndHeld, Zenon
    <2> QED BY <1>4, <2>1, <2>2, <2>3, Zenon DEF Held, StoresHeld
  <1>19. CASE PostCommitLost(s)
    <2>1. End(s, "not indexed") /\ UNCHANGED <<hist, log, search, begun>> /\ faults' \in 0 .. MaxFaults
      <3>1. faults < MaxFaults /\ faults' = faults + 1
        BY <1>19, Zenon DEF PostCommitLost
      <3>2. faults' \in 0 .. MaxFaults
        BY <1>3, <1>4, <3>1
      <3> QED BY <1>19, <3>2, Zenon DEF PostCommitLost
    <2>2. KeysOf(Pending(x)) \subseteq Keys /\ tainted' = tainted \cup KeysOf(Pending(x))
      BY <1>1, <1>19, KeysOfType, Zenon DEF PostCommitLost
    <2>3. SessionsHeld'
      BY <1>2, <1>5, <2>1, EndHeld, Zenon
    <2> QED BY <1>4, <2>1, <2>2, <2>3, Zenon DEF Held, StoresHeld, HistType
  <1>20. CASE IndexEvent(s)
    <2> DEFINE e == Head(Pending(x))
    <2>1. UNCHANGED <<hist, log, begun, faults, tainted>> /\ Pending(x) # <<>>
      BY <1>20, Zenon DEF IndexEvent
    <2>2. /\ x.pc = "post" /\ x.next \in 1 .. Len(x.events) /\ e \in Event /\ Len(x.events) \in Nat
      BY <1>1, <2>1, HeadOf, Zenon
    <2>3. CASE UNCHANGED search /\ \E reply \in {"not indexed", "ok"} : End(s, reply)
      BY <1>5, <1>10, <2>1, <2>3, Zenon
    <2>4. CASE ~Refused(e) /\ search' = [search EXCEPT ![e.key] = Packed(x, e)] /\ ses' = [ses EXCEPT ![s].next = @ + 1]
      <3>1. Packed(x, e) \in Docs \cup {None} /\ e.key \in Keys
        BY <2>2, <2>4, PackedType, Zenon
      <3>2. StoresHeld'
        <4>1. search' \in [Keys -> Docs \cup {None}]
          BY <1>4, <2>4, <3>1, Zenon DEF StoresHeld
        <4> QED BY <1>4, <2>1, <4>1, Zenon DEF StoresHeld, HistType
      <3> DEFINE z == [x EXCEPT !.next = @ + 1]
      <3>3. ses' = [ses EXCEPT ![s] = z]
        BY <2>4, Zenon
      <3> HIDE DEF x
      <3>4. /\ z \in SessionType /\ z.pc = "post" /\ z.next = x.next + 1 /\ z.events = x.events /\ z.writes = x.writes
            /\ z.stale = x.stale /\ z.snap = x.snap /\ z.id = x.id
        <4>1. x.next + 1 \in Nat \ {0}
          BY <2>2
        <4> QED BY <1>1, <2>2, <4>1, Zenon DEF SessionType
      <3> HIDE DEF z
      <3>5. Local(z, DocsIn(hist, z.snap)) /\ z.snap <= Len(hist) /\ z.id <= begun' /\ begun' \in {begun, begun + 1}
        <4>1. z.next <= Len(z.events) + 1
          BY <2>2, <3>4, SMTT(40)
        <4>2. Local(z, DocsIn(hist, z.snap))
          BY <1>1, <3>4, <4>1, Zenon DEF Local
        <4> QED BY <1>1, <2>1, <3>4, <4>2, Zenon
      <3>6. SessionsHeld'
        BY <1>1, <1>2, <2>1, <3>3, <3>5, OneSession, Zenon DEF Held
      <3> QED BY <3>2, <3>6, Zenon DEF Held
    <2> QED BY <1>20, <2>3, <2>4, Zenon DEF IndexEvent
  <1> QED BY <1>6, <1>7, <1>8, <1>9, <1>11, <1>12, <1>13, <1>15, <1>16, <1>17, <1>18, <1>19, <1>20, Zenon

\* Everything is of its type, whatever the sessions do and the stores fail at.
THEOREM SessionsTyped == Spec => []TypeOK
  <1>1. Init => Held
    BY HeldStarts, Zenon
  <1>2. Held /\ [Next]_vars => Held'
    BY HeldStep, Zenon
  <1>3. Held => TypeOK
    BY Zenon DEF Held, StoresHeld, SessionsHeld, HistType, Local, TypeOK
  <1> QED BY <1>1, <1>2, <1>3, PTL DEF Spec

=============================================================================
