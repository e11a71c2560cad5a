--------------------------- MODULE TaskPoolProof ----------------------------
(***************************************************************************)
(* Proofs about the task pool for any number of threads and jobs, any      *)
(* quota, recycle limit and semaphore maximum that meets PoolAssumption.   *)
(*                                                                         *)
(* The inductive invariant is built in three layers, each inductive given  *)
(* the ones before it: the threads and the start/stop handshake            *)
(* (ThreadInv), the lists and the status of the jobs (PlaceInv), and the   *)
(* counters of the queue that follow from both (QueueInv).                 *)
(***************************************************************************)
EXTENDS TaskPoolProperties, SequenceTheorems, FiniteSetTheorems, TLAPS

-----------------------------------------------------------------------------
(* Lists: which elements a list holds, how long it is, and that no element *)
(* occurs twice after one was appended, put in front, inserted or unlinked. *)

(* Every non-empty set of naturals has a least element.                    *)
LEMMA LeastNatural ==
  ASSUME NEW S \in SUBSET Nat, S # {}
  PROVE  \E m \in S : \A k \in S : m <= k
<1> DEFINE T == {0..n : n \in S}
<1>1. T \subseteq FiniteSubsetsOf(Nat)
  <2>1. ASSUME NEW n \in S PROVE 0..n \in SUBSET Nat /\ IsFiniteSet(0..n)
    BY FS_Interval
  <2>2. QED
    BY <2>1 DEF FiniteSubsetsOf
<1>2. T # {}
  OBVIOUS
<1>3. PICK x \in T : \A y \in T : ~(<<y, x>> \in StrictSubsetOrdering(Nat))
  BY <1>1, <1>2, FS_StrictSubsetOrderingWellFounded, WFMin
<1>4. PICK m \in S : x = 0..m
  OBVIOUS
<1>5. ASSUME NEW k \in S, ~(m <= k) PROVE FALSE
  <2>1. 0..k \subseteq 0..m /\ 0..k # 0..m
    BY <1>5
  <2>2. <<0..k, x>> \in StrictSubsetOrdering(Nat)
    BY <1>4, <2>1 DEF StrictSubsetOrdering
  <2>3. QED
    BY <1>3, <2>2
<1>6. QED
  BY <1>5

LEMMA EmptyList == IsInjective(<<>>) /\ \A x : ~Linked(<<>>, x)
BY DEF IsInjective, Linked

LEMMA AppendList ==
  ASSUME NEW S, NEW s \in Seq(S), NEW x \in S
  PROVE  /\ Append(s, x) \in Seq(S)
         /\ Len(Append(s, x)) = Len(s) + 1
         /\ \A y : Linked(Append(s, x), y) <=> Linked(s, y) \/ y = x
         /\ IsInjective(s) /\ ~Linked(s, x) => IsInjective(Append(s, x))
<1>1. /\ Append(s, x) \in Seq(S)
      /\ Len(Append(s, x)) = Len(s) + 1
      /\ \A i \in 1..Len(s) : Append(s, x)[i] = s[i]
      /\ Append(s, x)[Len(s) + 1] = x
  BY AppendProperties
<1>2. DOMAIN s = 1..Len(s) /\ DOMAIN Append(s, x) = 1..(Len(s) + 1) /\ Len(s) \in Nat
  BY <1>1
<1>3. ASSUME NEW y PROVE Linked(Append(s, x), y) <=> Linked(s, y) \/ y = x
  BY <1>1, <1>2 DEF Linked
<1>4. IsInjective(s) /\ ~Linked(s, x) => IsInjective(Append(s, x))
  BY <1>1, <1>2 DEF IsInjective, Linked
<1>5. QED
  BY <1>1, <1>3, <1>4

LEMMA ConsList ==
  ASSUME NEW S, NEW s \in Seq(S), NEW x \in S
  PROVE  /\ Cons(x, s) \in Seq(S)
         /\ Len(Cons(x, s)) = Len(s) + 1
         /\ \A y : Linked(Cons(x, s), y) <=> Linked(s, y) \/ y = x
         /\ IsInjective(s) /\ ~Linked(s, x) => IsInjective(Cons(x, s))
<1> DEFINE c == Cons(x, s)
<1>1. /\ c \in Seq(S)
      /\ Len(c) = Len(s) + 1
      /\ c[1] = x
      /\ \A i \in 1..Len(s) : c[i + 1] = s[i]
  <2>1. <<x>> \in Seq(S) /\ Len(<<x>>) = 1 /\ <<x>>[1] = x
    OBVIOUS
  <2>2. QED
    BY <2>1, ConcatProperties DEF Cons
<1>2. DOMAIN s = 1..Len(s) /\ DOMAIN c = 1..(Len(s) + 1) /\ Len(s) \in Nat
  BY <1>1
<1>3. \A i \in DOMAIN c : i = 1 \/ (i - 1 \in DOMAIN s /\ c[i] = s[i - 1])
  BY <1>1, <1>2
<1> HIDE DEF c
<1>4. ASSUME NEW y PROVE Linked(c, y) <=> Linked(s, y) \/ y = x
  <2>1. ASSUME Linked(c, y) PROVE Linked(s, y) \/ y = x
    BY <1>1, <1>3, <2>1 DEF Linked
  <2>2. ASSUME Linked(s, y) PROVE Linked(c, y)
    <3>1. PICK i \in 1..Len(s) : s[i] = y
      BY <1>2, <2>2 DEF Linked
    <3>2. i + 1 \in DOMAIN c /\ c[i + 1] = y
      BY <1>1, <1>2, <3>1
    <3>3. QED
      BY <3>2 DEF Linked
  <2>3. Linked(c, x)
    <3>1. 1 \in DOMAIN c
      BY <1>2
    <3>2. QED
      BY <1>1, <3>1 DEF Linked
  <2>4. QED
    BY <2>1, <2>2, <2>3
<1>5. IsInjective(s) /\ ~Linked(s, x) => IsInjective(c)
  BY <1>1, <1>2, <1>3 DEF IsInjective, Linked
<1>6. QED
  BY <1>1, <1>4, <1>5 DEF c

LEMMA TailList ==
  ASSUME NEW S, NEW s \in Seq(S), s # <<>>
  PROVE  /\ Tail(s) \in Seq(S)
         /\ Len(Tail(s)) = Len(s) - 1
         /\ Head(s) \in S
         /\ Linked(s, Head(s))
         /\ \A y : Linked(Tail(s), y) => Linked(s, y)
         /\ \A y : Linked(s, y) => y = Head(s) \/ Linked(Tail(s), y)
         /\ IsInjective(s) => IsInjective(Tail(s)) /\ ~Linked(Tail(s), Head(s))
<1> DEFINE t == Tail(s)
<1>1. /\ t \in Seq(S)
      /\ Len(t) = Len(s) - 1
      /\ Len(s) \in Nat \ {0}
      /\ \A i \in 1..(Len(s) - 1) : t[i] = s[i + 1]
      /\ Head(s) = s[1] /\ Head(s) \in S
  BY HeadTailProperties, EmptySeq
<1>2. DOMAIN s = 1..Len(s) /\ DOMAIN t = 1..(Len(s) - 1)
  BY <1>1
<1> HIDE DEF t
<1>3. Linked(s, Head(s))
  BY <1>1, <1>2 DEF Linked
<1>4. ASSUME NEW y PROVE Linked(t, y) => Linked(s, y)
  BY <1>1, <1>2 DEF Linked
<1>5. ASSUME NEW y, Linked(s, y) PROVE y = Head(s) \/ Linked(t, y)
  <2>1. PICK i \in DOMAIN s : s[i] = y
    BY <1>5 DEF Linked
  <2>2. CASE i = 1
    BY <1>1, <2>1, <2>2
  <2>3. CASE i # 1
    <3>1. i - 1 \in DOMAIN t /\ t[i - 1] = y
      BY <1>1, <1>2, <2>1, <2>3
    <3>2. QED
      BY <3>1 DEF Linked
  <2>4. QED
    BY <2>2, <2>3
<1>6. ASSUME IsInjective(s) PROVE IsInjective(t) /\ ~Linked(t, Head(s))
  <2>1. \A i \in DOMAIN t : i + 1 \in DOMAIN s /\ i + 1 # 1 /\ t[i] = s[i + 1]
    BY <1>1, <1>2
  <2>2. 1 \in DOMAIN s
    BY <1>1, <1>2
  <2>3. \A i, k \in DOMAIN s : s[i] = s[k] => i = k
    BY <1>6 DEF IsInjective
  <2>4. IsInjective(t)
    <3>1. SUFFICES ASSUME NEW i \in DOMAIN t, NEW k \in DOMAIN t, t[i] = t[k]
                   PROVE  i = k
      BY DEF IsInjective
    <3>2. i + 1 = k + 1
      BY <2>1, <2>3, <3>1
    <3>3. QED
      BY <1>2, <3>2
  <2>5. ~Linked(t, Head(s))
    BY <1>1, <2>1, <2>2, <2>3 DEF Linked
  <2>6. QED
    BY <2>4, <2>5
<1>7. QED
  BY <1>1, <1>3, <1>4, <1>5, <1>6 DEF t

(* Removing the element at a position.                                     *)
LEMMA RemoveAtProperties ==
  ASSUME NEW S, NEW s \in Seq(S), NEW p \in 1..Len(s)
  PROVE  /\ RemoveAt(s, p) \in Seq(S)
         /\ Len(RemoveAt(s, p)) = Len(s) - 1
         /\ \A i \in 1..(Len(s) - 1) :
              RemoveAt(s, p)[i] = IF i < p THEN s[i] ELSE s[i + 1]
<1>1. Len(s) \in Nat /\ \A i \in 1..Len(s) : s[i] \in S
  BY ElementOfSeq
<1> DEFINE u == SubSeq(s, 1, p - 1)
           v == SubSeq(s, p + 1, Len(s))
<1>2. /\ u \in Seq(S) /\ Len(u) = p - 1
      /\ \A i \in 1..(p - 1) : u[i] = s[i]
  <2>1. \A i \in 1..(p - 1) : s[i] \in S
    BY <1>1
  <2>2. QED
    BY <1>1, <2>1, SubSeqProperties
<1>3. /\ v \in Seq(S) /\ Len(v) = Len(s) - p
      /\ \A i \in 1..(Len(s) - p) : v[i] = s[p + i]
  <2>1. \A i \in (p + 1)..Len(s) : s[i] \in S
    BY <1>1
  <2>2. /\ v \in Seq(S)
        /\ Len(v) = IF p + 1 <= Len(s) THEN Len(s) - (p + 1) + 1 ELSE 0
        /\ \A i \in 1..(Len(s) - (p + 1) + 1) : v[i] = s[(p + 1) + i - 1]
    BY <1>1, <2>1, SubSeqProperties
  <2>3. \A i \in 1..(Len(s) - p) : v[i] = s[p + i]
    BY <1>1, <2>2
  <2>4. QED
    BY <1>1, <2>2, <2>3
<1> HIDE DEF u, v
<1>4. /\ u \o v \in Seq(S)
      /\ Len(u \o v) = Len(s) - 1
      /\ \A i \in 1..(Len(s) - 1) :
           (u \o v)[i] = IF i <= p - 1 THEN u[i] ELSE v[i - (p - 1)]
  <2>1. /\ u \o v \in Seq(S)
        /\ Len(u \o v) = Len(u) + Len(v)
        /\ \A i \in 1..(Len(u) + Len(v)) :
             (u \o v)[i] = IF i <= Len(u) THEN u[i] ELSE v[i - Len(u)]
    BY <1>2, <1>3, ConcatProperties
  <2>2. Len(u) = p - 1 /\ Len(u) + Len(v) = Len(s) - 1
    BY <1>1, <1>2, <1>3
  <2>3. QED
    BY <2>1, <2>2
<1>5. ASSUME NEW i \in 1..(Len(s) - 1)
      PROVE  (u \o v)[i] = IF i < p THEN s[i] ELSE s[i + 1]
  <2>1. CASE i < p
    BY <1>1, <1>2, <1>4, <2>1
  <2>2. CASE ~(i < p)
    <3>1. i - (p - 1) \in 1..(Len(s) - p) /\ p + (i - (p - 1)) = i + 1
      BY <1>1, <2>2
    <3>2. QED
      BY <1>1, <1>3, <1>4, <2>2, <3>1
  <2>3. QED
    BY <2>1, <2>2
<1>6. QED
  BY <1>4, <1>5 DEF RemoveAt, u, v

LEMMA UnlinkList ==
  ASSUME NEW S, NEW s \in Seq(S), NEW x, Linked(s, x)
  PROVE  /\ Unlink(s, x) \in Seq(S)
         /\ Len(Unlink(s, x)) = Len(s) - 1
         /\ \A y : Linked(Unlink(s, x), y) => Linked(s, y)
         /\ \A y : Linked(s, y) => y = x \/ Linked(Unlink(s, x), y)
         /\ IsInjective(s) => IsInjective(Unlink(s, x)) /\ ~Linked(Unlink(s, x), x)
<1> DEFINE p == CHOOSE i \in DOMAIN s : s[i] = x
           r == RemoveAt(s, p)
<1>1. p \in DOMAIN s /\ s[p] = x
  BY DEF Linked
<1>2. DOMAIN s = 1..Len(s) /\ Len(s) \in Nat
  OBVIOUS
<1> HIDE DEF p
<1>3. /\ r \in Seq(S) /\ Len(r) = Len(s) - 1
      /\ \A i \in 1..(Len(s) - 1) : r[i] = IF i < p THEN s[i] ELSE s[i + 1]
  BY <1>1, <1>2, RemoveAtProperties
<1> HIDE DEF r
<1>4. DOMAIN r = 1..(Len(s) - 1)
  BY <1>1, <1>2, <1>3
<1> DEFINE from(i) == IF i < p THEN i ELSE i + 1
<1>5. \A i \in DOMAIN r : from(i) \in DOMAIN s /\ from(i) # p /\ r[i] = s[from(i)]
  BY <1>1, <1>2, <1>3, <1>4
<1>6. \A i \in DOMAIN s : i # p => \E k \in DOMAIN r : from(k) = i
  <2>1. SUFFICES ASSUME NEW i \in DOMAIN s, i # p PROVE \E k \in DOMAIN r : from(k) = i
    OBVIOUS
  <2>2. CASE i < p
    BY <1>1, <1>2, <1>4, <2>1, <2>2
  <2>3. CASE i > p
    <3>1. i - 1 \in DOMAIN r /\ from(i - 1) = i
      BY <1>1, <1>2, <1>4, <2>1, <2>3
    <3>2. QED
      BY <3>1
  <2>4. QED
    BY <1>1, <1>2, <2>1, <2>2, <2>3
<1>7. \A i, k \in DOMAIN r : from(i) = from(k) => i = k
  BY <1>1, <1>2, <1>4
<1> HIDE DEF from
<1>8. \A y : Linked(r, y) => Linked(s, y)
  BY <1>5 DEF Linked
<1>9. \A y : Linked(s, y) => y = x \/ Linked(r, y)
  BY <1>1, <1>5, <1>6 DEF Linked
<1>10. ASSUME IsInjective(s) PROVE IsInjective(r) /\ ~Linked(r, x)
  <2>1. \A i, k \in DOMAIN s : s[i] = s[k] => i = k
    BY <1>10 DEF IsInjective
  <2>2. IsInjective(r)
    BY <1>5, <1>7, <2>1 DEF IsInjective
  <2>3. ~Linked(r, x)
    BY <1>1, <1>5, <2>1 DEF Linked
  <2>4. QED
    BY <2>2, <2>3
<1>11. QED
  BY <1>3, <1>8, <1>9, <1>10 DEF Unlink, r, p

(* Inserting an element before a position, or at the end.                  *)
LEMMA InsertAtProperties ==
  ASSUME NEW S, NEW s \in Seq(S), NEW x \in S, NEW p \in 1..(Len(s) + 1)
  PROVE  /\ InsertAt(s, p, x) \in Seq(S)
         /\ Len(InsertAt(s, p, x)) = Len(s) + 1
         /\ \A i \in 1..(Len(s) + 1) :
              InsertAt(s, p, x)[i] =
                IF i < p THEN s[i] ELSE IF i = p THEN x ELSE s[i - 1]
<1>1. Len(s) \in Nat /\ \A i \in 1..Len(s) : s[i] \in S
  BY ElementOfSeq
<1> DEFINE u == SubSeq(s, 1, p - 1)
           v == SubSeq(s, p, Len(s))
           m == u \o <<x>>
<1>2. /\ u \in Seq(S) /\ Len(u) = p - 1
      /\ \A i \in 1..(p - 1) : u[i] = s[i]
  <2>1. \A i \in 1..(p - 1) : s[i] \in S
    BY <1>1
  <2>2. QED
    BY <1>1, <2>1, SubSeqProperties
<1>3. /\ v \in Seq(S) /\ Len(v) = Len(s) - p + 1
      /\ \A i \in 1..(Len(s) - p + 1) : v[i] = s[p + i - 1]
  <2>1. \A i \in p..Len(s) : s[i] \in S
    BY <1>1
  <2>2. QED
    BY <1>1, <2>1, SubSeqProperties
<1> HIDE DEF u, v
<1>4. /\ m \in Seq(S) /\ Len(m) = p
      /\ \A i \in 1..(p - 1) : m[i] = s[i]
      /\ m[p] = x
  <2>1. <<x>> \in Seq(S) /\ Len(<<x>>) = 1 /\ <<x>>[1] = x
    OBVIOUS
  <2>2. /\ m \in Seq(S)
        /\ Len(m) = Len(u) + 1
        /\ \A i \in 1..(Len(u) + 1) :
             m[i] = IF i <= Len(u) THEN u[i] ELSE <<x>>[i - Len(u)]
    BY <1>2, <2>1, ConcatProperties
  <2>3. QED
    BY <1>1, <1>2, <2>1, <2>2, SMTT(30)
<1> HIDE DEF m
<1>5. /\ m \o v \in Seq(S)
      /\ Len(m \o v) = Len(s) + 1
      /\ \A i \in 1..(Len(s) + 1) : (m \o v)[i] = IF i <= p THEN m[i] ELSE v[i - p]
  <2>1. /\ m \o v \in Seq(S)
        /\ Len(m \o v) = Len(m) + Len(v)
        /\ \A i \in 1..(Len(m) + Len(v)) :
             (m \o v)[i] = IF i <= Len(m) THEN m[i] ELSE v[i - Len(m)]
    BY <1>3, <1>4, ConcatProperties
  <2>2. Len(m) = p /\ Len(m) + Len(v) = Len(s) + 1
    BY <1>1, <1>3, <1>4
  <2>3. QED
    BY <2>1, <2>2
<1>6. ASSUME NEW i \in 1..(Len(s) + 1)
      PROVE  (m \o v)[i] = IF i < p THEN s[i] ELSE IF i = p THEN x ELSE s[i - 1]
  <2>1. CASE i <= p
    BY <1>1, <1>4, <1>5, <2>1
  <2>2. CASE ~(i <= p)
    <3>1. i - p \in 1..(Len(s) - p + 1) /\ p + (i - p) - 1 = i - 1
      BY <1>1, <2>2
    <3>2. QED
      BY <1>1, <1>3, <1>5, <2>2, <3>1
  <2>3. QED
    BY <2>1, <2>2
<1>7. QED
  BY <1>5, <1>6 DEF InsertAt, u, v, m

LEMMA InsertSortedList ==
  ASSUME NEW S, NEW s \in Seq(S), NEW x \in S, NEW key \in [S -> Nat]
  PROVE  /\ InsertSorted(s, x, key) \in Seq(S)
         /\ Len(InsertSorted(s, x, key)) = Len(s) + 1
         /\ \A y : Linked(InsertSorted(s, x, key), y) <=> Linked(s, y) \/ y = x
         /\ IsInjective(s) /\ ~Linked(s, x) => IsInjective(InsertSorted(s, x, key))
<1> DEFINE later == {i \in DOMAIN s : key[x] < key[s[i]]}
           pos   == later \cup {Len(s) + 1}
           p     == CHOOSE q \in pos : \A i \in pos : q <= i
           r     == InsertAt(s, p, x)
<1>1. DOMAIN s = 1..Len(s) /\ Len(s) \in Nat
  OBVIOUS
<1>2. pos \in SUBSET Nat /\ pos # {} /\ pos \subseteq 1..(Len(s) + 1)
  BY <1>1
<1>3. p \in 1..(Len(s) + 1)
  <2>1. \E q \in pos : \A i \in pos : q <= i
    BY <1>2, LeastNatural
  <2>2. p \in pos
    BY <2>1
  <2>3. QED
    BY <1>2, <2>2
<1>4. InsertSorted(s, x, key) = r
  BY DEF InsertSorted, Min
<1> HIDE DEF p
<1>5. /\ r \in Seq(S) /\ Len(r) = Len(s) + 1
      /\ \A i \in 1..(Len(s) + 1) :
           r[i] = IF i < p THEN s[i] ELSE IF i = p THEN x ELSE s[i - 1]
  BY <1>3, InsertAtProperties
<1> HIDE DEF r
<1>6. DOMAIN r = 1..(Len(s) + 1)
  BY <1>1, <1>5
<1> DEFINE from(i) == IF i < p THEN i ELSE i - 1
<1>7. /\ r[p] = x /\ p \in DOMAIN r
      /\ \A i \in DOMAIN r : i # p => from(i) \in DOMAIN s /\ r[i] = s[from(i)]
      /\ \A i, k \in DOMAIN r : i # p /\ k # p /\ from(i) = from(k) => i = k
  <2>1. r[p] = x /\ p \in DOMAIN r
    BY <1>1, <1>3, <1>5, <1>6
  <2>2. ASSUME NEW i \in DOMAIN r, i # p
        PROVE  from(i) \in DOMAIN s /\ r[i] = s[from(i)]
    <3>1. CASE i < p
      BY <1>1, <1>3, <1>5, <1>6, <2>2, <3>1
    <3>2. CASE ~(i < p)
      BY <1>1, <1>3, <1>5, <1>6, <2>2, <3>2, SMTT(30)
    <3>3. QED
      BY <3>1, <3>2
  <2>3. ASSUME NEW i \in DOMAIN r, NEW k \in DOMAIN r, i # p, k # p, from(i) = from(k)
        PROVE  i = k
    BY <1>1, <1>3, <1>6, <2>3
  <2>4. QED
    BY <2>1, <2>2, <2>3
<1>8. \A i \in DOMAIN s : \E k \in DOMAIN r : k # p /\ from(k) = i
  <2>1. SUFFICES ASSUME NEW i \in DOMAIN s
                 PROVE  \E k \in DOMAIN r : k # p /\ from(k) = i
    OBVIOUS
  <2>2. CASE i < p
    BY <1>1, <1>3, <1>6, <2>2
  <2>3. CASE ~(i < p)
    <3>1. i + 1 \in DOMAIN r /\ i + 1 # p /\ from(i + 1) = i
      BY <1>1, <1>3, <1>6, <2>3
    <3>2. QED
      BY <3>1
  <2>4. QED
    BY <2>2, <2>3
<1> HIDE DEF from
<1>9. \A y : Linked(r, y) <=> Linked(s, y) \/ y = x
  BY <1>7, <1>8 DEF Linked
<1>10. ASSUME IsInjective(s), ~Linked(s, x) PROVE IsInjective(r)
  <2>1. \A i, k \in DOMAIN s : s[i] = s[k] => i = k
    BY <1>10 DEF IsInjective
  <2>2. \A i \in DOMAIN s : s[i] # x
    BY <1>10 DEF Linked
  <2>3. QED
    BY <1>7, <2>1, <2>2 DEF IsInjective
<1>11. QED
  BY <1>4, <1>5, <1>9, <1>10

-----------------------------------------------------------------------------
(* Counting threads *)

(* A count is a natural number, monotone, and at most all threads.         *)
LEMMA CountBounds ==
  ASSUME NEW f, NEW S
  PROVE  /\ Count(f, S) \in Nat
         /\ Count(f, S) <= Cardinality(Threads)
         /\ Cardinality(Threads) \in Nat
         /\ Count(f, {}) = 0
         /\ \A R \in SUBSET S : Count(f, R) <= Count(f, S)
<1>1. IsFiniteSet(Threads)
  BY PoolAssumption
<1>2. IsFiniteSet({t \in Threads : f[t] \in S})
  BY <1>1, FS_Subset
<1>3. Count(f, {}) = 0
  <2>1. {t \in Threads : f[t] \in {}} = {}
    OBVIOUS
  <2>2. QED
    BY <2>1, FS_EmptySet DEF Count
<1>4. ASSUME NEW R \in SUBSET S PROVE Count(f, R) <= Count(f, S)
  <2>1. {t \in Threads : f[t] \in R} \subseteq {t \in Threads : f[t] \in S}
    OBVIOUS
  <2>2. QED
    BY <1>2, <2>1, FS_Subset DEF Count
<1>5. QED
  BY <1>1, <1>2, <1>3, <1>4, FS_Subset, FS_CardinalityType DEF Count

(* What a step of one thread does to a count.                              *)
LEMMA MoveThread ==
  ASSUME NEW f \in [Threads -> WorkerStates], NEW t \in Threads,
         NEW b \in WorkerStates, NEW S
  PROVE  /\ (f[t] \in S <=> b \in S) => Count([f EXCEPT ![t] = b], S) = Count(f, S)
         /\ f[t] \in S /\ b \notin S => Count([f EXCEPT ![t] = b], S) = Count(f, S) - 1
         /\ f[t] \notin S /\ b \in S => Count([f EXCEPT ![t] = b], S) = Count(f, S) + 1
<1> DEFINE g == [f EXCEPT ![t] = b]
           F == {u \in Threads : f[u] \in S}
           G == {u \in Threads : g[u] \in S}
<1>1. IsFiniteSet(F)
  BY PoolAssumption, FS_Subset
<1>2. g[t] = b /\ \A u \in Threads : u # t => g[u] = f[u]
  OBVIOUS
<1>3. Count(f, S) = Cardinality(F) /\ Count(g, S) = Cardinality(G)
  BY DEF Count
<1> HIDE DEF g
<1>4. ASSUME f[t] \in S <=> b \in S PROVE F = G
  BY <1>2, <1>4
<1>5. ASSUME f[t] \in S, b \notin S PROVE G = F \ {t} /\ t \in F
  BY <1>2, <1>5
<1>6. ASSUME f[t] \notin S, b \in S PROVE G = F \cup {t} /\ t \notin F
  BY <1>2, <1>6
<1> HIDE DEF F, G
<1>7. ASSUME f[t] \in S, b \notin S PROVE Cardinality(G) = Cardinality(F) - 1
  BY <1>1, <1>5, <1>7, FS_RemoveElement
<1>8. ASSUME f[t] \notin S, b \in S PROVE Cardinality(G) = Cardinality(F) + 1
  BY <1>1, <1>6, <1>8, FS_AddElement
<1>9. QED
  BY <1>3, <1>4, <1>7, <1>8 DEF g

(* A state that a thread is in counts.                                     *)
LEMMA Occupied ==
  ASSUME NEW f, NEW t \in Threads, NEW S, f[t] \in S
  PROVE  Count(f, S) >= 1
<1>1. IsFiniteSet({u \in Threads : f[u] \in S})
  BY PoolAssumption, FS_Subset
<1>2. Count(f, S) # 0
  BY <1>1, FS_EmptySet DEF Count
<1>3. QED
  BY <1>2, CountBounds

(* The states of a worker, and those in which it is counted.               *)
LEMMA StateNames ==
  /\ "off" \in WorkerStates /\ "start" \in WorkerStates /\ "wait" \in WorkerStates
     /\ "token" \in WorkerStates
  /\ "timeout" \in WorkerStates /\ "run" \in WorkerStates
     /\ "last" \in WorkerStates /\ "exit" \in WorkerStates
  /\ "start" \in CountedStates /\ "wait" \in CountedStates
  /\ "token" \in CountedStates /\ "timeout" \in CountedStates /\ "run" \in CountedStates
  /\ "off" \notin CountedStates /\ "last" \notin CountedStates /\ "exit" \notin CountedStates
BY DEF WorkerStates, CountedStates

(* The same for a single state s.                                          *)
LEMMA MovedOne ==
  ASSUME pc \in [Threads -> WorkerStates], NEW t \in Threads, NEW b \in WorkerStates,
         pc' = [pc EXCEPT ![t] = b], NEW s
  PROVE  /\ (pc[t] = s <=> b = s) => Count(pc', {s}) = Count(pc, {s})
         /\ pc[t] = s /\ b # s => Count(pc', {s}) = Count(pc, {s}) - 1
         /\ pc[t] # s /\ b = s => Count(pc', {s}) = Count(pc, {s}) + 1
<1>1. /\ (pc[t] \in {s} <=> b \in {s}) => Count(pc', {s}) = Count(pc, {s})
      /\ pc[t] \in {s} /\ b \notin {s} => Count(pc', {s}) = Count(pc, {s}) - 1
      /\ pc[t] \notin {s} /\ b \in {s} => Count(pc', {s}) = Count(pc, {s}) + 1
  BY MoveThread, ZenonT(40)
<1>2. QED
  BY <1>1

(* How a step of one worker changes the numbers the invariants speak of.   *)
LEMMA Moved ==
  ASSUME pc \in [Threads -> WorkerStates], NEW t \in Threads, NEW b \in WorkerStates,
         pc' = [pc EXCEPT ![t] = b]
  PROVE  /\ pc' \in [Threads -> WorkerStates]
         /\ (pc[t] \in CountedStates <=> b \in CountedStates) => Count(pc', CountedStates) = Count(pc, CountedStates)
         /\ pc[t] \in CountedStates /\ b \notin CountedStates => Count(pc', CountedStates) = Count(pc, CountedStates) - 1
         /\ pc[t] \notin CountedStates /\ b \in CountedStates => Count(pc', CountedStates) = Count(pc, CountedStates) + 1
         /\ (pc[t] = "start" <=> b = "start") => Count(pc', {"start"}) = Count(pc, {"start"})
         /\ pc[t] = "start" /\ b # "start" => Count(pc', {"start"}) = Count(pc, {"start"}) - 1
         /\ pc[t] # "start" /\ b = "start" => Count(pc', {"start"}) = Count(pc, {"start"}) + 1
         /\ (pc[t] = "exit" <=> b = "exit") => Count(pc', {"exit"}) = Count(pc, {"exit"})
         /\ pc[t] = "exit" /\ b # "exit" => Count(pc', {"exit"}) = Count(pc, {"exit"}) - 1
         /\ pc[t] # "exit" /\ b = "exit" => Count(pc', {"exit"}) = Count(pc, {"exit"}) + 1
         /\ (pc[t] = "token" <=> b = "token") => Count(pc', {"token"}) = Count(pc, {"token"})
         /\ pc[t] = "token" /\ b # "token" => Count(pc', {"token"}) = Count(pc, {"token"}) - 1
         /\ pc[t] # "token" /\ b = "token" => Count(pc', {"token"}) = Count(pc, {"token"}) + 1
         /\ (pc[t] = "run" <=> b = "run") => Count(pc', {"run"}) = Count(pc, {"run"})
         /\ pc[t] = "run" /\ b # "run" => Count(pc', {"run"}) = Count(pc, {"run"}) - 1
         /\ pc[t] # "run" /\ b = "run" => Count(pc', {"run"}) = Count(pc, {"run"}) + 1
<1>1. pc' \in [Threads -> WorkerStates]
  OBVIOUS
<1>2. /\ (pc[t] \in CountedStates <=> b \in CountedStates) => Count(pc', CountedStates) = Count(pc, CountedStates)
      /\ pc[t] \in CountedStates /\ b \notin CountedStates => Count(pc', CountedStates) = Count(pc, CountedStates) - 1
      /\ pc[t] \notin CountedStates /\ b \in CountedStates => Count(pc', CountedStates) = Count(pc, CountedStates) + 1
  BY MoveThread, ZenonT(40)
<1>3. /\ (pc[t] = "start" <=> b = "start") => Count(pc', {"start"}) = Count(pc, {"start"})
      /\ pc[t] = "start" /\ b # "start" => Count(pc', {"start"}) = Count(pc, {"start"}) - 1
      /\ pc[t] # "start" /\ b = "start" => Count(pc', {"start"}) = Count(pc, {"start"}) + 1
  BY MovedOne
<1>4. /\ (pc[t] = "exit" <=> b = "exit") => Count(pc', {"exit"}) = Count(pc, {"exit"})
      /\ pc[t] = "exit" /\ b # "exit" => Count(pc', {"exit"}) = Count(pc, {"exit"}) - 1
      /\ pc[t] # "exit" /\ b = "exit" => Count(pc', {"exit"}) = Count(pc, {"exit"}) + 1
  BY MovedOne
<1>5. /\ (pc[t] = "token" <=> b = "token") => Count(pc', {"token"}) = Count(pc, {"token"})
      /\ pc[t] = "token" /\ b # "token" => Count(pc', {"token"}) = Count(pc, {"token"}) - 1
      /\ pc[t] # "token" /\ b = "token" => Count(pc', {"token"}) = Count(pc, {"token"}) + 1
  BY MovedOne
<1>6. /\ (pc[t] = "run" <=> b = "run") => Count(pc', {"run"}) = Count(pc, {"run"})
      /\ pc[t] = "run" /\ b # "run" => Count(pc', {"run"}) = Count(pc, {"run"}) - 1
      /\ pc[t] # "run" /\ b = "run" => Count(pc', {"run"}) = Count(pc, {"run"}) + 1
  BY MovedOne
<1>7. QED
  BY <1>1, <1>2, <1>3, <1>4, <1>5, <1>6

-----------------------------------------------------------------------------
(* Layer 1: the threads and the start/stop handshake *)

ThreadTypes ==
  /\ owner \in OwnerStates
  /\ threads \in Nat /\ waited \in Nat
  /\ maxThreads \in Nat
  /\ activeThreads \in Nat
  /\ startStopSignal \in 0..MaxSem
  /\ pc \in [Threads -> WorkerStates]
  /\ timerTask \in {"idle", "fired", "locked"}

BeingCreated == owner \in {"creating", "starting", "aborting"}

InService == BeingCreated \/ owner = "open"

(* What each phase of the life of a pool implies.  maxThreads is zero      *)
(* exactly outside service; while the pool is created its threads neither  *)
(* exit nor work and the timer is not in use; when it is gone no thread    *)
(* serves it; the timer thread keeps the mutex only on an open pool.       *)
Lifecycle ==
  /\ InService => maxThreads >= MinThreads /\ Count(pc, {"exit"}) = 0
  /\ ~InService => maxThreads = 0 /\ Count(pc, {"start"}) = 0
  /\ BeingCreated => /\ timer = Idle /\ timerTask = "idle"
                     /\ activeThreads = threads /\ threads <= MinThreads
  /\ owner = "starting" => threads = MinThreads
  /\ owner \in {"gone", "returned"} => activeThreads = 0 /\ Count(pc, {"exit"}) = 0
  /\ threads <= Cardinality(Threads)
  /\ timerTask = "locked" => owner = "open"

ThreadInv == ThreadTypes /\ Lifecycle /\ ThreadAccounting /\ StartStopHandshake /\ PoolFloor

threadVars == <<owner, threads, waited, maxThreads, activeThreads, startStopSignal, pc,
                timerTask>>

LEMMA ThreadInvInit == Init => ThreadInv
<1>1. SUFFICES ASSUME Init PROVE ThreadInv
  OBVIOUS
<1>2. ASSUME NEW S, "off" \notin S PROVE Count(pc, S) = 0
  <2>1. {t \in Threads : pc[t] \in S} = {}
    BY <1>1, <1>2 DEF Init
  <2>2. QED
    BY <2>1, FS_EmptySet DEF Count
<1>3. Count(pc, CountedStates) = 0 /\ Count(pc, {"start"}) = 0 /\ Count(pc, {"exit"}) = 0
  BY <1>2 DEF CountedStates
<1>4. ThreadTypes
  BY <1>1, PoolAssumption DEF Init, ThreadTypes, OwnerStates, WorkerStates
<1>5. QED
  BY <1>1, <1>3, <1>4, CountBounds, PoolAssumption
  DEF Init, ThreadInv, Lifecycle, InService, BeingCreated, ThreadAccounting,
      StartStopHandshake, PoolFloor, OwnerStates

(* Steps that leave the threads alone, and the timer unless the pool is    *)
(* open or done.                                                           *)
LEMMA ThreadInvFrame ==
  ASSUME ThreadInv, UNCHANGED threadVars, BeingCreated => timer' = timer
  PROVE  ThreadInv'
BY DEF ThreadInv, threadVars, ThreadTypes, Lifecycle, InService, BeingCreated,
       ThreadAccounting, StartStopHandshake, PoolFloor, Count

(* A thread is created while a pool in service grows.                      *)
LEMMA ThreadInvGrow ==
  ASSUME ThreadInv, owner = "open", NEW t \in Threads, pc[t] = "off",
         pc' = [pc EXCEPT ![t] = "wait"], activeThreads' = activeThreads + 1,
         UNCHANGED <<owner, threads, waited, maxThreads, startStopSignal, timerTask>>
  PROVE  ThreadInv'
<1>1. pc \in [Threads -> WorkerStates]
  BY DEF ThreadInv, ThreadTypes
<1>2. /\ Count(pc', CountedStates) = Count(pc, CountedStates) + 1
      /\ Count(pc', {"start"}) = Count(pc, {"start"})
      /\ Count(pc', {"exit"}) = Count(pc, {"exit"})
      /\ pc' \in [Threads -> WorkerStates]
  BY <1>1, Moved, StateNames
<1>3. QED
  BY <1>2, PoolAssumption
  DEF ThreadInv, ThreadTypes, Lifecycle, InService, BeingCreated, ThreadAccounting,
      StartStopHandshake, PoolFloor, OwnerStates

(* Scheduling a job on an open pool.                                       *)
LEMMA ThreadInvSchedule ==
  ASSUME ThreadInv, owner = "open", NEW j, NEW p, NEW q, _scheduleInternal(j, p, q),
         UNCHANGED <<owner, threads, waited, maxThreads, startStopSignal, timerTask>>
  PROVE  ThreadInv'
<1>1. CASE \E t \in Threads : /\ pc[t] = "off"
                              /\ pc' = [pc EXCEPT ![t] = "wait"]
                              /\ activeThreads' = activeThreads + 1
  BY <1>1, ThreadInvGrow
<1>2. CASE UNCHANGED <<pc, activeThreads>>
  BY <1>2, ThreadInvFrame DEF threadVars, BeingCreated
<1>3. QED
  BY <1>1, <1>2 DEF _scheduleInternal

(* The worker actions.                                                     *)
LEMMA ThreadInvWorker ==
  ASSUME ThreadInv, NEW t \in Threads, Worker(t)
  PROVE  ThreadInv'
<1> USE PoolAssumption
<1>1. /\ pc \in [Threads -> WorkerStates]
      /\ \A S : Count(pc, S) \in Nat /\ Count(pc, S) <= Cardinality(Threads)
      /\ Cardinality(Threads) \in Nat
  BY CountBounds DEF ThreadInv, ThreadTypes
<1>2. CASE WorkerStart(t)
  <2>1. /\ Count(pc', CountedStates) = Count(pc, CountedStates)
        /\ Count(pc', {"start"}) = Count(pc, {"start"}) - 1
        /\ Count(pc', {"exit"}) = Count(pc, {"exit"})
        /\ pc' \in [Threads -> WorkerStates]
    BY <1>1, <1>2, Moved, StateNames DEF WorkerStart
  <2>2. BeingCreated
    BY <1>1, <1>2, <2>1, CountBounds
    DEF ThreadInv, ThreadTypes, OwnerStates, Lifecycle, InService, BeingCreated,
        StartStopHandshake
  <2>3. startStopSignal' = startStopSignal + 1
    BY <1>1, <1>2, <2>1, <2>2, CountBounds
    DEF WorkerStart, Post, ThreadInv, ThreadTypes, Lifecycle, BeingCreated,
        StartStopHandshake
  <2>4. UNCHANGED <<owner, threads, waited, maxThreads, activeThreads, timerTask, timer>>
    BY <1>2 DEF WorkerStart, ownerVars, timerVars
  <2>5. QED
    BY <1>1, <2>1, <2>2, <2>3, <2>4, CountBounds
    DEF ThreadInv, ThreadTypes, Lifecycle, InService, BeingCreated, ThreadAccounting,
        StartStopHandshake, PoolFloor
<1>3. CASE WorkerWake(t)
  <2>1. /\ Count(pc', CountedStates) = Count(pc, CountedStates)
        /\ Count(pc', {"start"}) = Count(pc, {"start"})
        /\ Count(pc', {"exit"}) = Count(pc, {"exit"})
        /\ pc' \in [Threads -> WorkerStates]
    BY <1>1, <1>3, Moved, StateNames DEF WorkerWake
  <2>2. UNCHANGED <<owner, threads, waited, maxThreads, activeThreads, startStopSignal,
                    timerTask, timer>>
    BY <1>3 DEF WorkerWake, ownerVars, timerVars
  <2>3. QED
    BY <2>1, <2>2
    DEF ThreadInv, ThreadTypes, Lifecycle, InService, BeingCreated, ThreadAccounting,
        StartStopHandshake, PoolFloor
<1>4. CASE WorkerCheck(t)
  <2>1. UNCHANGED <<owner, threads, waited, maxThreads, startStopSignal, timerTask, timer>>
    BY <1>4 DEF WorkerCheck, ownerVars, timerVars, signalVars
  <2>2. pc[t] \in CountedStates /\ pc[t] # "start" /\ pc[t] # "exit" /\ activeThreads >= 1
    <3>1. pc[t] \in CountedStates /\ pc[t] # "start" /\ pc[t] # "exit"
      BY <1>4, StateNames DEF WorkerCheck
    <3>2. QED
      BY <3>1, Occupied DEF ThreadInv, ThreadAccounting
  <2>3. CASE _IsShutdownStarted
    <3>1. pc' = [pc EXCEPT ![t] = "exit"] /\ activeThreads' = activeThreads - 1
      BY <1>4, <2>3 DEF WorkerCheck
    <3>2. /\ Count(pc', CountedStates) = Count(pc, CountedStates) - 1
          /\ Count(pc', {"start"}) = Count(pc, {"start"})
          /\ Count(pc', {"exit"}) = Count(pc, {"exit"}) + 1
          /\ pc' \in [Threads -> WorkerStates]
      BY <1>1, <2>2, <3>1, Moved, StateNames
    <3>3. owner \in {"closing", "unwinding"}
      BY <2>2, <2>3
      DEF _IsShutdownStarted, ThreadInv, ThreadTypes, OwnerStates, Lifecycle, InService,
          BeingCreated
    <3>4. QED
      BY <1>1, <2>1, <2>2, <3>1, <3>2, <3>3
      DEF ThreadInv, ThreadTypes, Lifecycle, InService, BeingCreated, ThreadAccounting,
          StartStopHandshake, PoolFloor
  <2>4. CASE ~_IsShutdownStarted /\ Surplus(t)
    <3>1. /\ activeThreads' = activeThreads - 1
          /\ \/ pc' = [pc EXCEPT ![t] = "last"]
             \/ pc' = [pc EXCEPT ![t] = "off"]
      BY <1>4, <2>4 DEF WorkerCheck
    <3>2. /\ Count(pc', CountedStates) = Count(pc, CountedStates) - 1
          /\ Count(pc', {"start"}) = Count(pc, {"start"})
          /\ Count(pc', {"exit"}) = Count(pc, {"exit"})
          /\ pc' \in [Threads -> WorkerStates]
      BY <1>1, <2>2, <3>1, Moved, StateNames
    <3>3. owner = "open" /\ activeThreads > MinThreads
      BY <2>2, <2>4
      DEF Surplus, _IsShutdownStarted, ThreadInv, ThreadTypes, OwnerStates, Lifecycle,
          InService, BeingCreated
    <3>4. QED
      BY <1>1, <2>1, <2>2, <3>1, <3>2, <3>3
      DEF ThreadInv, ThreadTypes, Lifecycle, InService, BeingCreated, ThreadAccounting,
          StartStopHandshake, PoolFloor
  <2>5. CASE ~_IsShutdownStarted /\ ~Surplus(t)
    <3>1. /\ activeThreads' = activeThreads
          /\ \/ pc' = [pc EXCEPT ![t] = "run"]
             \/ pc' = [pc EXCEPT ![t] = "wait"]
      BY <1>4, <2>5 DEF WorkerCheck
    <3>2. /\ Count(pc', CountedStates) = Count(pc, CountedStates)
          /\ Count(pc', {"start"}) = Count(pc, {"start"})
          /\ Count(pc', {"exit"}) = Count(pc, {"exit"})
          /\ pc' \in [Threads -> WorkerStates]
      BY <1>1, <2>2, <3>1, Moved, StateNames
    <3>3. QED
      BY <2>1, <3>1, <3>2
      DEF ThreadInv, ThreadTypes, Lifecycle, InService, BeingCreated, ThreadAccounting,
          StartStopHandshake, PoolFloor
  <2>6. QED
    BY <2>3, <2>4, <2>5
<1>5. CASE WorkerLast(t)
  <2>1. /\ Count(pc', CountedStates) = Count(pc, CountedStates)
        /\ Count(pc', {"start"}) = Count(pc, {"start"})
        /\ Count(pc', {"exit"}) = Count(pc, {"exit"})
        /\ pc' \in [Threads -> WorkerStates]
    BY <1>1, <1>5, Moved, StateNames, ZenonT(40) DEF WorkerLast
  <2>2. UNCHANGED <<owner, threads, waited, maxThreads, activeThreads, startStopSignal,
                    timerTask, timer>>
    BY <1>5 DEF WorkerLast, ownerVars, timerVars, signalVars
  <2>3. QED
    BY <2>1, <2>2
    DEF ThreadInv, ThreadTypes, Lifecycle, InService, BeingCreated, ThreadAccounting,
        StartStopHandshake, PoolFloor
<1>6. CASE WorkerNext(t)
  <2>1. /\ Count(pc', CountedStates) = Count(pc, CountedStates)
        /\ Count(pc', {"start"}) = Count(pc, {"start"})
        /\ Count(pc', {"exit"}) = Count(pc, {"exit"})
        /\ pc' \in [Threads -> WorkerStates]
    BY <1>1, <1>6, Moved, StateNames DEF WorkerNext
  <2>2. UNCHANGED <<owner, threads, waited, maxThreads, activeThreads, startStopSignal,
                    timerTask, timer>>
    BY <1>6 DEF WorkerNext, ownerVars, timerVars, signalVars
  <2>3. QED
    BY <2>1, <2>2
    DEF ThreadInv, ThreadTypes, Lifecycle, InService, BeingCreated, ThreadAccounting,
        StartStopHandshake, PoolFloor
<1>7. CASE WorkerExit(t)
  <2>1. /\ Count(pc', CountedStates) = Count(pc, CountedStates)
        /\ Count(pc', {"start"}) = Count(pc, {"start"})
        /\ Count(pc', {"exit"}) = Count(pc, {"exit"}) - 1
        /\ pc' \in [Threads -> WorkerStates]
    BY <1>1, <1>7, Moved, StateNames, ZenonT(40) DEF WorkerExit
  <2>2. owner \in {"closing", "unwinding"}
    BY <1>1, <2>1, CountBounds
    DEF ThreadInv, ThreadTypes, OwnerStates, Lifecycle, InService, BeingCreated
  <2>3. startStopSignal' = startStopSignal + 1
    BY <1>1, <1>7, <2>1, <2>2, CountBounds
    DEF WorkerExit, Post, ThreadInv, ThreadTypes, Lifecycle, StartStopHandshake
  <2>4. UNCHANGED <<owner, threads, waited, maxThreads, activeThreads, timerTask, timer>>
    BY <1>7 DEF WorkerExit, ownerVars, timerVars
  <2>5. QED
    BY <1>1, <2>1, <2>2, <2>3, <2>4, CountBounds
    DEF ThreadInv, ThreadTypes, Lifecycle, InService, BeingCreated, ThreadAccounting,
        StartStopHandshake, PoolFloor
<1>8. QED
  BY <1>2, <1>3, <1>4, <1>5, <1>6, <1>7 DEF Worker

(* The owner's actions: Create, its waits, Destroy.                        *)
LEMMA ThreadInvOwner ==
  ASSUME ThreadInv,
         \/ \E n \in MaxThreads : IotTaskPool_SetMaxThreads(n) \/ IotTaskPool_Create(n)
         \/ IotTaskPool_Destroy \/ Owner
  PROVE  ThreadInv'
<1> USE PoolAssumption
<1>1. /\ pc \in [Threads -> WorkerStates]
      /\ \A S : Count(pc, S) \in Nat /\ Count(pc, S) <= Cardinality(Threads)
      /\ Cardinality(Threads) \in Nat
  BY CountBounds DEF ThreadInv, ThreadTypes
<1>2. CASE \E n \in MaxThreads : IotTaskPool_SetMaxThreads(n)
  <2>1. UNCHANGED <<owner, threads, waited, activeThreads, startStopSignal, pc, timerTask>>
    BY <1>2 DEF IotTaskPool_SetMaxThreads, ownerVars
  <2>2. owner = "open" /\ maxThreads' \in Nat /\ maxThreads' >= MinThreads
    BY <1>2 DEF IotTaskPool_SetMaxThreads, ApiEnter
  <2>3. QED
    BY <2>1, <2>2
    DEF ThreadInv, ThreadTypes, Lifecycle, InService, BeingCreated, ThreadAccounting,
        StartStopHandshake, PoolFloor
<1>3. CASE \E n \in MaxThreads : IotTaskPool_Create(n)
  <2>1. /\ owner = "gone" /\ owner' = "creating"
        /\ threads' = 0 /\ waited' = 0 /\ activeThreads' = 0 /\ startStopSignal' = 0
        /\ timer' = Idle /\ timerTask' = "idle" /\ timerTask = "idle" /\ pc' = pc
        /\ maxThreads' \in Nat /\ maxThreads' >= MinThreads
    BY <1>3 DEF IotTaskPool_Create
  <2>2. QED
    BY <1>1, <2>1
    DEF ThreadInv, ThreadTypes, Lifecycle, InService, BeingCreated, ThreadAccounting,
        StartStopHandshake, PoolFloor, OwnerStates
<1>4. CASE IotTaskPool_Destroy
  <2>1. /\ owner = "open" /\ owner' = "closing"
        /\ threads' = activeThreads /\ waited' = 0 /\ maxThreads' = 0
        /\ UNCHANGED <<activeThreads, startStopSignal, pc, timerTask>>
        /\ timerTask # "locked"
    BY <1>4 DEF IotTaskPool_Destroy, ApiEnter, LockFree
  <2>2. QED
    BY <1>1, <2>1
    DEF ThreadInv, ThreadTypes, Lifecycle, InService, BeingCreated, ThreadAccounting,
        StartStopHandshake, PoolFloor, OwnerStates
<1>5. CASE CreateThread
  <2>1. /\ owner = "creating"
        /\ UNCHANGED <<waited, startStopSignal, maxThreads, timer, timerTask>>
    BY <1>5 DEF CreateThread, timerVars, signalVars
  <2>2. CASE UNCHANGED <<threads, activeThreads, pc>>
    <3>1. owner' = IF threads < MinThreads THEN "aborting" ELSE "starting"
      BY <1>5, <2>2 DEF CreateThread, ThreadInv, ThreadTypes
    <3>2. QED
      BY <1>1, <2>1, <2>2, <3>1
      DEF ThreadInv, ThreadTypes, Lifecycle, InService, BeingCreated, ThreadAccounting,
          StartStopHandshake, PoolFloor, OwnerStates
  <2>3. CASE /\ threads < MinThreads
             /\ \E t \in Threads : pc[t] = "off" /\ pc' = [pc EXCEPT ![t] = "start"]
             /\ activeThreads' = activeThreads + 1
             /\ threads' = threads + 1
             /\ owner' = owner
    <3>1. /\ Count(pc', CountedStates) = Count(pc, CountedStates) + 1
          /\ Count(pc', {"start"}) = Count(pc, {"start"}) + 1
          /\ Count(pc', {"exit"}) = Count(pc, {"exit"})
          /\ pc' \in [Threads -> WorkerStates]
      BY <1>1, <2>3, Moved, StateNames
    <3>2. threads' <= Cardinality(Threads)
      BY <1>1, <2>1, <2>3, <3>1, CountBounds
      DEF ThreadInv, ThreadTypes, Lifecycle, BeingCreated, ThreadAccounting
    <3>3. QED
      BY <1>1, <2>1, <2>3, <3>1, <3>2
      DEF ThreadInv, ThreadTypes, Lifecycle, InService, BeingCreated, ThreadAccounting,
          StartStopHandshake, PoolFloor
  <2>4. QED
    BY <1>5, <2>2, <2>3 DEF CreateThread
<1>6. CASE OwnerWait
  <2>1. /\ owner \in {"starting", "aborting", "unwinding", "closing"}
        /\ waited < threads /\ startStopSignal > 0
        /\ startStopSignal' = startStopSignal - 1
        /\ waited' = waited + 1
        /\ UNCHANGED <<owner, threads, maxThreads, activeThreads, pc, timer, timerTask>>
    BY <1>6 DEF OwnerWait, timerVars
  <2>2. QED
    BY <1>1, <2>1
    DEF ThreadInv, ThreadTypes, Lifecycle, InService, BeingCreated, ThreadAccounting,
        StartStopHandshake, PoolFloor
<1>7. CASE CreateDone
  <2>1. /\ waited = threads
        /\ UNCHANGED <<threads, activeThreads, startStopSignal, pc, timer, timerTask>>
    BY <1>7 DEF CreateDone, timerVars
  <2>2. CASE owner = "starting"
    <3>1. owner' = "open" /\ UNCHANGED <<maxThreads, waited>>
      BY <1>7, <2>2 DEF CreateDone
    <3>2. QED
      BY <1>1, <2>1, <2>2, <3>1
      DEF ThreadInv, ThreadTypes, Lifecycle, InService, BeingCreated, ThreadAccounting,
          StartStopHandshake, PoolFloor, OwnerStates
  <2>3. CASE owner = "aborting"
    <3>1. owner' = "unwinding" /\ waited' = 0 /\ maxThreads' = 0
      BY <1>7, <2>3 DEF CreateDone
    <3>2. QED
      BY <1>1, <2>1, <2>3, <3>1
      DEF ThreadInv, ThreadTypes, Lifecycle, InService, BeingCreated, ThreadAccounting,
          StartStopHandshake, PoolFloor, OwnerStates
  <2>4. CASE owner = "unwinding"
    <3>1. owner' = "gone" /\ UNCHANGED <<maxThreads, waited>>
      BY <1>7, <2>4 DEF CreateDone
    <3>2. QED
      BY <1>1, <2>1, <2>4, <3>1
      DEF ThreadInv, ThreadTypes, Lifecycle, InService, BeingCreated, ThreadAccounting,
          StartStopHandshake, PoolFloor, OwnerStates
  <2>5. QED
    BY <1>7, <2>2, <2>3, <2>4 DEF CreateDone
<1>8. CASE DestroyDone
  <2>1. /\ waited = threads /\ owner = "closing"
        /\ owner' \in {"closing", "gone", "returned"}
        /\ owner' # "closing" => activeThreads = 0
        /\ UNCHANGED <<threads, waited, maxThreads, activeThreads, startStopSignal, pc,
                       timerTask>>
    BY <1>8 DEF DestroyDone, signalVars
  <2>2. owner' # "closing" => Count(pc, {"exit"}) = 0
    BY <1>1, <2>1 DEF ThreadInv, ThreadTypes, StartStopHandshake
  <2>3. timerTask # "locked" /\ maxThreads = 0 /\ Count(pc, {"start"}) = 0
    BY <2>1 DEF ThreadInv, Lifecycle, InService, BeingCreated
  <2>4. QED
    BY <2>1, <2>2, <2>3
    DEF ThreadInv, ThreadTypes, Lifecycle, InService, BeingCreated, ThreadAccounting,
        StartStopHandshake, PoolFloor, OwnerStates
<1>9. QED
  BY <1>2, <1>3, <1>4, <1>5, <1>6, <1>7, <1>8 DEF Owner

(* Steps of the timer daemon and of time.                                  *)
LEMMA ThreadInvTimer ==
  ASSUME ThreadInv, TimerDaemon \/ Tick
  PROVE  ThreadInv'
<1>1. CASE Tick
  BY <1>1, ThreadInvFrame
  DEF Tick, threadVars, ownerVars, signalVars, ThreadInv, Lifecycle, Idle
<1>2. CASE TimerFire
  <2>1. /\ ~BeingCreated /\ timerTask' = "fired"
        /\ UNCHANGED <<owner, threads, waited, maxThreads, activeThreads, startStopSignal, pc>>
    BY <1>2 DEF TimerFire, ownerVars, signalVars, ThreadInv, Lifecycle, Idle
  <2>2. QED
    BY <2>1
    DEF ThreadInv, ThreadTypes, Lifecycle, InService, BeingCreated, ThreadAccounting,
        StartStopHandshake, PoolFloor
<1>3. CASE TimerThread
  <2>1. /\ timerTask = "fired" /\ timerTask' \in {"idle", "locked"}
        /\ timerTask' = "locked" => owner # "gone" /\ ~_IsShutdownStarted /\ owner' = owner
        /\ owner' = owner \/ (owner = "returned" /\ owner' = "gone")
        /\ UNCHANGED <<threads, waited, maxThreads, activeThreads, startStopSignal, pc, timer>>
    BY <1>3 DEF TimerThread, timerVars, signalVars
  <2>2. QED
    BY <2>1
    DEF ThreadInv, ThreadTypes, Lifecycle, InService, BeingCreated, ThreadAccounting,
        StartStopHandshake, PoolFloor, OwnerStates, _IsShutdownStarted
<1>4. CASE TimerDispatch
  <2>1. owner = "open"
    BY <1>4 DEF TimerDispatch, ThreadInv, Lifecycle
  <2>2. QED
    BY <1>4, <2>1, ThreadInvSchedule DEF TimerDispatch, ownerVars
<1>5. CASE TimerDone
  <2>1. /\ owner = "open" /\ timerTask' = "idle"
        /\ UNCHANGED <<owner, threads, waited, maxThreads, activeThreads, startStopSignal, pc>>
    BY <1>5 DEF TimerDone, ownerVars, signalVars, ThreadInv, Lifecycle
  <2>2. QED
    BY <2>1
    DEF ThreadInv, ThreadTypes, Lifecycle, InService, BeingCreated, ThreadAccounting,
        StartStopHandshake, PoolFloor
<1>6. QED
  BY <1>1, <1>2, <1>3, <1>4, <1>5 DEF TimerDaemon

(* The API calls on jobs.                                                  *)
LEMMA ThreadInvJobs ==
  ASSUME ThreadInv, NEW j \in Jobs,
         \/ IotTaskPool_CreateJob(j)
         \/ IotTaskPool_CreateRecyclableJob(j)
         \/ IotTaskPool_RecycleJob(j)
         \/ IotTaskPool_DestroyRecyclableJob(j)
         \/ \E p \in Priorities : IotTaskPool_Schedule(j, p)
         \/ \E d \in DeferTimes : IotTaskPool_ScheduleDeferred(j, d)
         \/ ScheduleDeferredFails(j)
         \/ IotTaskPool_TryCancel(j)
         \/ CancelAssertFails(j)
  PROVE  ThreadInv'
<1>1. CASE \E p \in Priorities : IotTaskPool_Schedule(j, p)
  BY <1>1, ThreadInvSchedule DEF IotTaskPool_Schedule, ApiEnter, ownerVars
<1>2. CASE IotTaskPool_CreateJob(j) \/ CancelAssertFails(j) \/ IotTaskPool_CreateRecyclableJob(j)
  BY <1>2, ThreadInvFrame
  DEF IotTaskPool_CreateJob, CancelAssertFails, IotTaskPool_CreateRecyclableJob,
      threadVars, ownerVars, timerVars, signalVars
<1>3. CASE IotTaskPool_RecycleJob(j) \/ IotTaskPool_DestroyRecyclableJob(j)
  BY <1>3, ThreadInvFrame
  DEF IotTaskPool_RecycleJob, IotTaskPool_DestroyRecyclableJob, Extract, ApiEnter,
      BeingCreated, threadVars, ownerVars, signalVars
<1>4. CASE \E d \in DeferTimes : IotTaskPool_ScheduleDeferred(j, d)
  BY <1>4, ThreadInvFrame
  DEF IotTaskPool_ScheduleDeferred, ApiEnter, BeingCreated, threadVars, ownerVars, signalVars
<1>5. CASE ScheduleDeferredFails(j) \/ IotTaskPool_TryCancel(j)
  BY <1>5, ThreadInvFrame
  DEF ScheduleDeferredFails, IotTaskPool_TryCancel, ApiEnter, BeingCreated, threadVars,
      ownerVars, signalVars
<1>6. QED
  BY <1>1, <1>2, <1>3, <1>4, <1>5

LEMMA ThreadInvNext == ThreadInv /\ [Next]_vars => ThreadInv'
<1>1. SUFFICES ASSUME ThreadInv, [Next]_vars PROVE ThreadInv'
  OBVIOUS
<1>2. CASE Api
  BY <1>1, <1>2, ThreadInvJobs, ThreadInvOwner DEF Api
<1>3. CASE Owner
  BY <1>1, <1>3, ThreadInvOwner
<1>4. CASE \E t \in Threads : Worker(t)
  BY <1>1, <1>4, ThreadInvWorker
<1>5. CASE Tick \/ TimerDaemon
  BY <1>1, <1>5, ThreadInvTimer
<1>6. CASE UNCHANGED vars
  BY <1>1, <1>6, ThreadInvFrame DEF vars, threadVars, ownerVars, timerVars, signalVars
<1>7. QED
  BY <1>1, <1>2, <1>3, <1>4, <1>5, <1>6 DEF Next, Halted

(* For every number of threads, activeThreads is exact, the start/stop     *)
(* handshake balances and an open pool keeps its minimum of workers.       *)
THEOREM ThreadsCorrect == Spec => [](ThreadAccounting /\ StartStopHandshake /\ PoolFloor)
<1>1. Spec => []ThreadInv
  BY ThreadInvInit, ThreadInvNext, PTL DEF Spec
<1>2. ThreadInv => ThreadAccounting /\ StartStopHandshake /\ PoolFloor
  BY DEF ThreadInv
<1>3. QED
  BY <1>1, <1>2, PTL

-----------------------------------------------------------------------------
(* Layer 2: the lists and the status of the jobs *)

PlaceTypes ==
  /\ dispatchQueue \in Seq(Jobs)
  /\ timerEventsList \in Seq(Jobs)
  /\ expiration \in [Jobs -> Nat]
  /\ freeList \in Seq(RecyclableJobs)
  /\ status \in [Jobs -> Statuses]
  /\ live \subseteq Jobs
  /\ timer \in Nat \cup {Idle}

EmptyUnlessOpen ==
  owner # "open" => dispatchQueue = <<>> /\ timerEventsList = <<>> /\ freeList = <<>>

PlaceInv == PlaceTypes /\ JobPlacement /\ EmptyUnlessOpen

placeVars == <<owner, dispatchQueue, timerEventsList, expiration, freeList, status, live>>

LEMMA PlaceInvInit == Init => PlaceInv
<1>1. SUFFICES ASSUME Init PROVE PlaceInv
  OBVIOUS
<1>2. PlaceTypes
  BY <1>1 DEF Init, PlaceTypes, Statuses
<1>3. JobPlacement
  BY <1>1, EmptyList DEF Init, JobPlacement
<1>4. QED
  BY <1>1, <1>2, <1>3 DEF Init, PlaceInv, EmptyUnlessOpen

LEMMA PlaceInvFrame ==
  ASSUME PlaceInv, UNCHANGED placeVars, timer' \in Nat \cup {Idle}
  PROVE  PlaceInv'
BY DEF PlaceInv, placeVars, PlaceTypes, JobPlacement, EmptyUnlessOpen, Linked, IsInjective

(* What is left of the queue and of the timer list, and where the timer    *)
(* stands, when a job was cancelled.                                       *)
LEMMA Extracted ==
  ASSUME PlaceInv, NEW j \in Jobs, AssertsLinked(j)
  PROVE  /\ QueueWithout(j) \in Seq(Jobs) /\ IsInjective(QueueWithout(j))
         /\ Len(QueueWithout(j)) <= Len(dispatchQueue)
         /\ \A k : Linked(QueueWithout(j), k) <=> Linked(dispatchQueue, k) /\ k # j
         /\ TimersWithout(j) \in Seq(Jobs) /\ IsInjective(TimersWithout(j))
         /\ \A k : Linked(TimersWithout(j), k) <=> Linked(timerEventsList, k) /\ k # j
         /\ ExpirationWithout(j) \in [Jobs -> Nat]
         /\ TimerWithout(j) \in Nat \cup {Idle}
         /\ TimerWithout(j) = Idle => timer = Idle
<1>1. PlaceTypes /\ JobPlacement
  BY DEF PlaceInv
<1>2. /\ QueueWithout(j) \in Seq(Jobs) /\ IsInjective(QueueWithout(j))
      /\ Len(QueueWithout(j)) <= Len(dispatchQueue)
      /\ \A k : Linked(QueueWithout(j), k) <=> Linked(dispatchQueue, k) /\ k # j
  <2>1. CASE status[j] = "SCHEDULED"
    <3>1. Linked(dispatchQueue, j) /\ QueueWithout(j) = Unlink(dispatchQueue, j)
      BY <2>1 DEF AssertsLinked, QueueWithout
    <3>2. dispatchQueue \in Seq(Jobs) /\ IsInjective(dispatchQueue)
      BY <1>1 DEF PlaceTypes, JobPlacement
    <3>3. QED
      BY <3>1, <3>2, UnlinkList
  <2>2. CASE status[j] # "SCHEDULED"
    BY <1>1, <2>2 DEF QueueWithout, PlaceTypes, JobPlacement
  <2>3. QED
    BY <2>1, <2>2
<1>3. /\ TimersWithout(j) \in Seq(Jobs) /\ IsInjective(TimersWithout(j))
      /\ \A k : Linked(TimersWithout(j), k) <=> Linked(timerEventsList, k) /\ k # j
  <2>1. CASE status[j] = "DEFERRED"
    <3>1. Linked(timerEventsList, j) /\ TimersWithout(j) = Unlink(timerEventsList, j)
      BY <1>1, <2>1 DEF JobPlacement, TimersWithout
    <3>2. timerEventsList \in Seq(Jobs) /\ IsInjective(timerEventsList)
      BY <1>1 DEF PlaceTypes, JobPlacement
    <3>3. QED
      BY <3>1, <3>2, UnlinkList
  <2>2. CASE status[j] # "DEFERRED"
    BY <1>1, <2>2 DEF TimersWithout, PlaceTypes, JobPlacement
  <2>3. QED
    BY <2>1, <2>2
<1>4. ExpirationWithout(j) \in [Jobs -> Nat]
  BY <1>1 DEF ExpirationWithout, PlaceTypes
<1>5. TimerWithout(j) \in Nat \cup {Idle} /\ (TimerWithout(j) = Idle => timer = Idle)
  <2>1. CASE TimerWithout(j) = timer
    BY <1>1, <2>1 DEF PlaceTypes
  <2>2. CASE TimersWithout(j) # <<>>
             /\ TimerWithout(j) = _rescheduleDeferredJobsTimer(expiration[Head(TimersWithout(j))])
    <3>1. Head(TimersWithout(j)) \in Jobs
      BY <1>3, <2>2, TailList
    <3>2. expiration[Head(TimersWithout(j))] \in Nat
      BY <1>1, <3>1 DEF PlaceTypes
    <3>3. QED
      BY <2>2, <3>2, PoolAssumption DEF _rescheduleDeferredJobsTimer, Idle
  <2>3. QED
    BY <2>1, <2>2 DEF TimerWithout
<1>6. QED
  BY <1>2, <1>3, <1>4, <1>5

(* A step on an open pool that concerns one job.                           *)
LEMMA PlaceOne ==
  ASSUME PlaceInv, owner' = "open", NEW j \in Jobs, PlaceTypes',
         IsInjective(dispatchQueue'), IsInjective(timerEventsList'), IsInjective(freeList'),
         \A k \in Jobs : k # j =>
           /\ Linked(dispatchQueue', k) => Linked(dispatchQueue, k)
           /\ Linked(timerEventsList', k) <=> Linked(timerEventsList, k)
           /\ Linked(freeList', k) => Linked(freeList, k)
           /\ status'[k] = status[k]
           /\ k \in live' <=> k \in live,
         Linked(dispatchQueue', j) => status'[j] = "SCHEDULED" /\ j \in live',
         Linked(timerEventsList', j) <=> status'[j] = "DEFERRED",
         status'[j] = "DEFERRED" => j \in live',
         Linked(freeList', j) => j \notin live'
  PROVE  PlaceInv'
<1>1. SUFFICES ASSUME NEW k \in Jobs
               PROVE  /\ Linked(dispatchQueue', k) => status'[k] = "SCHEDULED" /\ k \in live'
                      /\ Linked(timerEventsList', k) <=> status'[k] = "DEFERRED"
                      /\ status'[k] = "DEFERRED" => k \in live'
                      /\ Linked(freeList', k) => k \notin live'
  BY DEF PlaceInv, JobPlacement, EmptyUnlessOpen, Linked, IsInjective
<1>2. CASE k = j
  BY <1>2
<1>3. CASE k # j
  BY <1>3 DEF PlaceInv, JobPlacement
<1>4. QED
  BY <1>2, <1>3

(* Scheduling a job that is in none of the lists q and timerEventsList'.   *)
LEMMA PlaceSchedule ==
  ASSUME PlaceInv, owner = "open", owner' = owner, NEW j \in Jobs, NEW p, NEW q \in Seq(Jobs),
         IsInjective(q), j \in live, _scheduleInternal(j, p, q),
         \A k : Linked(q, k) => Linked(dispatchQueue, k) /\ k # j,
         timerEventsList' \in Seq(Jobs), IsInjective(timerEventsList'),
         \A k : Linked(timerEventsList', k) <=> Linked(timerEventsList, k) /\ k # j,
         expiration' \in [Jobs -> Nat], timer' \in Nat \cup {Idle},
         UNCHANGED <<freeList, live>>
  PROVE  PlaceInv'
<1>1. /\ dispatchQueue' \in Seq(Jobs) /\ IsInjective(dispatchQueue')
      /\ \A k : Linked(dispatchQueue', k) => Linked(q, k) \/ k = j
  <2>1. dispatchQueue' \in {q, Append(q, j), Cons(j, q)}
    BY DEF _scheduleInternal
  <2>2. CASE dispatchQueue' = q
    BY <2>2
  <2>3. CASE dispatchQueue' = Append(q, j)
    BY <2>3, AppendList
  <2>4. CASE dispatchQueue' = Cons(j, q)
    BY <2>4, ConsList
  <2>5. QED
    BY <2>1, <2>2, <2>3, <2>4
<1>2. /\ status' \in [Jobs -> Statuses] /\ status'[j] = "SCHEDULED"
      /\ \A k \in Jobs : k # j => status'[k] = status[k]
  BY DEF _scheduleInternal, PlaceInv, PlaceTypes, Statuses
<1>3. PlaceTypes'
  BY <1>1, <1>2 DEF PlaceInv, PlaceTypes
<1>4. IsInjective(freeList') /\ (Linked(freeList', j) => j \notin live')
  BY DEF PlaceInv, JobPlacement
<1>5. QED
  BY <1>1, <1>2, <1>3, <1>4, PlaceOne

(* The API calls on jobs.                                                  *)
LEMMA PlaceInvJobs ==
  ASSUME PlaceInv, NEW j \in Jobs,
         \/ IotTaskPool_CreateJob(j)
         \/ IotTaskPool_CreateRecyclableJob(j)
         \/ IotTaskPool_RecycleJob(j)
         \/ IotTaskPool_DestroyRecyclableJob(j)
         \/ \E p \in Priorities : IotTaskPool_Schedule(j, p)
         \/ \E d \in DeferTimes : IotTaskPool_ScheduleDeferred(j, d)
         \/ ScheduleDeferredFails(j)
         \/ IotTaskPool_TryCancel(j)
         \/ CancelAssertFails(j)
  PROVE  PlaceInv'
<1>1. PlaceTypes /\ JobPlacement
  BY DEF PlaceInv
<1>2. CASE CancelAssertFails(j)
  BY <1>1, <1>2, PlaceInvFrame
  DEF CancelAssertFails, placeVars, ownerVars, cacheVars, timerVars, PlaceTypes
<1>3. CASE \E p \in Priorities : IotTaskPool_Schedule(j, p)
  <2>1. PICK p \in Priorities : IotTaskPool_Schedule(j, p)
    BY <1>3
  <2>2. /\ owner = "open" /\ owner' = owner /\ j \in live
        /\ AssertsLinked(j) /\ _scheduleInternal(j, p, QueueWithout(j))
        /\ timerEventsList' = TimersWithout(j)
        /\ expiration' = ExpirationWithout(j)
        /\ timer' = TimerWithout(j)
        /\ UNCHANGED <<freeList, live>>
    BY <2>1 DEF IotTaskPool_Schedule, _trySafeExtraction, ApiEnter, ownerVars, cacheVars
  <2>3. QED
    BY <2>2, Extracted, PlaceSchedule
<1>4. CASE IotTaskPool_TryCancel(j) \/ ScheduleDeferredFails(j)
  <2>1. /\ owner' = "open" /\ AssertsLinked(j)
        /\ dispatchQueue' = QueueWithout(j)
        /\ timerEventsList' = TimersWithout(j)
        /\ expiration' = ExpirationWithout(j)
        /\ timer' = TimerWithout(j)
        /\ UNCHANGED <<freeList, live>>
    BY <1>4 DEF IotTaskPool_TryCancel, ScheduleDeferredFails, _trySafeExtraction,
                ApiEnter, ownerVars, cacheVars
  <2>2. /\ status' \in [Jobs -> Statuses] /\ status'[j] # "DEFERRED"
        /\ \A k \in Jobs : k # j => status'[k] = status[k]
    BY <1>1, <1>4 DEF IotTaskPool_TryCancel, ScheduleDeferredFails, PlaceTypes, Statuses
  <2>3. PlaceTypes'
    BY <1>1, <2>1, <2>2, Extracted DEF PlaceTypes
  <2>4. QED
    BY <1>1, <2>1, <2>2, <2>3, Extracted, PlaceOne DEF JobPlacement
<1>5. CASE IotTaskPool_CreateJob(j)
  <2>1. /\ ~Linked(dispatchQueue, j) /\ ~Linked(timerEventsList, j) /\ j \in StaticJobs
        /\ status' = [status EXCEPT ![j] = "READY"] /\ live' = live \cup {j}
        /\ UNCHANGED <<owner, dispatchQueue, timerEventsList, expiration, timer, freeList>>
    BY <1>5 DEF IotTaskPool_CreateJob, ownerVars, cacheVars, timerVars
  <2>2. /\ status' \in [Jobs -> Statuses] /\ status'[j] = "READY"
        /\ \A k \in Jobs : k # j => status'[k] = status[k]
    BY <1>1, <2>1 DEF PlaceTypes, Statuses
  <2>3. ~Linked(freeList, j)
    BY <1>1, <2>1, PoolAssumption DEF PlaceTypes, Linked
  <2>4. PlaceTypes'
    BY <1>1, <2>1, <2>2 DEF PlaceTypes
  <2>5. JobPlacement'
    BY <1>1, <2>1, <2>2, <2>3 DEF JobPlacement, Linked, IsInjective
  <2>6. QED
    BY <2>1, <2>4, <2>5 DEF PlaceInv, EmptyUnlessOpen
<1>6. CASE IotTaskPool_CreateRecyclableJob(j)
  <2>1. /\ owner' = "open"
        /\ \/ freeList # <<>> /\ j = Head(freeList) /\ freeList' = Tail(freeList)
           \/ freeList = <<>> /\ j \notin live /\ freeList' = freeList
        /\ status' = [status EXCEPT ![j] = "READY"] /\ live' = live \cup {j}
        /\ UNCHANGED <<dispatchQueue, timerEventsList, expiration, timer>>
    BY <1>6 DEF IotTaskPool_CreateRecyclableJob, ApiEnter, ownerVars, cacheVars, timerVars
  <2>2. /\ status' \in [Jobs -> Statuses] /\ status'[j] = "READY"
        /\ \A k \in Jobs : k # j => status'[k] = status[k]
    BY <1>1, <2>1 DEF PlaceTypes, Statuses
  <2>3. freeList \in Seq(RecyclableJobs) /\ IsInjective(freeList)
    BY <1>1 DEF PlaceTypes, JobPlacement
  <2>4. /\ freeList' \in Seq(RecyclableJobs) /\ IsInjective(freeList') /\ ~Linked(freeList', j)
        /\ \A k : Linked(freeList', k) => Linked(freeList, k)
        /\ j \notin live
    <3>1. CASE freeList # <<>> /\ j = Head(freeList) /\ freeList' = Tail(freeList)
      BY <1>1, <2>3, <3>1, TailList DEF JobPlacement
    <3>2. CASE freeList = <<>> /\ j \notin live /\ freeList' = freeList
      BY <2>3, <3>2, EmptyList
    <3>3. QED
      BY <2>1, <3>1, <3>2
  <2>5. PlaceTypes'
    BY <1>1, <2>1, <2>2, <2>4 DEF PlaceTypes
  <2>6. ~Linked(dispatchQueue, j) /\ ~Linked(timerEventsList, j)
    BY <1>1, <2>4 DEF JobPlacement
  <2>7. IsInjective(dispatchQueue') /\ IsInjective(timerEventsList')
    BY <1>1, <2>1 DEF JobPlacement
  <2>8. QED
    BY <2>1, <2>2, <2>4, <2>5, <2>6, <2>7, PlaceOne
<1>7. CASE IotTaskPool_RecycleJob(j) \/ IotTaskPool_DestroyRecyclableJob(j)
  <2>1. /\ owner' = "open" /\ AssertsLinked(j) /\ j \in live /\ j \in RecyclableJobs
        /\ dispatchQueue' = QueueWithout(j)
        /\ timerEventsList' = TimersWithout(j)
        /\ expiration' = ExpirationWithout(j)
        /\ timer' = TimerWithout(j)
        /\ status' = [status EXCEPT ![j] = "UNDEFINED"] /\ live' = live \ {j}
        /\ freeList' \in {freeList, Append(freeList, j)}
    BY <1>7 DEF IotTaskPool_RecycleJob, IotTaskPool_DestroyRecyclableJob, Extract,
                ApiEnter, ownerVars, cacheVars
  <2>2. /\ status' \in [Jobs -> Statuses] /\ status'[j] = "UNDEFINED"
        /\ \A k \in Jobs : k # j => status'[k] = status[k]
    BY <1>1, <2>1 DEF PlaceTypes, Statuses
  <2>3. freeList \in Seq(RecyclableJobs) /\ IsInjective(freeList) /\ ~Linked(freeList, j)
    BY <1>1, <2>1 DEF PlaceTypes, JobPlacement
  <2>4. /\ freeList' \in Seq(RecyclableJobs) /\ IsInjective(freeList')
        /\ \A k : k # j => (Linked(freeList', k) => Linked(freeList, k))
    <3>1. CASE freeList' = freeList
      BY <2>3, <3>1
    <3>2. CASE freeList' = Append(freeList, j)
      BY <2>1, <2>3, <3>2, AppendList
    <3>3. QED
      BY <2>1, <3>1, <3>2
  <2>5. PlaceTypes'
    BY <1>1, <2>1, <2>2, <2>4, Extracted DEF PlaceTypes
  <2>6. QED
    BY <2>1, <2>2, <2>4, <2>5, Extracted, PlaceOne
<1>8. CASE \E d \in DeferTimes : IotTaskPool_ScheduleDeferred(j, d)
  <2>1. PICK d \in DeferTimes : IotTaskPool_ScheduleDeferred(j, d)
    BY <1>8
  <2> DEFINE exp == [expiration EXCEPT ![j] = d]
             lst == InsertSorted(TimersWithout(j), j, exp)
  <2>2. /\ owner' = "open" /\ AssertsLinked(j) /\ j \in live
        /\ dispatchQueue' = QueueWithout(j)
        /\ timerEventsList' = lst
        /\ expiration' = exp
        /\ status' = [status EXCEPT ![j] = "DEFERRED"]
        /\ timer' \in {_rescheduleDeferredJobsTimer(d), TimerWithout(j)}
        /\ UNCHANGED <<freeList, live>>
    BY <2>1 DEF IotTaskPool_ScheduleDeferred, ApiEnter, ownerVars, cacheVars
  <2>3. d \in Nat /\ exp \in [Jobs -> Nat]
    BY <1>1, PoolAssumption DEF PlaceTypes
  <2>4. /\ lst \in Seq(Jobs) /\ IsInjective(lst)
        /\ \A k : Linked(lst, k) <=> Linked(TimersWithout(j), k) \/ k = j
    <3> HIDE DEF exp
    <3>1. TimersWithout(j) \in Seq(Jobs) /\ IsInjective(TimersWithout(j))
          /\ ~Linked(TimersWithout(j), j)
      BY <2>2, Extracted
    <3>2. QED
      BY <2>3, <3>1, InsertSortedList
  <2> HIDE DEF lst, exp
  <2>5. timer' \in Nat \cup {Idle}
    BY <2>2, <2>3, Extracted, PoolAssumption DEF _rescheduleDeferredJobsTimer
  <2>6. /\ status' \in [Jobs -> Statuses] /\ status'[j] = "DEFERRED"
        /\ \A k \in Jobs : k # j => status'[k] = status[k]
    BY <1>1, <2>2 DEF PlaceTypes, Statuses
  <2>7. PlaceTypes'
    BY <1>1, <2>2, <2>3, <2>4, <2>5, <2>6, Extracted DEF PlaceTypes
  <2>8. IsInjective(freeList') /\ ~Linked(freeList', j)
    BY <1>1, <2>2 DEF JobPlacement
  <2>9. QED
    BY <2>2, <2>4, <2>6, <2>7, <2>8, Extracted, PlaceOne
<1>9. QED
  BY <1>2, <1>3, <1>4, <1>5, <1>6, <1>7, <1>8

(* A worker takes the job at the head of the queue.                        *)
LEMMA PlaceTake ==
  ASSUME PlaceInv, owner = "open", owner' = owner, dispatchQueue # <<>>,
         dispatchQueue' = Tail(dispatchQueue),
         status' = [status EXCEPT ![Head(dispatchQueue)] = "COMPLETED"],
         UNCHANGED <<timerEventsList, expiration, freeList, live, timer>>
  PROVE  PlaceInv'
<1> DEFINE j == Head(dispatchQueue)
<1>1. PlaceTypes /\ JobPlacement
  BY DEF PlaceInv
<1>2. dispatchQueue \in Seq(Jobs) /\ IsInjective(dispatchQueue)
  BY <1>1 DEF PlaceTypes, JobPlacement
<1>3. /\ j \in Jobs /\ Linked(dispatchQueue, j)
      /\ dispatchQueue' \in Seq(Jobs) /\ IsInjective(dispatchQueue') /\ ~Linked(dispatchQueue', j)
      /\ \A k : Linked(dispatchQueue', k) => Linked(dispatchQueue, k)
  BY <1>2, TailList
<1>4. /\ status' \in [Jobs -> Statuses] /\ status'[j] = "COMPLETED"
      /\ \A k \in Jobs : k # j => status'[k] = status[k]
  BY <1>1, <1>3 DEF PlaceTypes, Statuses
<1>5. ~Linked(timerEventsList, j) /\ ~Linked(freeList, j)
  BY <1>1, <1>3 DEF JobPlacement
<1>6. PlaceTypes'
  BY <1>1, <1>3, <1>4 DEF PlaceTypes
<1>7. IsInjective(timerEventsList') /\ IsInjective(freeList')
  BY <1>1 DEF JobPlacement
<1> HIDE DEF j
<1>8. QED
  BY <1>3, <1>4, <1>5, <1>6, <1>7, PlaceOne

(* The workers.                                                            *)
LEMMA PlaceInvWorker ==
  ASSUME PlaceInv, NEW t \in Threads, Worker(t)
  PROVE  PlaceInv'
<1>1. timer \in Nat \cup {Idle}
  BY DEF PlaceInv, PlaceTypes
<1>2. CASE WorkerStart(t) \/ WorkerWake(t) \/ WorkerLast(t) \/ WorkerExit(t)
  BY <1>1, <1>2, PlaceInvFrame
  DEF WorkerStart, WorkerWake, WorkerLast, WorkerExit, placeVars, ownerVars, cacheVars,
      timerVars
<1>3. CASE WorkerCheck(t) \/ WorkerNext(t)
  <2>1. UNCHANGED <<owner, timerEventsList, expiration, freeList, live, timer>>
    BY <1>3 DEF WorkerCheck, WorkerNext, ownerVars, cacheVars, timerVars
  <2>2. CASE UNCHANGED <<dispatchQueue, status>>
    BY <1>1, <2>1, <2>2, PlaceInvFrame DEF placeVars
  <2>3. CASE /\ dispatchQueue # <<>> /\ dispatchQueue' = Tail(dispatchQueue)
             /\ status' = [status EXCEPT ![Head(dispatchQueue)] = "COMPLETED"]
    <3>1. owner = "open"
      BY <2>3 DEF PlaceInv, EmptyUnlessOpen
    <3>2. QED
      BY <2>1, <2>3, <3>1, PlaceTake
  <2>4. QED
    BY <1>3, <2>2, <2>3 DEF WorkerCheck, WorkerNext, TakesJob
<1>4. QED
  BY <1>2, <1>3 DEF Worker

(* The owner.                                                              *)
LEMMA PlaceInvOwner ==
  ASSUME PlaceInv,
         \/ \E n \in MaxThreads : IotTaskPool_SetMaxThreads(n) \/ IotTaskPool_Create(n)
         \/ IotTaskPool_Destroy \/ Owner
  PROVE  PlaceInv'
<1>1. PlaceTypes /\ JobPlacement /\ EmptyUnlessOpen
  BY DEF PlaceInv
<1>2. CASE \E n \in MaxThreads : IotTaskPool_SetMaxThreads(n)
  BY <1>1, <1>2, PlaceInvFrame
  DEF IotTaskPool_SetMaxThreads, placeVars, ownerVars, cacheVars, timerVars, PlaceTypes
<1>3. CASE \/ \E n \in MaxThreads : IotTaskPool_Create(n)
           \/ CreateThread \/ OwnerWait \/ CreateDone \/ DestroyDone
  <2>1. owner # "open"
    BY <1>3 DEF IotTaskPool_Create, CreateThread, OwnerWait, CreateDone, DestroyDone
  <2>2. /\ UNCHANGED <<expiration, status, live>>
        /\ dispatchQueue' = <<>> /\ timerEventsList' = <<>> /\ freeList' = <<>>
        /\ timer' \in {timer, Idle}
    BY <1>1, <1>3, <2>1
    DEF EmptyUnlessOpen, IotTaskPool_Create, CreateThread, OwnerWait, CreateDone,
        DestroyDone, cacheVars, timerVars
  <2>3. dispatchQueue = <<>> /\ timerEventsList = <<>> /\ freeList = <<>>
    BY <1>1, <2>1 DEF EmptyUnlessOpen
  <2>4. PlaceTypes' /\ JobPlacement' /\ EmptyUnlessOpen'
    BY <1>1, <2>2, <2>3 DEF PlaceTypes, JobPlacement, EmptyUnlessOpen, Linked, IsInjective
  <2>5. QED
    BY <2>4 DEF PlaceInv
<1>4. CASE IotTaskPool_Destroy
  <2> DEFINE cleared == ToSet(dispatchQueue) \cup ToSet(timerEventsList) \cup ToSet(freeList)
  <2>1. /\ dispatchQueue' = <<>> /\ timerEventsList' = <<>> /\ freeList' = <<>>
        /\ expiration' = [j \in Jobs |-> 0]
        /\ status' = [j \in Jobs |-> IF j \in cleared THEN "UNDEFINED" ELSE status[j]]
        /\ live' = live \ cleared
        /\ timer' = timer
    BY <1>4 DEF IotTaskPool_Destroy
  <2>2. \A j \in Jobs : Linked(timerEventsList, j) => j \in cleared
    BY DEF Linked, ToSet
  <2> HIDE DEF cleared
  <2>3. \A j \in Jobs : status'[j] # "DEFERRED"
    BY <1>1, <2>1, <2>2 DEF JobPlacement
  <2>4. PlaceTypes'
    BY <1>1, <2>1 DEF PlaceTypes, Statuses
  <2>5. JobPlacement'
    BY <2>1, <2>3, EmptyList DEF JobPlacement
  <2>6. QED
    BY <2>1, <2>4, <2>5 DEF PlaceInv, EmptyUnlessOpen
<1>5. QED
  BY <1>2, <1>3, <1>4 DEF Owner

(* The timer.                                                              *)
LEMMA PlaceInvTimer ==
  ASSUME PlaceInv, TimerDaemon \/ Tick
  PROVE  PlaceInv'
<1>1. PlaceTypes /\ JobPlacement /\ EmptyUnlessOpen
  BY DEF PlaceInv
<1>2. CASE Tick
  <2>1. /\ UNCHANGED <<owner, dispatchQueue, timerEventsList, freeList, status, live>>
        /\ timer' \in Nat \cup {Idle} /\ expiration' \in [Jobs -> Nat]
    BY <1>1, <1>2 DEF Tick, ownerVars, cacheVars, PlaceTypes, Idle
  <2>2. QED
    BY <1>1, <2>1
    DEF PlaceInv, PlaceTypes, JobPlacement, EmptyUnlessOpen, Linked, IsInjective
<1>3. CASE TimerFire
  BY <1>3, PlaceInvFrame DEF TimerFire, placeVars, ownerVars, cacheVars
<1>4. CASE TimerThread
  <2>1. /\ owner' = owner \/ (owner # "open" /\ owner' # "open")
        /\ UNCHANGED <<dispatchQueue, timerEventsList, expiration, freeList, status, live, timer>>
    BY <1>4 DEF TimerThread, cacheVars, timerVars
  <2>2. QED
    BY <1>1, <2>1
    DEF PlaceInv, PlaceTypes, JobPlacement, EmptyUnlessOpen, Linked, IsInjective
<1>5. CASE TimerDispatch
  <2> DEFINE j == Head(timerEventsList)
  <2>1. /\ timerEventsList # <<>> /\ timerEventsList' = Tail(timerEventsList)
        /\ _scheduleInternal(j, "normal", dispatchQueue)
        /\ UNCHANGED <<owner, expiration, timer, freeList, live>>
    BY <1>5 DEF TimerDispatch, ownerVars, cacheVars
  <2>2. /\ timerEventsList \in Seq(Jobs) /\ IsInjective(timerEventsList)
        /\ dispatchQueue \in Seq(Jobs) /\ IsInjective(dispatchQueue)
        /\ expiration \in [Jobs -> Nat] /\ timer \in Nat \cup {Idle}
    BY <1>1 DEF PlaceTypes, JobPlacement
  <2>3. /\ j \in Jobs /\ Linked(timerEventsList, j)
        /\ timerEventsList' \in Seq(Jobs) /\ IsInjective(timerEventsList')
        /\ \A k : Linked(timerEventsList', k) <=> Linked(timerEventsList, k) /\ k # j
    BY <2>1, <2>2, TailList
  <2>4. j \in live /\ ~Linked(dispatchQueue, j)
    BY <1>1, <2>3 DEF JobPlacement
  <2>5. owner = "open"
    BY <1>1, <2>1 DEF EmptyUnlessOpen
  <2> HIDE DEF j
  <2>6. QED
    BY <2>1, <2>2, <2>3, <2>4, <2>5, PlaceSchedule
<1>6. CASE TimerDone
  <2>1. timer' \in Nat \cup {Idle}
    <3>1. CASE timerEventsList = <<>>
      BY <1>1, <1>6, <3>1 DEF TimerDone, PlaceTypes
    <3>2. CASE timerEventsList # <<>>
      <4>1. expiration[Head(timerEventsList)] \in Nat
        BY <1>1, <3>2, TailList DEF PlaceTypes
      <4>2. QED
        BY <1>6, <3>2, <4>1, PoolAssumption DEF TimerDone, _rescheduleDeferredJobsTimer
    <3>3. QED
      BY <3>1, <3>2
  <2>2. QED
    BY <1>6, <2>1, PlaceInvFrame DEF TimerDone, placeVars, ownerVars, cacheVars
<1>7. QED
  BY <1>2, <1>3, <1>4, <1>5, <1>6 DEF TimerDaemon

LEMMA PlaceInvNext == PlaceInv /\ [Next]_vars => PlaceInv'
<1>1. SUFFICES ASSUME PlaceInv, [Next]_vars PROVE PlaceInv'
  OBVIOUS
<1>2. CASE Api
  BY <1>1, <1>2, PlaceInvJobs, PlaceInvOwner DEF Api
<1>3. CASE Owner
  BY <1>1, <1>3, PlaceInvOwner
<1>4. CASE \E t \in Threads : Worker(t)
  BY <1>1, <1>4, PlaceInvWorker
<1>5. CASE Tick \/ TimerDaemon
  BY <1>1, <1>5, PlaceInvTimer
<1>6. CASE UNCHANGED vars
  <2>1. UNCHANGED placeVars /\ timer' = timer /\ timer \in Nat \cup {Idle}
    BY <1>1, <1>6 DEF vars, placeVars, ownerVars, cacheVars, timerVars, PlaceInv, PlaceTypes
  <2>2. QED
    BY <1>1, <2>1, PlaceInvFrame
<1>7. QED
  BY <1>1, <1>2, <1>3, <1>4, <1>5, <1>6 DEF Next, Halted

(* For any set of jobs, lists and status fields agree in every reachable   *)
(* state.                                                                  *)
THEOREM PlacementCorrect == Spec => []JobPlacement
<1>1. Spec => []PlaceInv
  BY PlaceInvInit, PlaceInvNext, PTL DEF Spec
<1>2. PlaceInv => JobPlacement
  BY DEF PlaceInv
<1>3. QED
  BY <1>1, <1>2, PTL

-----------------------------------------------------------------------------
(* Layer 3: the queue, its semaphore and the number of active jobs *)

QueueInv ==
  /\ activeJobs \in Nat
  /\ dispatchSignal \in 0..MaxSem
  /\ NoLostWakeup
  /\ ActiveJobsCover

(* A list without repetitions has at most as many elements as there are    *)
(* jobs.                                                                   *)
LEMMA ListBound ==
  ASSUME NEW s \in Seq(Jobs), IsInjective(s)
  PROVE  Len(s) <= Cardinality(Jobs) /\ Cardinality(Jobs) \in Nat /\ Len(s) \in Nat
<1>1. Len(s) \in Nat /\ DOMAIN s = 1..Len(s) /\ s \in [1..Len(s) -> Jobs]
  OBVIOUS
<1>2. s \in Injection(1..Len(s), Jobs)
  BY <1>1 DEF Injection
<1>3. IsFiniteSet(Jobs) /\ Cardinality(1..Len(s)) = Len(s)
  <2>1. Cardinality(1..Len(s)) = IF 1 > Len(s) THEN 0 ELSE Len(s) - 1 + 1
    BY <1>1, FS_Interval
  <2>2. QED
    BY <1>1, <2>1, PoolAssumption
<1>4. QED
  BY <1>1, <1>2, <1>3, FS_Injection, FS_CardinalityType

LEMMA QueueInvInit == Init => QueueInv
<1>1. SUFFICES ASSUME Init PROVE QueueInv
  OBVIOUS
<1>2. {t \in Threads : pc[t] \in {"run"}} = {}
  BY <1>1 DEF Init
<1>3. Count(pc, {"run"}) = 0
  BY <1>2, FS_EmptySet DEF Count
<1>4. Len(dispatchQueue) = 0 /\ owner # "open" /\ activeJobs = 0 /\ dispatchSignal = 0
  BY <1>1 DEF Init
<1>5. QED
  BY <1>3, <1>4, PoolAssumption DEF QueueInv, NoLostWakeup, ActiveJobsCover

(* Steps that take no job and add none.                                    *)
LEMMA QueueInvFrame ==
  ASSUME QueueInv, UNCHANGED <<owner, activeJobs, pc>>,
         dispatchSignal' \in 0..MaxSem, dispatchSignal' >= dispatchSignal,
         Len(dispatchQueue) \in Nat, Len(dispatchQueue') \in Nat,
         Len(dispatchQueue') <= Len(dispatchQueue)
  PROVE  QueueInv'
<1>1. Count(pc, {"token"}) \in Nat /\ Count(pc, {"run"}) \in Nat
  BY CountBounds
<1>2. QED
  BY <1>1 DEF QueueInv, NoLostWakeup, ActiveJobsCover

(* A job is put into the queue q, which may have been shortened before.    *)
LEMMA QueueInvSchedule ==
  ASSUME QueueInv, PlaceInv, PlaceInv', ThreadInv, UNCHANGED owner,
         NEW j \in Jobs, NEW p, NEW q \in Seq(Jobs), Len(q) <= Len(dispatchQueue),
         _scheduleInternal(j, p, q)
  PROVE  QueueInv'
<1> USE PoolAssumption
<1>1. /\ Len(dispatchQueue) \in Nat /\ Len(q) \in Nat
      /\ Len(dispatchQueue') \in Nat /\ Len(dispatchQueue') <= Cardinality(Jobs)
      /\ Cardinality(Jobs) \in Nat
  BY ListBound DEF PlaceInv, PlaceTypes, JobPlacement
<1>2. /\ Count(pc', {"token"}) = Count(pc, {"token"})
      /\ Count(pc', {"run"}) = Count(pc, {"run"})
      /\ Count(pc, {"token"}) \in Nat /\ Count(pc, {"run"}) \in Nat
  <2>1. CASE pc' = pc
    BY <2>1, CountBounds
  <2>2. CASE \E t \in Threads : pc[t] = "off" /\ pc' = [pc EXCEPT ![t] = "wait"]
    BY <2>2, Moved, StateNames, CountBounds DEF ThreadInv, ThreadTypes
  <2>3. QED
    BY <2>1, <2>2 DEF _scheduleInternal
<1>3. CASE dispatchQueue' = q /\ UNCHANGED <<dispatchSignal, activeJobs>>
  BY <1>1, <1>2, <1>3 DEF QueueInv, NoLostWakeup, ActiveJobsCover
<1>4. CASE /\ dispatchQueue' \in {Append(q, j), Cons(j, q)}
           /\ dispatchSignal' = Post(dispatchSignal, 1)
           /\ activeJobs' = activeJobs + 1
  <2>1. Len(dispatchQueue') = Len(q) + 1
    <3>1. CASE dispatchQueue' = Append(q, j)
      BY <3>1, AppendList
    <3>2. CASE dispatchQueue' = Cons(j, q)
      BY <3>2, ConsList
    <3>3. QED
      BY <1>4, <3>1, <3>2
  <2>2. /\ dispatchSignal' \in 0..MaxSem
        /\ dispatchSignal' = dispatchSignal + 1 \/ dispatchSignal' = MaxSem
    BY <1>4 DEF Post, QueueInv
  <2>3. QED
    BY <1>1, <1>2, <1>4, <2>1, <2>2 DEF QueueInv, NoLostWakeup, ActiveJobsCover
<1>5. QED
  BY <1>3, <1>4 DEF _scheduleInternal

(* The workers.                                                            *)
LEMMA QueueInvWorker ==
  ASSUME QueueInv, PlaceInv, PlaceInv', ThreadInv, NEW t \in Threads, Worker(t)
  PROVE  QueueInv'
<1>1. pc \in [Threads -> WorkerStates]
  BY DEF ThreadInv, ThreadTypes
<1>2. /\ Count(pc, {"token"}) \in Nat /\ Count(pc, {"run"}) \in Nat
      /\ Count(pc', {"token"}) \in Nat /\ Count(pc', {"run"}) \in Nat
      /\ Len(dispatchQueue) \in Nat /\ Len(dispatchQueue') \in Nat
  BY CountBounds DEF PlaceInv, PlaceTypes
<1>3. dispatchQueue # <<>> => Len(Tail(dispatchQueue)) = Len(dispatchQueue) - 1
  BY TailList DEF PlaceInv, PlaceTypes
<1>4. dispatchQueue = <<>> => Len(dispatchQueue) = 0
  OBVIOUS
<1>5. CASE WorkerStart(t) \/ WorkerLast(t) \/ WorkerExit(t)
  <2>1. UNCHANGED <<owner, activeJobs, dispatchSignal, dispatchQueue>>
    BY <1>5 DEF WorkerStart, WorkerLast, WorkerExit, ownerVars, signalVars
  <2>2. /\ Count(pc', {"token"}) = Count(pc, {"token"})
        /\ Count(pc', {"run"}) = Count(pc, {"run"})
    BY <1>1, <1>5, Moved, StateNames DEF WorkerStart, WorkerLast, WorkerExit
  <2>3. QED
    BY <2>1, <2>2 DEF QueueInv, NoLostWakeup, ActiveJobsCover
<1>6. CASE WorkerWake(t)
  <2>1. UNCHANGED <<owner, activeJobs, dispatchQueue>>
    BY <1>6 DEF WorkerWake, ownerVars
  <2>2. CASE dispatchSignal > 0 /\ dispatchSignal' = dispatchSignal - 1
             /\ pc' = [pc EXCEPT ![t] = "token"]
    <3>1. /\ Count(pc', {"token"}) = Count(pc, {"token"}) + 1
          /\ Count(pc', {"run"}) = Count(pc, {"run"})
      BY <1>1, <1>6, <2>2, Moved, StateNames DEF WorkerWake
    <3>2. QED
      BY <1>2, <2>1, <2>2, <3>1, PoolAssumption DEF QueueInv, NoLostWakeup, ActiveJobsCover
  <2>3. CASE pc' = [pc EXCEPT ![t] = "timeout"] /\ UNCHANGED dispatchSignal
    <3>1. /\ Count(pc', {"token"}) = Count(pc, {"token"})
          /\ Count(pc', {"run"}) = Count(pc, {"run"})
      BY <1>1, <1>6, <2>3, Moved, StateNames DEF WorkerWake
    <3>2. QED
      BY <2>1, <2>3, <3>1 DEF QueueInv, NoLostWakeup, ActiveJobsCover
  <2>4. QED
    BY <1>6, <2>2, <2>3 DEF WorkerWake
<1>7. CASE WorkerCheck(t)
  <2>1. UNCHANGED <<owner, activeJobs, dispatchSignal>> /\ pc[t] \in {"token", "timeout"}
    BY <1>7 DEF WorkerCheck, ownerVars, signalVars
  <2>2. CASE _IsShutdownStarted
    <3>1. pc' = [pc EXCEPT ![t] = "exit"] /\ UNCHANGED dispatchQueue
      BY <1>7, <2>2 DEF WorkerCheck
    <3>2. Count(pc', {"run"}) = Count(pc, {"run"})
      BY <1>1, <2>1, <3>1, Moved, StateNames
    <3>3. owner # "open"
      BY <2>2, PoolAssumption
      DEF ThreadInv, ThreadTypes, Lifecycle, InService, _IsShutdownStarted
    <3>4. QED
      BY <2>1, <3>1, <3>2, <3>3 DEF QueueInv, NoLostWakeup, ActiveJobsCover
  <2>3. CASE ~_IsShutdownStarted /\ TakesJob(t)
    <3>1. /\ \E b \in {"last", "run"} : pc' = [pc EXCEPT ![t] = b]
          /\ dispatchQueue # <<>> /\ dispatchQueue' = Tail(dispatchQueue) /\ pc[t] = "token"
      BY <1>7, <2>3 DEF WorkerCheck, TakesJob
    <3>2. /\ Count(pc', {"token"}) = Count(pc, {"token"}) - 1
          /\ Count(pc', {"run"}) <= Count(pc, {"run"}) + 1
      <4>1. PICK b \in {"last", "run"} : pc' = [pc EXCEPT ![t] = b]
        BY <3>1
      <4>2. b \in WorkerStates /\ b # "token" /\ pc[t] = "token"
        BY <3>1, <4>1, StateNames
      <4>3. Count(pc', {"token"}) = Count(pc, {"token"}) - 1
        BY <1>1, <4>1, <4>2, Moved
      <4>4. Count(pc', {"run"}) <= Count(pc, {"run"}) + 1
        <5>1. /\ b = "run" => Count(pc', {"run"}) = Count(pc, {"run"}) + 1
              /\ b # "run" => Count(pc', {"run"}) = Count(pc, {"run"})
          BY <1>1, <4>1, <4>2, Moved
        <5>2. QED
          BY <1>2, <5>1
      <4>5. QED
        BY <4>3, <4>4
    <3>3. QED
      BY <1>2, <1>3, <2>1, <3>1, <3>2, PoolAssumption DEF QueueInv, NoLostWakeup, ActiveJobsCover
  <2>4. CASE ~_IsShutdownStarted /\ ~TakesJob(t)
    <3>1. /\ \E b \in {"off", "wait"} : pc' = [pc EXCEPT ![t] = b]
          /\ UNCHANGED dispatchQueue
          /\ pc[t] = "timeout" \/ dispatchQueue = <<>>
      BY <1>7, <2>1, <2>4 DEF WorkerCheck, TakesJob
    <3>2. /\ pc[t] = "timeout" => Count(pc', {"token"}) = Count(pc, {"token"})
          /\ Count(pc', {"run"}) = Count(pc, {"run"})
      <4>1. pc[t] # "run"
        BY <2>1
      <4>2. PICK b \in {"off", "wait"} : pc' = [pc EXCEPT ![t] = b]
        BY <3>1
      <4>3. b \in WorkerStates /\ b # "run" /\ b # "token"
        BY <4>2, StateNames
      <4>4. Count(pc', {"run"}) = Count(pc, {"run"})
        BY <1>1, <4>1, <4>2, <4>3, Moved
      <4>5. pc[t] = "timeout" => Count(pc', {"token"}) = Count(pc, {"token"})
        BY <1>1, <4>2, <4>3, Moved
      <4>6. QED
        BY <4>4, <4>5
    <3>3. QED
      BY <1>2, <1>4, <2>1, <3>1, <3>2, PoolAssumption DEF QueueInv, NoLostWakeup, ActiveJobsCover
  <2>5. QED
    BY <2>2, <2>3, <2>4
<1>8. CASE WorkerNext(t)
  <2>1. /\ UNCHANGED <<owner, dispatchSignal>> /\ pc[t] = "run" /\ activeJobs' = activeJobs - 1
        /\ Count(pc, {"run"}) >= 1
    BY <1>8, Occupied DEF WorkerNext, ownerVars, signalVars
  <2>2. CASE dispatchQueue = <<>>
    <3>1. pc' = [pc EXCEPT ![t] = "wait"] /\ UNCHANGED dispatchQueue
      BY <1>8, <2>2 DEF WorkerNext
    <3>2. /\ Count(pc', {"token"}) = Count(pc, {"token"})
          /\ Count(pc', {"run"}) = Count(pc, {"run"}) - 1
      BY <1>1, <2>1, <3>1, Moved, StateNames
    <3>3. QED
      BY <1>2, <2>1, <3>1, <3>2 DEF QueueInv, NoLostWakeup, ActiveJobsCover
  <2>3. CASE dispatchQueue # <<>>
    <3>1. dispatchQueue' = Tail(dispatchQueue) /\ UNCHANGED pc
      BY <1>8, <2>3 DEF WorkerNext
    <3>2. QED
      BY <1>2, <1>3, <2>1, <2>3, <3>1, PoolAssumption DEF QueueInv, NoLostWakeup, ActiveJobsCover
  <2>4. QED
    BY <2>2, <2>3
<1>9. QED
  BY <1>5, <1>6, <1>7, <1>8 DEF Worker

(* Everything else that concerns the queue: the API calls, the owner, the  *)
(* timer.                                                                  *)
LEMMA QueueInvNext ==
  QueueInv /\ PlaceInv /\ ThreadInv /\ [Next]_vars => QueueInv'
<1>1. SUFFICES ASSUME QueueInv, PlaceInv, ThreadInv, [Next]_vars PROVE QueueInv'
  OBVIOUS
<1>2. PlaceInv' /\ ThreadInv'
  BY <1>1, PlaceInvNext, ThreadInvNext
<1>3. /\ Len(dispatchQueue) \in Nat /\ Len(dispatchQueue') \in Nat
      /\ dispatchSignal \in 0..MaxSem /\ MaxSem \in Nat
      /\ dispatchQueue \in Seq(Jobs)
  BY <1>1, <1>2, PoolAssumption DEF PlaceInv, PlaceTypes, QueueInv
<1>4. CASE UNCHANGED <<owner, activeJobs, pc, dispatchSignal, dispatchQueue>>
  BY <1>1, <1>3, <1>4, QueueInvFrame
<1>5. CASE \E t \in Threads : Worker(t)
  BY <1>1, <1>2, <1>5, QueueInvWorker
<1>6. CASE \E j \in Jobs : \E p \in Priorities : IotTaskPool_Schedule(j, p)
  <2>1. PICK j \in Jobs, p \in Priorities : IotTaskPool_Schedule(j, p)
    BY <1>6
  <2>2. AssertsLinked(j) /\ _scheduleInternal(j, p, QueueWithout(j)) /\ UNCHANGED owner
    BY <2>1 DEF IotTaskPool_Schedule, _trySafeExtraction, ownerVars
  <2>3. QED
    BY <1>1, <1>2, <2>2, Extracted, QueueInvSchedule
<1>7. CASE TimerDispatch
  <2>1. /\ Head(timerEventsList) \in Jobs /\ UNCHANGED owner
        /\ _scheduleInternal(Head(timerEventsList), "normal", dispatchQueue)
    BY <1>1, <1>7, TailList DEF TimerDispatch, ownerVars, PlaceInv, PlaceTypes
  <2>2. QED
    BY <1>1, <1>2, <1>3, <2>1, QueueInvSchedule
<1>8. CASE \E j \in Jobs : \/ IotTaskPool_RecycleJob(j) \/ IotTaskPool_DestroyRecyclableJob(j)
                           \/ \E d \in DeferTimes : IotTaskPool_ScheduleDeferred(j, d)
                           \/ ScheduleDeferredFails(j) \/ IotTaskPool_TryCancel(j)
  <2>1. PICK j \in Jobs : \/ IotTaskPool_RecycleJob(j) \/ IotTaskPool_DestroyRecyclableJob(j)
                          \/ \E d \in DeferTimes : IotTaskPool_ScheduleDeferred(j, d)
                          \/ ScheduleDeferredFails(j) \/ IotTaskPool_TryCancel(j)
    BY <1>8
  <2>2. /\ AssertsLinked(j) /\ dispatchQueue' = QueueWithout(j)
        /\ UNCHANGED <<owner, activeJobs, pc, dispatchSignal>>
    BY <2>1 DEF IotTaskPool_RecycleJob, IotTaskPool_DestroyRecyclableJob, Extract,
                IotTaskPool_ScheduleDeferred, ScheduleDeferredFails, _trySafeExtraction,
                IotTaskPool_TryCancel, ownerVars, signalVars
  <2>3. QED
    BY <1>1, <1>3, <2>2, Extracted, QueueInvFrame
<1>9. CASE \E n \in MaxThreads : IotTaskPool_SetMaxThreads(n)
  <2>1. PICK n \in MaxThreads : IotTaskPool_SetMaxThreads(n)
    BY <1>9
  <2>2. /\ UNCHANGED <<owner, activeJobs, pc, dispatchQueue>>
        /\ dispatchSignal' = IF n < maxThreads THEN Post(dispatchSignal, maxThreads - n)
                                               ELSE dispatchSignal
    BY <2>1 DEF IotTaskPool_SetMaxThreads, ownerVars
  <2>3. n \in Nat /\ maxThreads \in Nat
    BY <1>1, PoolAssumption DEF ThreadInv, ThreadTypes
  <2>4. dispatchSignal' \in 0..MaxSem /\ dispatchSignal' >= dispatchSignal
    BY <1>3, <2>2, <2>3 DEF Post
  <2>5. QED
    BY <1>1, <1>3, <2>2, <2>4, QueueInvFrame
<1>10. CASE \/ \E n \in MaxThreads : IotTaskPool_Create(n)
            \/ IotTaskPool_Destroy \/ CreateThread \/ CreateDone \/ DestroyDone
  <2>1. Count(pc, {"run"}) \in Nat
    BY CountBounds
  <2>2. dispatchQueue' = <<>> /\ Len(dispatchQueue') = 0
    BY <1>1, <1>10
    DEF PlaceInv, EmptyUnlessOpen, IotTaskPool_Create, IotTaskPool_Destroy, CreateThread,
        CreateDone, DestroyDone
  <2>3. dispatchSignal' \in 0..MaxSem
    <3>1. threads \in Nat /\ activeThreads \in Nat
      BY <1>1 DEF ThreadInv, ThreadTypes
    <3>2. QED
      BY <1>3, <1>10, <3>1
      DEF IotTaskPool_Create, IotTaskPool_Destroy, CreateThread, CreateDone, DestroyDone,
          Post, signalVars
  <2>4. activeJobs' \in Nat /\ activeJobs' >= Count(pc', {"run"})
    <3>1. CASE \E n \in MaxThreads : IotTaskPool_Create(n)
      <4>1. activeJobs' = 0 /\ pc' = pc /\ owner = "gone"
        BY <3>1 DEF IotTaskPool_Create
      <4>2. {"run"} \subseteq CountedStates
        BY DEF CountedStates
      <4>3. Count(pc, {"run"}) <= Count(pc, CountedStates)
        BY <4>2, CountBounds
      <4>4. Count(pc, CountedStates) = 0
        BY <1>1, <4>1 DEF ThreadInv, Lifecycle, ThreadAccounting
      <4>5. QED
        BY <2>1, <4>1, <4>3, <4>4
    <3>2. CASE IotTaskPool_Destroy \/ CreateThread \/ CreateDone \/ DestroyDone
      <4>1. activeJobs' = activeJobs
        BY <3>2 DEF IotTaskPool_Destroy, CreateThread, CreateDone, DestroyDone
      <4>2. Count(pc', {"run"}) = Count(pc, {"run"})
        <5>1. CASE pc' = pc
          BY <5>1
        <5>2. CASE \E t \in Threads : pc[t] = "off" /\ pc' = [pc EXCEPT ![t] = "start"]
          BY <1>1, <5>2, Moved, StateNames DEF ThreadInv, ThreadTypes
        <5>3. QED
          BY <3>2, <5>1, <5>2 DEF IotTaskPool_Destroy, CreateThread, CreateDone, DestroyDone
      <4>3. QED
        BY <1>1, <1>3, <2>1, <4>1, <4>2 DEF QueueInv, ActiveJobsCover
    <3>3. QED
      BY <1>10, <3>1, <3>2
  <2>5. Count(pc', {"token"}) \in Nat /\ Count(pc', {"run"}) \in Nat
    BY CountBounds
  <2>6. QED
    BY <1>3, <2>2, <2>3, <2>4, <2>5 DEF QueueInv, NoLostWakeup, ActiveJobsCover
<1>11. CASE \/ \E j \in Jobs : IotTaskPool_CreateJob(j) \/ IotTaskPool_CreateRecyclableJob(j)
                                 \/ CancelAssertFails(j)
            \/ OwnerWait \/ Tick \/ TimerFire \/ TimerDone \/ UNCHANGED vars
  BY <1>4, <1>11
  DEF IotTaskPool_CreateJob, IotTaskPool_CreateRecyclableJob, CancelAssertFails, OwnerWait,
      Tick, TimerFire, TimerDone, vars, ownerVars, signalVars
<1>12. CASE TimerThread
  <2>1. /\ UNCHANGED <<activeJobs, pc, dispatchSignal, dispatchQueue>>
        /\ owner' = owner \/ owner' # "open"
    BY <1>12 DEF TimerThread, signalVars
  <2>2. QED
    BY <1>1, <2>1 DEF QueueInv, NoLostWakeup, ActiveJobsCover
<1>13. QED
  BY <1>1, <1>5, <1>6, <1>7, <1>8, <1>9, <1>10, <1>11, <1>12
  DEF Next, Api, Owner, TimerDaemon, Halted

(* For any number of jobs and threads no wake-up of a worker is lost, and  *)
(* the counter of active jobs never wraps.                                 *)
THEOREM QueueCorrect == Spec => [](NoLostWakeup /\ ActiveJobsCover)
<1>1. Spec => [](ThreadInv /\ PlaceInv /\ QueueInv)
  BY ThreadInvInit, ThreadInvNext, PlaceInvInit, PlaceInvNext, QueueInvInit, QueueInvNext,
     PTL DEF Spec
<1>2. QueueInv => NoLostWakeup /\ ActiveJobsCover
  BY DEF QueueInv
<1>3. QED
  BY <1>1, <1>2, PTL

(* For any number of jobs and threads the counters of threads and jobs     *)
(* stand for what they count, and an open pool keeps its minimum.          *)
THEOREM CountersCorrect == Spec => []CountersAreExact
<1>1. ThreadAccounting /\ StartStopHandshake /\ PoolFloor
        /\ NoLostWakeup /\ ActiveJobsCover => CountersAreExact
  BY DEF CountersAreExact
<1>2. QED
  BY <1>1, ThreadsCorrect, QueueCorrect, PTL

-----------------------------------------------------------------------------
(* The cache of recyclable jobs and the coverage of deferred jobs *)

CacheInv == freeCount \in Nat /\ CacheCount

LEMMA CacheInvNext == CacheInv /\ PlaceInv /\ [Next]_vars => CacheInv'
<1>1. SUFFICES ASSUME CacheInv, PlaceInv, [Next]_vars PROVE CacheInv'
  OBVIOUS
<1>2. freeList \in Seq(RecyclableJobs) /\ Len(freeList) \in Nat
  BY <1>1 DEF PlaceInv, PlaceTypes
<1>3. CASE \E j \in Jobs : IotTaskPool_CreateRecyclableJob(j)
  <2>1. /\ ~_IsShutdownStarted /\ UNCHANGED maxThreads
        /\ \/ freeList # <<>> /\ freeList' = Tail(freeList) /\ freeCount' = freeCount - 1
           \/ UNCHANGED <<freeList, freeCount>>
    BY <1>3 DEF IotTaskPool_CreateRecyclableJob, ApiEnter, cacheVars
  <2>2. CASE freeList # <<>> /\ freeList' = Tail(freeList) /\ freeCount' = freeCount - 1
    <3>1. Len(freeList') = Len(freeList) - 1 /\ Len(freeList) > 0
      BY <1>2, <2>2, TailList, EmptySeq
    <3>2. QED
      BY <1>1, <1>2, <2>1, <2>2, <3>1, PoolAssumption DEF CacheInv, CacheCount, _IsShutdownStarted
  <2>3. CASE UNCHANGED <<freeList, freeCount>>
    BY <1>1, <2>1, <2>3 DEF CacheInv, CacheCount, _IsShutdownStarted
  <2>4. QED
    BY <2>1, <2>2, <2>3
<1>4. CASE \E j \in Jobs : IotTaskPool_RecycleJob(j)
  <2>1. PICK j \in Jobs : IotTaskPool_RecycleJob(j)
    BY <1>4
  <2>2. ~_IsShutdownStarted /\ UNCHANGED maxThreads /\ j \in RecyclableJobs
    BY <2>1 DEF IotTaskPool_RecycleJob, Extract, ApiEnter
  <2>3. CASE freeCount < RecycleLimit
    <3>1. freeList' = Append(freeList, j) /\ freeCount' = freeCount + 1
      BY <2>1, <2>3 DEF IotTaskPool_RecycleJob
    <3>2. Len(freeList') = Len(freeList) + 1
      BY <1>2, <2>2, <3>1, AppendList
    <3>3. QED
      BY <1>1, <1>2, <2>2, <2>3, <3>1, <3>2, PoolAssumption
      DEF CacheInv, CacheCount, _IsShutdownStarted
  <2>4. CASE ~(freeCount < RecycleLimit)
    <3>1. UNCHANGED <<freeList, freeCount>>
      BY <2>1, <2>4 DEF IotTaskPool_RecycleJob, cacheVars
    <3>2. QED
      BY <1>1, <2>2, <3>1 DEF CacheInv, CacheCount, _IsShutdownStarted
  <2>5. QED
    BY <2>3, <2>4
<1>5. CASE \E n \in MaxThreads : IotTaskPool_Create(n)
  <2>1. freeList' = <<>> /\ freeCount' = 0
    BY <1>5 DEF IotTaskPool_Create
  <2>2. QED
    BY <2>1, PoolAssumption DEF CacheInv, CacheCount
<1>6. CASE IotTaskPool_Destroy
  <2>1. maxThreads' = 0 /\ freeCount' = freeCount
    BY <1>6 DEF IotTaskPool_Destroy
  <2>2. QED
    BY <1>1, <2>1 DEF CacheInv, CacheCount, _IsShutdownStarted
<1>7. CASE UNCHANGED <<freeList, freeCount>> /\ (maxThreads' = 0 \/ ~_IsShutdownStarted)
  BY <1>1, <1>7 DEF CacheInv, CacheCount, _IsShutdownStarted
<1>8. CASE UNCHANGED <<freeList, freeCount, maxThreads>>
  BY <1>1, <1>8 DEF CacheInv, CacheCount, _IsShutdownStarted
<1>9. CASE \/ \E n \in MaxThreads : IotTaskPool_SetMaxThreads(n)
           \/ CreateDone
  BY <1>7, <1>8, <1>9 DEF IotTaskPool_SetMaxThreads, ApiEnter, CreateDone, cacheVars
<1>10. CASE \E j \in Jobs : \/ IotTaskPool_CreateJob(j) \/ IotTaskPool_DestroyRecyclableJob(j)
                            \/ \E p \in Priorities : IotTaskPool_Schedule(j, p)
                            \/ \E d \in DeferTimes : IotTaskPool_ScheduleDeferred(j, d)
                            \/ ScheduleDeferredFails(j) \/ IotTaskPool_TryCancel(j)
                            \/ CancelAssertFails(j)
  BY <1>8, <1>10
  DEF IotTaskPool_CreateJob, IotTaskPool_DestroyRecyclableJob, Extract, IotTaskPool_Schedule,
      IotTaskPool_ScheduleDeferred, ScheduleDeferredFails, IotTaskPool_TryCancel,
      CancelAssertFails, cacheVars
<1>11. CASE \E t \in Threads : Worker(t)
  BY <1>8, <1>11
  DEF Worker, WorkerStart, WorkerWake, WorkerCheck, WorkerLast, WorkerNext, WorkerExit, cacheVars
<1>12. CASE CreateThread \/ OwnerWait \/ DestroyDone \/ Tick \/ TimerDaemon \/ UNCHANGED vars
  BY <1>8, <1>12
  DEF CreateThread, OwnerWait, DestroyDone, Tick, TimerDaemon, TimerFire, TimerThread,
      TimerDispatch, TimerDone, vars, cacheVars
<1>13. QED
  BY <1>1, <1>3, <1>4, <1>5, <1>6, <1>9, <1>10, <1>11, <1>12 DEF Next, Api, Owner, Halted

LEMMA TimerCoverageNext ==
  TimerCoverage /\ PlaceInv /\ ThreadInv /\ [Next]_vars => TimerCoverage'
<1>1. SUFFICES ASSUME TimerCoverage, PlaceInv, ThreadInv, [Next]_vars PROVE TimerCoverage'
  OBVIOUS
<1>2. CASE UNCHANGED <<timerEventsList, timer, timerTask>>
  BY <1>1, <1>2 DEF TimerCoverage
<1>3. CASE \E j \in Jobs : \/ IotTaskPool_CreateJob(j) \/ IotTaskPool_CreateRecyclableJob(j)
                           \/ CancelAssertFails(j)
  BY <1>2, <1>3
  DEF IotTaskPool_CreateJob, IotTaskPool_CreateRecyclableJob, CancelAssertFails, timerVars
<1>4. CASE \E j \in Jobs : \/ IotTaskPool_RecycleJob(j) \/ IotTaskPool_DestroyRecyclableJob(j)
                           \/ \E p \in Priorities : IotTaskPool_Schedule(j, p)
                           \/ ScheduleDeferredFails(j) \/ IotTaskPool_TryCancel(j)
  <2>1. PICK j \in Jobs : /\ AssertsLinked(j) /\ UNCHANGED timerTask
                          /\ timerEventsList' = TimersWithout(j) /\ timer' = TimerWithout(j)
    BY <1>4 DEF IotTaskPool_RecycleJob, IotTaskPool_DestroyRecyclableJob, Extract,
                IotTaskPool_Schedule, ScheduleDeferredFails, _trySafeExtraction,
                IotTaskPool_TryCancel
  <2>2. timerEventsList' # <<>> => timerEventsList # <<>>
    <3>1. SUFFICES ASSUME timerEventsList' # <<>> PROVE timerEventsList # <<>>
      OBVIOUS
    <3>2. Linked(timerEventsList', Head(timerEventsList'))
      BY <1>1, <2>1, <3>1, Extracted, TailList
    <3>3. Linked(timerEventsList, Head(timerEventsList'))
      BY <1>1, <2>1, <3>2, Extracted
    <3>4. QED
      BY <3>3, EmptyList
  <2>3. timer' = Idle => timer = Idle
    BY <1>1, <2>1, Extracted
  <2>4. QED
    BY <1>1, <2>1, <2>2, <2>3 DEF TimerCoverage
<1>5. CASE \E j \in Jobs : \E d \in DeferTimes : IotTaskPool_ScheduleDeferred(j, d)
  <2>1. PICK j \in Jobs, d \in DeferTimes : IotTaskPool_ScheduleDeferred(j, d)
    BY <1>5
  <2> DEFINE exp == [expiration EXCEPT ![j] = d]
             lst == InsertSorted(TimersWithout(j), j, exp)
  <2>2. /\ AssertsLinked(j) /\ UNCHANGED timerTask /\ timerEventsList' = lst
        /\ timer' = IF Head(lst) = j THEN _rescheduleDeferredJobsTimer(d) ELSE TimerWithout(j)
    BY <2>1 DEF IotTaskPool_ScheduleDeferred
  <2>3. d \in Nat /\ exp \in [Jobs -> Nat]
    BY <1>1, PoolAssumption DEF PlaceInv, PlaceTypes
  <2>4. lst \in Seq(Jobs) /\ \A k : Linked(lst, k) <=> Linked(TimersWithout(j), k) \/ k = j
    <3> HIDE DEF exp
    <3>1. TimersWithout(j) \in Seq(Jobs)
      BY <1>1, <2>2, Extracted
    <3>2. QED
      BY <2>3, <3>1, InsertSortedList
  <2> HIDE DEF lst, exp
  <2>5. CASE Head(lst) = j
    BY <2>2, <2>3, <2>5, PoolAssumption DEF TimerCoverage, _rescheduleDeferredJobsTimer, Idle
  <2>6. CASE Head(lst) # j
    <3>1. lst # <<>>
      BY <2>4, EmptyList
    <3>2. Linked(timerEventsList, Head(lst))
      BY <1>1, <2>2, <2>4, <2>6, <3>1, TailList, Extracted
    <3>3. timerEventsList # <<>>
      BY <3>2, EmptyList
    <3>4. timer' = Idle => timer = Idle
      BY <1>1, <2>2, <2>6, Extracted
    <3>5. QED
      BY <1>1, <2>2, <3>3, <3>4 DEF TimerCoverage
  <2>7. QED
    BY <2>5, <2>6
<1>6. CASE \/ \E n \in MaxThreads : IotTaskPool_SetMaxThreads(n)
           \/ CreateThread \/ OwnerWait \/ CreateDone \/ UNCHANGED vars
           \/ \E t \in Threads : Worker(t)
  BY <1>2, <1>6
  DEF IotTaskPool_SetMaxThreads, CreateThread, OwnerWait, CreateDone, vars, Worker, WorkerStart,
      WorkerWake, WorkerCheck, WorkerLast, WorkerNext, WorkerExit, timerVars
<1>7. CASE \E n \in MaxThreads : IotTaskPool_Create(n)
  BY <1>7 DEF IotTaskPool_Create, TimerCoverage
<1>8. CASE IotTaskPool_Destroy
  BY <1>8 DEF IotTaskPool_Destroy, TimerCoverage
<1>9. CASE DestroyDone
  BY <1>1, <1>9 DEF DestroyDone, PlaceInv, EmptyUnlessOpen, TimerCoverage
<1>10. CASE Tick
  BY <1>1, <1>10 DEF Tick, TimerCoverage, PlaceInv, PlaceTypes, Idle
<1>11. CASE TimerFire
  BY <1>11 DEF TimerFire, TimerCoverage
<1>12. CASE TimerThread
  <2>1. timerTask' = "locked" \/ owner # "open"
    BY <1>1, <1>12, PoolAssumption
    DEF TimerThread, _IsShutdownStarted, ThreadInv, ThreadTypes, Lifecycle, InService
  <2>2. QED
    BY <1>1, <1>12, <2>1 DEF TimerThread, PlaceInv, EmptyUnlessOpen, TimerCoverage, timerVars
<1>13. CASE TimerDispatch
  BY <1>13 DEF TimerDispatch, TimerCoverage
<1>14. CASE TimerDone
  <2>1. CASE timerEventsList = <<>>
    BY <1>14, <2>1 DEF TimerDone, TimerCoverage
  <2>2. CASE timerEventsList # <<>>
    <3>1. expiration[Head(timerEventsList)] \in Nat
      BY <1>1, <2>2, TailList DEF PlaceInv, PlaceTypes
    <3>2. QED
      BY <1>14, <2>2, <3>1, PoolAssumption
      DEF TimerDone, TimerCoverage, _rescheduleDeferredJobsTimer, Idle
  <2>3. QED
    BY <2>1, <2>2
<1>15. QED
  BY <1>1, <1>3, <1>4, <1>5, <1>6, <1>7, <1>8, <1>9, <1>10, <1>11, <1>12, <1>13, <1>14
  DEF Next, Api, Owner, TimerDaemon, Halted

-----------------------------------------------------------------------------
(* The whole invariant *)

IInv ==
  /\ ThreadInv /\ PlaceInv /\ QueueInv /\ CacheInv /\ TimerCoverage
  /\ completeShutdown \in BOOLEAN
  /\ fault \in {"none", "assert", "teardown", "freeStatic"}

LEMMA InvInit == Init => IInv
<1>1. SUFFICES ASSUME Init PROVE IInv
  OBVIOUS
<1>2. ThreadInv /\ PlaceInv /\ QueueInv
  BY <1>1, ThreadInvInit, PlaceInvInit, QueueInvInit
<1>3. CacheInv
  BY <1>1, PoolAssumption DEF Init, CacheInv, CacheCount, _IsShutdownStarted
<1>4. QED
  BY <1>1, <1>2, <1>3 DEF Init, IInv, TimerCoverage

LEMMA InvNext == IInv /\ [Next]_vars => IInv'
<1>1. SUFFICES ASSUME IInv, [Next]_vars PROVE IInv'
  OBVIOUS
<1>2. (ThreadInv /\ PlaceInv /\ QueueInv /\ CacheInv /\ TimerCoverage)'
  BY <1>1, ThreadInvNext, PlaceInvNext, QueueInvNext, CacheInvNext, TimerCoverageNext DEF IInv
<1>3. (/\ completeShutdown \in BOOLEAN
       /\ fault \in {"none", "assert", "teardown", "freeStatic"})'
  <2>1. /\ completeShutdown \in BOOLEAN
        /\ fault \in {"none", "assert", "teardown", "freeStatic"}
    BY <1>1 DEF IInv
  <2>2. CASE UNCHANGED <<completeShutdown, fault>>
    BY <2>1, <2>2
  <2>3. CASE Api
    <3>1. CASE \E j \in Jobs :
                 \/ IotTaskPool_CreateJob(j) \/ IotTaskPool_CreateRecyclableJob(j)
                 \/ IotTaskPool_RecycleJob(j) \/ IotTaskPool_DestroyRecyclableJob(j)
                 \/ \E p \in Priorities : IotTaskPool_Schedule(j, p)
                 \/ \E d \in DeferTimes : IotTaskPool_ScheduleDeferred(j, d)
                 \/ ScheduleDeferredFails(j) \/ IotTaskPool_TryCancel(j)
      BY <2>2, <3>1
      DEF IotTaskPool_CreateJob, IotTaskPool_CreateRecyclableJob, IotTaskPool_RecycleJob,
          IotTaskPool_DestroyRecyclableJob, Extract, IotTaskPool_Schedule,
          IotTaskPool_ScheduleDeferred, ScheduleDeferredFails, IotTaskPool_TryCancel, ownerVars
    <3>2. CASE \E j \in Jobs : CancelAssertFails(j)
      BY <2>1, <3>2 DEF CancelAssertFails, ownerVars
    <3>3. CASE \E n \in MaxThreads : IotTaskPool_SetMaxThreads(n) \/ IotTaskPool_Create(n)
      BY <2>1, <3>3 DEF IotTaskPool_SetMaxThreads, IotTaskPool_Create, ownerVars
    <3>4. CASE IotTaskPool_Destroy
      <4>1. completeShutdown' = ~(/\ timerEventsList # <<>>
                                  /\ expiration[Head(timerEventsList)] = 0)
        BY <3>4 DEF IotTaskPool_Destroy
      <4>2. fault' = fault
        BY <3>4 DEF IotTaskPool_Destroy
      <4>3. QED
        BY <2>1, <4>1, <4>2
    <3>5. QED
      BY <2>3, <3>1, <3>2, <3>3, <3>4 DEF Api
  <2>4. CASE Owner
    BY <2>1, <2>4 DEF Owner, CreateThread, OwnerWait, CreateDone, DestroyDone
  <2>5. CASE \E t \in Threads : Worker(t)
    BY <2>2, <2>5 DEF Worker, WorkerStart, WorkerWake, WorkerCheck, WorkerLast, WorkerNext,
                      WorkerExit, ownerVars
  <2>6. CASE Tick \/ TimerDaemon
    BY <2>1, <2>6 DEF Tick, TimerDaemon, TimerFire, TimerThread, TimerDispatch, TimerDone,
                      ownerVars
  <2>7. CASE UNCHANGED vars
    BY <2>2, <2>7 DEF vars, ownerVars
  <2>8. QED
    BY <1>1, <2>3, <2>4, <2>5, <2>6, <2>7 DEF Next, Halted
<1>4. QED
  BY <1>2, <1>3 DEF IInv

LEMMA InvAlways == Spec => []IInv
BY InvInit, InvNext, PTL DEF Spec

(* The variables keep their types: none of the unsigned counters           *)
(* (activeThreads, activeJobs, freeCount) is decremented at zero, and both *)
(* semaphores stay within their maximum.                                   *)
THEOREM TypeCorrect == Spec => []TypeOK
<1>1. IInv => TypeOK
  BY DEF IInv, TypeOK, ThreadInv, ThreadTypes, PlaceInv, PlaceTypes, QueueInv, CacheInv
<1>2. QED
  BY <1>1, InvAlways, PTL

(* The counter of the cache is exact and within the limit.                 *)
THEOREM CacheCorrect == Spec => []CacheCount
<1>1. IInv => CacheCount
  BY DEF IInv, CacheInv
<1>2. QED
  BY <1>1, InvAlways, PTL

(* A deferred job always has an armed timer, or a timer callback that is   *)
(* under way, that will look at it.                                        *)
THEOREM DeferredJobsCovered == Spec => []TimerCoverage
<1>1. IInv => TimerCoverage
  BY DEF IInv
<1>2. QED
  BY <1>1, InvAlways, PTL

-----------------------------------------------------------------------------
(* Refinement: the contract of a job *)

(* A job in the cache was marked when it got there, so destroying the pool *)
(* takes nothing back that was started.                                    *)
CachedUndefined == \A j \in Jobs : Linked(freeList, j) => status[j] = "UNDEFINED"

(* What a step on one job looks like to its user.                          *)
Allowed(j) ==
  \/ JobPlace(j)' = "out"
  \/ JobPlace(j)' \in {"queued", "deferred"} /\ JobPlace(j) # "started"
  \/ JobPlace(j)' = "started" /\ JobPlace(j) = "queued"

Moves(j) ==
  /\ \A k \in Jobs : k # j =>
       /\ status'[k] = status[k]
       /\ Linked(dispatchQueue', k) <=> Linked(dispatchQueue, k)
       /\ Linked(timerEventsList', k) <=> Linked(timerEventsList, k)
       /\ Linked(freeList', k) => Linked(freeList, k)
  /\ Linked(freeList', j) => status'[j] = "UNDEFINED"
  /\ Allowed(j)

Steady == UNCHANGED <<dispatchQueue, timerEventsList, freeList, status>>

(* Scheduling a job that is not started moves it to the queue, or leaves   *)
(* it nowhere when a thread for a high priority job cannot be created.     *)
LEMMA ScheduleMoves ==
  ASSUME PlaceInv, PlaceInv', NEW j \in Jobs, NEW p, NEW q \in Seq(Jobs), j \in live,
         _scheduleInternal(j, p, q), JobPlace(j) # "started",
         \A k : Linked(q, k) <=> Linked(dispatchQueue, k) /\ k # j,
         \A k : Linked(timerEventsList', k) <=> Linked(timerEventsList, k) /\ k # j,
         freeList' = freeList
  PROVE  Moves(j)
<1>1. dispatchQueue' \in {q, Append(q, j), Cons(j, q)}
  BY DEF _scheduleInternal
<1>2. status'[j] = "SCHEDULED" /\ \A k \in Jobs : k # j => status'[k] = status[k]
  BY DEF _scheduleInternal, PlaceInv, PlaceTypes
<1>3. \A k : k # j => (Linked(dispatchQueue', k) <=> Linked(dispatchQueue, k))
  <2>1. \A k : Linked(Append(q, j), k) <=> Linked(q, k) \/ k = j
    BY AppendList
  <2>2. \A k : Linked(Cons(j, q), k) <=> Linked(q, k) \/ k = j
    BY ConsList
  <2>3. QED
    BY <1>1, <2>1, <2>2
<1>4. ~Linked(freeList', j)
  BY DEF PlaceInv, JobPlacement
<1>5. Allowed(j)
  <2>1. JobPlace(j)' \in {"queued", "out"}
    BY <1>2 DEF JobPlace
  <2>2. QED
    BY <2>1 DEF Allowed
<1>6. QED
  BY <1>2, <1>3, <1>4, <1>5 DEF Moves

(* A job that leaves its lists and is not started is withdrawn.            *)
LEMMA WithdrawMoves ==
  ASSUME NEW j \in Jobs, status'[j] # "COMPLETED",
         \A k \in Jobs : k # j => status'[k] = status[k],
         \A k : Linked(dispatchQueue', k) <=> Linked(dispatchQueue, k) /\ k # j,
         \A k : Linked(timerEventsList', k) <=> Linked(timerEventsList, k) /\ k # j,
         \A k \in Jobs : k # j => (Linked(freeList', k) => Linked(freeList, k)),
         Linked(freeList', j) => status'[j] = "UNDEFINED"
  PROVE  Moves(j)
<1>1. JobPlace(j)' = "out"
  BY DEF JobPlace
<1>2. QED
  BY <1>1 DEF Moves, Allowed

(* A worker starts the job at the head of the queue.                       *)
LEMMA TakeMoves ==
  ASSUME PlaceInv, PlaceInv', dispatchQueue # <<>>, dispatchQueue' = Tail(dispatchQueue),
         status' = [status EXCEPT ![Head(dispatchQueue)] = "COMPLETED"],
         UNCHANGED <<timerEventsList, freeList>>
  PROVE  \E j \in Jobs : Moves(j)
<1>1. dispatchQueue \in Seq(Jobs) /\ IsInjective(dispatchQueue)
  BY DEF PlaceInv, PlaceTypes, JobPlacement
<1> PICK j \in Jobs : j = Head(dispatchQueue)
  BY <1>1, TailList
<1>2. /\ j \in Jobs /\ Linked(dispatchQueue, j) /\ ~Linked(dispatchQueue', j)
      /\ \A k : k # j => (Linked(dispatchQueue', k) <=> Linked(dispatchQueue, k))
  BY <1>1, TailList
<1>3. status'[j] = "COMPLETED" /\ \A k \in Jobs : k # j => status'[k] = status[k]
  BY <1>2 DEF PlaceInv, PlaceTypes
<1>4. ~Linked(freeList', j) /\ ~Linked(timerEventsList', j)
  BY <1>2 DEF PlaceInv, JobPlacement
<1>5. JobPlace(j)' = "started" /\ JobPlace(j) = "queued"
  BY <1>2, <1>3, <1>4 DEF JobPlace
<1>6. Moves(j)
  BY <1>2, <1>3, <1>4, <1>5 DEF Moves, Allowed
<1>7. QED
  BY <1>2, <1>6

(* The API calls on one job.                                               *)
LEMMA ApiMoves ==
  ASSUME PlaceInv, PlaceInv', NEW j \in Jobs,
         \/ IotTaskPool_CreateJob(j)
         \/ IotTaskPool_CreateRecyclableJob(j)
         \/ IotTaskPool_RecycleJob(j)
         \/ IotTaskPool_DestroyRecyclableJob(j)
         \/ \E p \in Priorities : IotTaskPool_Schedule(j, p)
         \/ \E d \in DeferTimes : IotTaskPool_ScheduleDeferred(j, d)
         \/ ScheduleDeferredFails(j)
         \/ IotTaskPool_TryCancel(j)
         \/ CancelAssertFails(j)
  PROVE  Moves(j) \/ Steady
<1>1. PlaceTypes /\ JobPlacement
  BY DEF PlaceInv
<1>2. CASE CancelAssertFails(j)
  BY <1>2 DEF CancelAssertFails, Steady, cacheVars, timerVars
<1>3. CASE \E p \in Priorities : IotTaskPool_Schedule(j, p)
  <2>1. PICK p \in Priorities : IotTaskPool_Schedule(j, p)
    BY <1>3
  <2>2. /\ j \in live /\ status[j] # "COMPLETED"
        /\ AssertsLinked(j) /\ _scheduleInternal(j, p, QueueWithout(j))
        /\ timerEventsList' = TimersWithout(j)
        /\ freeList' = freeList
    BY <2>1 DEF IotTaskPool_Schedule, _trySafeExtraction, cacheVars
  <2>3. JobPlace(j) # "started"
    BY <2>2 DEF JobPlace
  <2>4. QED
    BY <2>2, <2>3, Extracted, ScheduleMoves
<1>4. CASE IotTaskPool_TryCancel(j)
  <2>1. /\ AssertsLinked(j)
        /\ dispatchQueue' = QueueWithout(j) /\ timerEventsList' = TimersWithout(j)
        /\ freeList' = freeList /\ j \in live
        /\ status'[j] = "CANCELED" /\ \A k \in Jobs : k # j => status'[k] = status[k]
    BY <1>1, <1>4 DEF IotTaskPool_TryCancel, cacheVars, PlaceTypes
  <2>2. ~Linked(freeList', j)
    BY <1>1, <2>1 DEF JobPlacement
  <2>3. /\ \A k : Linked(dispatchQueue', k) <=> Linked(dispatchQueue, k) /\ k # j
        /\ \A k : Linked(timerEventsList', k) <=> Linked(timerEventsList, k) /\ k # j
        /\ \A k \in Jobs : k # j => (Linked(freeList', k) => Linked(freeList, k))
    BY <2>1, Extracted
  <2>4. QED
    BY <2>1, <2>2, <2>3, WithdrawMoves
<1>5. CASE ScheduleDeferredFails(j)
  <2>1. /\ AssertsLinked(j) /\ status[j] # "COMPLETED"
        /\ dispatchQueue' = QueueWithout(j) /\ timerEventsList' = TimersWithout(j)
        /\ freeList' = freeList /\ j \in live
    BY <1>5 DEF ScheduleDeferredFails, _trySafeExtraction, cacheVars
  <2>2. status'[j] # "COMPLETED" /\ \A k \in Jobs : k # j => status'[k] = status[k]
    BY <1>1, <1>5, <2>1 DEF ScheduleDeferredFails, PlaceTypes
  <2>3. ~Linked(freeList', j)
    BY <1>1, <2>1 DEF JobPlacement
  <2>4. QED
    BY <2>1, <2>2, <2>3, Extracted, WithdrawMoves
<1>6. CASE IotTaskPool_CreateJob(j)
  <2>1. /\ ~Linked(dispatchQueue, j) /\ ~Linked(timerEventsList, j) /\ j \in StaticJobs
        /\ status'[j] = "READY" /\ \A k \in Jobs : k # j => status'[k] = status[k]
        /\ UNCHANGED <<dispatchQueue, timerEventsList, freeList>>
    BY <1>1, <1>6 DEF IotTaskPool_CreateJob, cacheVars, timerVars, PlaceTypes
  <2>2. ~Linked(freeList, j)
    BY <1>1, <2>1, PoolAssumption DEF PlaceTypes, Linked
  <2>3. QED
    BY <2>1, <2>2, WithdrawMoves
<1>7. CASE IotTaskPool_CreateRecyclableJob(j)
  <2>1. /\ \/ freeList # <<>> /\ j = Head(freeList) /\ freeList' = Tail(freeList)
           \/ freeList = <<>> /\ j \notin live /\ freeList' = freeList
        /\ status'[j] = "READY" /\ \A k \in Jobs : k # j => status'[k] = status[k]
        /\ UNCHANGED <<dispatchQueue, timerEventsList>>
    BY <1>1, <1>7 DEF IotTaskPool_CreateRecyclableJob, cacheVars, timerVars, PlaceTypes
  <2>2. freeList \in Seq(RecyclableJobs) /\ IsInjective(freeList)
    BY <1>1 DEF PlaceTypes, JobPlacement
  <2>3. /\ ~Linked(freeList', j) /\ j \notin live
        /\ \A k : Linked(freeList', k) => Linked(freeList, k)
    <3>1. CASE freeList # <<>> /\ j = Head(freeList) /\ freeList' = Tail(freeList)
      BY <1>1, <2>2, <3>1, TailList DEF JobPlacement
    <3>2. CASE freeList = <<>> /\ j \notin live /\ freeList' = freeList
      BY <3>2, EmptyList
    <3>3. QED
      BY <2>1, <3>1, <3>2
  <2>4. ~Linked(dispatchQueue, j) /\ ~Linked(timerEventsList, j)
    BY <1>1, <2>3 DEF JobPlacement
  <2>5. QED
    BY <2>1, <2>3, <2>4, WithdrawMoves
<1>8. CASE IotTaskPool_RecycleJob(j) \/ IotTaskPool_DestroyRecyclableJob(j)
  <2>1. /\ AssertsLinked(j) /\ j \in RecyclableJobs
        /\ dispatchQueue' = QueueWithout(j) /\ timerEventsList' = TimersWithout(j)
        /\ status'[j] = "UNDEFINED" /\ \A k \in Jobs : k # j => status'[k] = status[k]
        /\ freeList' \in {freeList, Append(freeList, j)}
    BY <1>1, <1>8
    DEF IotTaskPool_RecycleJob, IotTaskPool_DestroyRecyclableJob, Extract, cacheVars, PlaceTypes
  <2>2. \A k : k # j => (Linked(freeList', k) => Linked(freeList, k))
    BY <1>1, <2>1, AppendList, ZenonT(40) DEF PlaceTypes
  <2>3. QED
    BY <2>1, <2>2, Extracted, WithdrawMoves
<1>9. CASE \E d \in DeferTimes : IotTaskPool_ScheduleDeferred(j, d)
  <2>1. PICK d \in DeferTimes : IotTaskPool_ScheduleDeferred(j, d)
    BY <1>9
  <2> DEFINE exp == [expiration EXCEPT ![j] = d]
             lst == InsertSorted(TimersWithout(j), j, exp)
  <2>2. /\ AssertsLinked(j) /\ j \in live /\ status[j] # "COMPLETED"
        /\ dispatchQueue' = QueueWithout(j)
        /\ timerEventsList' = lst
        /\ status' = [status EXCEPT ![j] = "DEFERRED"]
        /\ freeList' = freeList
    BY <2>1 DEF IotTaskPool_ScheduleDeferred, cacheVars
  <2>3. exp \in [Jobs -> Nat]
    BY <1>1, PoolAssumption DEF PlaceTypes
  <2>4. \A k : Linked(lst, k) <=> Linked(TimersWithout(j), k) \/ k = j
    <3> HIDE DEF exp
    <3>1. TimersWithout(j) \in Seq(Jobs)
      BY <2>2, Extracted
    <3>2. QED
      BY <2>3, <3>1, InsertSortedList
  <2> HIDE DEF lst, exp
  <2>5. status'[j] = "DEFERRED" /\ \A k \in Jobs : k # j => status'[k] = status[k]
    BY <1>1, <2>2 DEF PlaceTypes
  <2>6. ~Linked(freeList', j)
    BY <1>1, <2>2 DEF JobPlacement
  <2>7. JobPlace(j) # "started" /\ JobPlace(j)' = "deferred"
    <3>1. ~Linked(dispatchQueue', j)
      BY <2>2, Extracted
    <3>2. Linked(timerEventsList', j)
      BY <2>2, <2>4
    <3>3. QED
      BY <2>2, <3>1, <3>2 DEF JobPlace
  <2>8. Allowed(j)
    BY <2>7 DEF Allowed
  <2>9. QED
    BY <2>2, <2>4, <2>5, <2>6, <2>8, Extracted DEF Moves
<1>10. QED
  BY <1>2, <1>3, <1>4, <1>5, <1>6, <1>7, <1>8, <1>9

(* Every step concerns one job, or none, or ends the pool.                 *)
LEMMA StepMoves ==
  ASSUME PlaceInv, PlaceInv', [Next]_vars
  PROVE  (\E j \in Jobs : Moves(j)) \/ Steady \/ IotTaskPool_Destroy
<1>1. PlaceTypes /\ JobPlacement /\ EmptyUnlessOpen
  BY DEF PlaceInv
<1>2. CASE Api
  <2>1. CASE \E n \in MaxThreads : IotTaskPool_SetMaxThreads(n)
    BY <2>1 DEF IotTaskPool_SetMaxThreads, Steady, cacheVars, timerVars
  <2>2. CASE \E n \in MaxThreads : IotTaskPool_Create(n)
    BY <1>1, <2>2 DEF IotTaskPool_Create, Steady, EmptyUnlessOpen
  <2>3. QED
    BY <1>2, <2>1, <2>2, ApiMoves DEF Api
<1>3. CASE Owner \/ UNCHANGED vars
  BY <1>3 DEF Owner, CreateThread, OwnerWait, CreateDone, DestroyDone, Steady, vars,
              cacheVars, timerVars
<1>4. CASE \E t \in Threads : Worker(t)
  <2>1. PICK t \in Threads : Worker(t)
    BY <1>4
  <2>2. CASE WorkerStart(t) \/ WorkerWake(t) \/ WorkerLast(t) \/ WorkerExit(t)
    BY <2>2 DEF WorkerStart, WorkerWake, WorkerLast, WorkerExit, Steady, cacheVars, timerVars
  <2>3. CASE WorkerCheck(t) \/ WorkerNext(t)
    <3>1. UNCHANGED <<timerEventsList, freeList>>
      BY <2>3 DEF WorkerCheck, WorkerNext, cacheVars, timerVars
    <3>2. CASE UNCHANGED <<dispatchQueue, status>>
      BY <3>1, <3>2 DEF Steady
    <3>3. CASE /\ dispatchQueue # <<>> /\ dispatchQueue' = Tail(dispatchQueue)
               /\ status' = [status EXCEPT ![Head(dispatchQueue)] = "COMPLETED"]
      BY <3>1, <3>3, TakeMoves
    <3>4. QED
      BY <2>3, <3>2, <3>3 DEF WorkerCheck, WorkerNext, TakesJob
  <2>4. QED
    BY <2>1, <2>2, <2>3 DEF Worker
<1>5. CASE Tick \/ TimerFire \/ TimerThread \/ TimerDone
  BY <1>5 DEF Tick, TimerFire, TimerThread, TimerDone, Steady, cacheVars, timerVars
<1>6. CASE TimerDispatch
  <2> PICK j \in Jobs : j = Head(timerEventsList)
    BY <1>1, <1>6, TailList DEF TimerDispatch, PlaceTypes
  <2>1. /\ timerEventsList # <<>> /\ timerEventsList' = Tail(timerEventsList)
        /\ _scheduleInternal(j, "normal", dispatchQueue)
        /\ freeList' = freeList
    BY <1>6 DEF TimerDispatch, cacheVars
  <2>2. /\ timerEventsList \in Seq(Jobs) /\ IsInjective(timerEventsList)
        /\ dispatchQueue \in Seq(Jobs)
    BY <1>1 DEF PlaceTypes, JobPlacement
  <2>3. /\ j \in Jobs /\ Linked(timerEventsList, j)
        /\ \A k : Linked(timerEventsList', k) <=> Linked(timerEventsList, k) /\ k # j
    BY <2>1, <2>2, TailList
  <2>4. j \in live /\ ~Linked(dispatchQueue, j)
    BY <1>1, <2>3 DEF JobPlacement
  <2>5. JobPlace(j) # "started"
    BY <2>3 DEF JobPlace
  <2>6. Moves(j)
    BY <2>1, <2>2, <2>3, <2>4, <2>5, ScheduleMoves
  <2>7. QED
    BY <2>3, <2>6
<1>7. QED
  BY <1>2, <1>3, <1>4, <1>5, <1>6 DEF Next, TimerDaemon, Halted

LEMMA CachedNext ==
  ASSUME PlaceInv, PlaceInv', CachedUndefined, [Next]_vars
  PROVE  CachedUndefined'
<1>1. CASE \E j \in Jobs : Moves(j)
  BY <1>1 DEF Moves, CachedUndefined
<1>2. CASE Steady
  BY <1>2 DEF Steady, CachedUndefined
<1>3. CASE IotTaskPool_Destroy
  BY <1>3, EmptyList DEF IotTaskPool_Destroy, CachedUndefined
<1>4. QED
  BY <1>1, <1>2, <1>3, StepMoves

LEMMA JobContractStep ==
  ASSUME PlaceInv, PlaceInv', CachedUndefined, [Next]_vars
  PROVE  [Contract!Next]_([j \in Jobs |-> JobPlace(j)])
<1> DEFINE place == [j \in Jobs |-> JobPlace(j)]
<1>1. CASE \E j \in Jobs : Moves(j)
  <2>1. PICK j \in Jobs : Moves(j)
    BY <1>1
  <2>2. \A k \in Jobs : k # j => JobPlace(k)' = JobPlace(k)
    BY <2>1 DEF Moves, JobPlace
  <2>3. place' = [place EXCEPT ![j] = JobPlace(j)']
    BY <2>2
  <2>4. place[j] = JobPlace(j)
    OBVIOUS
  <2>5. Contract!Queue(j) \/ Contract!Defer(j) \/ Contract!Start(j) \/ Contract!Withdraw(j)
    BY <2>1, <2>3, <2>4
    DEF Moves, Allowed, Contract!Queue, Contract!Defer, Contract!Start, Contract!Withdraw
  <2>6. QED
    BY <2>5 DEF Contract!Next
<1>2. CASE Steady
  BY <1>2 DEF Steady, JobPlace
<1>3. CASE IotTaskPool_Destroy
  <2> DEFINE cleared == ToSet(dispatchQueue) \cup ToSet(timerEventsList) \cup ToSet(freeList)
  <2>1. /\ dispatchQueue' = <<>> /\ timerEventsList' = <<>>
        /\ status' = [j \in Jobs |-> IF j \in cleared THEN "UNDEFINED" ELSE status[j]]
    BY <1>3 DEF IotTaskPool_Destroy
  <2>2. \A j \in Jobs : j \in cleared <=> \/ Linked(dispatchQueue, j)
                                          \/ Linked(timerEventsList, j)
                                          \/ Linked(freeList, j)
    BY DEF Linked, ToSet
  <2> HIDE DEF cleared
  <2>3. \A j \in Jobs : JobPlace(j)' = IF JobPlace(j) \in {"deferred", "queued"}
                                       THEN "out" ELSE JobPlace(j)
    <3>1. SUFFICES ASSUME NEW j \in Jobs
                   PROVE  JobPlace(j)' = IF JobPlace(j) \in {"deferred", "queued"}
                                         THEN "out" ELSE JobPlace(j)
      OBVIOUS
    <3>2. JobPlace(j)' = IF status'[j] = "COMPLETED" THEN "started" ELSE "out"
      BY <2>1, EmptyList DEF JobPlace
    <3>3. CASE Linked(dispatchQueue, j) \/ Linked(timerEventsList, j)
      <4>1. status'[j] = "UNDEFINED"
        BY <2>1, <2>2, <3>3
      <4>2. JobPlace(j) \in {"deferred", "queued"}
        BY <3>3 DEF JobPlace
      <4>3. QED
        BY <3>2, <4>1, <4>2
    <3>4. CASE ~Linked(dispatchQueue, j) /\ ~Linked(timerEventsList, j)
      <4>1. status'[j] = status[j] \/ (status[j] = "UNDEFINED" /\ status'[j] = "UNDEFINED")
        BY <2>1, <2>2, <3>4 DEF CachedUndefined
      <4>2. JobPlace(j) = IF status[j] = "COMPLETED" THEN "started" ELSE "out"
        BY <3>4 DEF JobPlace
      <4>3. QED
        BY <3>2, <4>1, <4>2
    <3>5. QED
      BY <3>3, <3>4
  <2>4. Contract!Shutdown
    BY <2>3 DEF Contract!Shutdown
  <2>5. QED
    BY <2>4 DEF Contract!Next
<1>4. QED
  BY <1>1, <1>2, <1>3, StepMoves

(* The task pool implements JobContract, for any jobs and threads: however *)
(* calls, workers, the timer thread and destruction interleave, a job is   *)
(* started from the queue, once per acceptance, and never after it was     *)
(* withdrawn.                                                              *)
THEOREM PoolRefinement == Spec => ImplementsContract
<1>1. Init => PlaceInv /\ CachedUndefined
  BY PlaceInvInit DEF Init, CachedUndefined
<1>2. PlaceInv /\ CachedUndefined /\ [Next]_vars => PlaceInv' /\ CachedUndefined'
  BY PlaceInvNext, CachedNext
<1>3. Init => Contract!Init
  BY EmptyList DEF Init, Contract!Init, JobPlace
<1>4. PlaceInv /\ CachedUndefined /\ PlaceInv' /\ [Next]_vars
        => [Contract!Next]_([j \in Jobs |-> JobPlace(j)])
  BY JobContractStep
<1>5. QED
  BY <1>1, <1>2, <1>3, <1>4, PTL DEF Spec, ImplementsContract, Contract!Spec
=============================================================================
