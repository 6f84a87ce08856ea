--------------------------- MODULE TxThread_proofs ---------------------------
(***************************************************************************)
(* Proofs about the transmission thread.                                   *)
(*                                                                         *)
(* What an operation on the queue changes is said of parameters: the queue *)
(* q, what was written w, the live buffers lv, the lost ones lk, and what  *)
(* the pushers hold ps, so that it also holds between a push and the       *)
(* cleanup it triggers.                                                    *)
(***************************************************************************)
EXTENDS TxThread, SeqLemmas, FiniteSetTheorems, WellFoundedInduction

Messages == Buffers \cup {CANCEL}

\* No buffer is referred to twice, and one that is referred to is allocated.
Owned(q, lv, lk, ps) ==
  /\ Once(q, CANCEL)
  /\ \A b \in ToSet(q) \ {CANCEL} :
       /\ b \in lv \ lk /\ b \notin ToSet(pool) /\ b # sending
       /\ \A p \in Pushers : ps[p] # b
  /\ IsInjective(pool)
  /\ \A b \in ToSet(pool) :
       b \in lv \ lk /\ b # sending /\ \A p \in Pushers : ps[p] # b
  /\ sending # None => sending \in lv \ lk /\ \A p \in Pushers : ps[p] # sending
  /\ \A p \in Pushers :
       ps[p] # None => /\ ps[p] \in lv \ lk
                       /\ \A r \in Pushers : ps[p] = ps[r] => p = r
  /\ lk \subseteq lv

\* ... and one that is allocated is referred to.
Held(q, lv, lk, ps) ==
  \A b \in lv : \/ b \in ToSet(q) \/ b \in ToSet(pool) \/ b = sending \/ b \in lk
                \/ \E p \in Pushers : ps[p] = b

\* PDUs are written once.
Unique(w) == \A i, j \in DOMAIN w : w[i] = w[j] /\ w[i] # CANCEL => i = j

Filled(w, lv, ps) ==
  /\ \A b \in lv : pdu[b] \in PDUs
  /\ Unique(w)
  /\ \A i \in DOMAIN w : w[i] # CANCEL => w[i].id <= pdus
  /\ \A p \in Pushers :
       ps[p] # None => /\ pdu[ps[p]].id <= pdus
                       /\ \A i \in DOMAIN w : w[i] # pdu[ps[p]]
                       /\ \A r \in Pushers :
                            ps[r] # None /\ pdu[ps[p]] = pdu[ps[r]] => p = r

Written(w, x) == \E i \in DOMAIN w : w[i] = x

Before(w, x, y) == \E i, j \in DOMAIN w : i < j /\ w[i] = x /\ w[j] = y

\* What was sent, the PDU in hand and the queue are in the order of writing.
Ordered(q, w) ==
  /\ \A i \in DOMAIN q : q[i] # CANCEL => Written(w, pdu[q[i]])
  /\ \A k \in DOMAIN wire : Written(w, wire[k])
  /\ sending # None => Written(w, pdu[sending])
  /\ \A i, j \in DOMAIN q :
       i < j /\ q[i] # CANCEL /\ q[j] # CANCEL => Before(w, pdu[q[i]], pdu[q[j]])
  /\ \A k, l \in DOMAIN wire : k < l => Before(w, wire[k], wire[l])
  /\ \A k \in DOMAIN wire, i \in DOMAIN q :
       q[i] # CANCEL => Before(w, wire[k], pdu[q[i]])
  /\ sending # None =>
       /\ \A i \in DOMAIN q : q[i] # CANCEL => Before(w, pdu[sending], pdu[q[i]])
       /\ \A k \in DOMAIN wire : Before(w, wire[k], pdu[sending])

\* A PDU that was sent or may still be.
Here(q, x) ==
  \/ \E k \in DOMAIN wire : wire[k] = x
  \/ sending # None /\ pdu[sending] = x
  \/ \E i \in DOMAIN q : q[i] # CANCEL /\ pdu[q[i]] = x

\* A source info after the j-th message, before the next critical one.
Revoked(w, j) ==
  \E l \in DOMAIN w : /\ j < l /\ IsSourceInfo(w[l])
                      /\ \A i \in j..l : ~IsCritical(w[i])

\* Something will still be sent.
Sends == tx # "finished" /\ (thread_cancelled => tx = "chunk")

Complete(q, w, lk) ==
  Sends =>
    /\ \A i \in DOMAIN w : IsCritical(w[i]) => Here(q, w[i])
    /\ lk = {} => \A i \in DOMAIN w : IsSourceInfo(w[i]) => Here(q, w[i]) \/ Revoked(w, i)

Queued(q, w, lv, lk, ps) ==
  Owned(q, lv, lk, ps) /\ Filled(w, lv, ps) /\ Ordered(q, w) /\ Complete(q, w, lk)

StopInv == owner \in {"closed", "consume", "gone"} => tx = "finished"

SentInv == CriticalInOrder /\ SourceInfoFresh

Inv ==
  /\ TypeOK /\ StopInv
  /\ Queued(queue, written, live, leaked, pushing) /\ Held(queue, live, leaked, pushing)
  /\ SentInv

-----------------------------------------------------------------------------
(***************************************************************************)
(* The cleanup.                                                            *)
(***************************************************************************)
\* CANCEL and None are neither buffers nor PDUs.
LEMMA ConstantFacts ==
  /\ CANCEL \notin Buffers /\ CANCEL \notin PDUs
  /\ None \notin Buffers /\ None \notin PDUs /\ None \notin Messages
  /\ Buffers \subseteq Messages /\ CANCEL \in Messages
  BY TxThreadAssumption DEF Messages

\* r is the queue q without the messages of a set, the others in their order.
Thinned(q, r, gone) ==
  /\ r \in Seq(Messages) /\ Once(r, CANCEL)
  /\ \A x : x \in ToSet(r) <=> x \in ToSet(q) /\ x \notin gone
  /\ \A i, j \in DOMAIN r :
       i < j /\ r[i] # CANCEL /\ r[j] # CANCEL =>
         \E a, b \in DOMAIN q : a < b /\ q[a] = r[i] /\ q[b] = r[j]

\* Only discardable PDUs are thrown away, and source infos, each of which is
\* revoked by one that stays, unless that one is lost.
Spares(q, gone, lost) ==
  \A i \in DOMAIN q :
    q[i] \in gone =>
      /\ q[i] # CANCEL
      /\ \/ HasKind(q[i], "discardable")
         \/ /\ HasKind(q[i], "source_info")
            /\ \/ lost
               \/ \E j \in DOMAIN q :
                    /\ i < j /\ q[j] \notin gone /\ HasKind(q[j], "source_info")
                    /\ \A l \in i..j : ~HasKind(q[l], "critical")

\* The messages that the walk leaves are the others, in their order.
LEMMA LeftFacts ==
  ASSUME NEW q \in Seq(Messages), Once(q, CANCEL), NEW r \in Left(q)
  PROVE  Thinned(q, r, try_destroy(q))
<1> DEFINE K == Kept(q)
<1>1. PICK at \in Walks(K) : r = [i \in DOMAIN at |-> q[at[i]]]
  BY DEF Left
<1>2. /\ K \subseteq 1..Len(q) /\ Len(q) \in Nat /\ DOMAIN q = 1..Len(q)
      /\ \A i \in 1..Len(q) : i \in K <=> q[i] \notin try_destroy(q)
      /\ \A i \in 1..Len(q) : q[i] \in Messages
  BY DEF Kept
<1>3. IsFiniteSet(K)
  <2>1. IsFiniteSet(1..Len(q))
    BY <1>2, FS_Interval
  <2> QED
    BY <2>1, <1>2, FS_Subset
<1>4. Cardinality(K) \in Nat
  BY <1>3, FS_CardinalityType
<1> DEFINE n == Cardinality(K)
<1> HIDE DEF K, n
<1>5. /\ at \in [1..n -> K]
      /\ \A k \in K : \E i \in 1..n : at[i] = k
      /\ \A i, j \in 1..n : i < j => at[i] < at[j]
  <2>1. at \in [1..n -> K] /\ Range(at) = K
        /\ \A i, j \in DOMAIN at : i < j => at[i] < at[j]
    BY DEF Walks, n
  <2>2. DOMAIN at = 1..n
    BY <2>1
  <2>3. \A k \in K : \E i \in 1..n : at[i] = k
    BY <2>1, <2>2 DEF Range
  <2> QED
    BY <2>1, <2>2, <2>3
<1>6. /\ n \in Nat /\ r \in Seq(Messages) /\ Len(r) = n /\ DOMAIN r = 1..n
      /\ \A i \in 1..n : r[i] = q[at[i]] /\ at[i] \in K /\ at[i] \in 1..Len(q)
  <2>1. n \in Nat
    BY <1>4 DEF n
  <2>2. r = [i \in 1..n |-> q[at[i]]]
    BY <1>1, <1>5
  <2>3. \A i \in 1..n : at[i] \in K /\ at[i] \in 1..Len(q)
    BY <1>2, <1>5
  <2>4. \A i \in 1..n : q[at[i]] \in Messages
    BY <2>3, <1>2
  <2>5. r \in Seq(Messages) /\ Len(r) = n
    BY <2>1, <2>2, <2>4
  <2> QED
    BY <2>1, <2>2, <2>3, <2>5
<1>7. Once(r, CANCEL)
  <2> SUFFICES ASSUME NEW i \in 1..n, NEW j \in 1..n, r[i] = r[j], r[i] # CANCEL
               PROVE  i = j
    BY <1>6 DEF Once
  <2>1. at[i] = at[j]
    BY <1>6 DEF Once
  <2>2. ~(i < j) /\ ~(j < i)
    BY <2>1, <1>2, <1>5, <1>6
  <2> QED
    BY <2>2, <1>6
<1>8. ASSUME NEW x
      PROVE  x \in ToSet(r) <=> x \in ToSet(q) /\ x \notin try_destroy(q)
  <2>1. x \in ToSet(r) <=> \E i \in 1..n : r[i] = x
    BY <1>6, ToSetFacts
  <2>2. x \in ToSet(q) <=> \E i \in 1..Len(q) : q[i] = x
    BY ToSetFacts
  <2> QED
    BY <2>1, <2>2, <1>2, <1>5, <1>6
<1>9. \A i, j \in DOMAIN r :
        i < j => \E a, b \in DOMAIN q : a < b /\ q[a] = r[i] /\ q[b] = r[j]
  BY <1>2, <1>5, <1>6
<1> QED
  BY <1>6, <1>7, <1>8, <1>9 DEF Thinned

\* A set of natural numbers that is not empty and has a bound has a maximum.
LEMMA Greatest ==
  ASSUME NEW n \in Nat, NEW T \in SUBSET (1..n), T # {}
  PROVE  \E h \in T : \A j \in T : j <= h
<1> DEFINE D == {n - i : i \in T}
<1>1. D \subseteq Nat /\ D # {}
  <2>1. \A i \in T : n - i \in Nat
    OBVIOUS
  <2> QED
    BY <2>1
<1>2. IsWellFoundedOn(OpToRel(<,Nat), Nat)
  BY NatLessThanWellFounded
<1>3. PICK d \in D : \A e \in D : ~(<<e, d>> \in OpToRel(<,Nat))
  <2> HIDE DEF D
  <2> QED
    BY <1>1, <1>2, WFMin
<1>4. \A e \in D : ~(e < d)
  BY <1>1, <1>3 DEF OpToRel
<1>5. PICK h \in T : d = n - h
  BY <1>3
<1>6. ASSUME NEW j \in T
      PROVE  j <= h
  <2>1. n - j \in D
    OBVIOUS
  <2> QED
    BY <2>1, <1>4, <1>5
<1> QED
  BY <1>6

\* The source info that is saved is the last one in front of the first
\* critical message.
LEMMA HeadInfoFacts ==
  ASSUME NEW q \in Seq(Messages)
  PROVE  /\ HeadInfos(q) = {} <=> head_source_info(q) = {}
         /\ head_source_info(q) \subseteq try_destroy(q)
         /\ try_destroy(q) \subseteq ToSet(q) \ {CANCEL}
         /\ \A m \in head_source_info(q) :
              /\ head_source_info(q) = {m}
              /\ \E h \in HeadInfos(q) : m = q[h] /\ \A j \in HeadInfos(q) : j <= h
<1> DEFINE I == HeadInfos(q)
<1>1. /\ DOMAIN q = 1..Len(q) /\ Len(q) \in Nat
      /\ \A e : e \in ToSet(q) <=> \E i \in 1..Len(q) : q[i] = e
  BY ToSetFacts
<1>2. I \subseteq 1..Len(q)
  BY <1>1 DEF HeadInfos
<1>3. \A i \in I : q[i] # CANCEL
  BY DEF HeadInfos, HasKind
<1> HIDE DEF I
<1>4. I # {} => \E h \in I : \A j \in I : j <= h
  BY <1>1, <1>2, Greatest
<1>5. head_source_info(q) = {q[i] : i \in {h \in I : \A j \in I : j <= h}}
  BY DEF head_source_info, I
<1>6. I = {} <=> head_source_info(q) = {}
  BY <1>4, <1>5
<1>7. try_destroy(q) = {q[i] : i \in I} \cup {m \in ToSet(q) : HasKind(m, "discardable")}
  BY DEF try_destroy, I
<1>8. head_source_info(q) \subseteq try_destroy(q)
  BY <1>5, <1>7
<1>9. try_destroy(q) \subseteq ToSet(q) \ {CANCEL}
  BY <1>1, <1>2, <1>3, <1>7 DEF HasKind
<1>10. ASSUME NEW m \in head_source_info(q)
       PROVE  /\ head_source_info(q) = {m}
              /\ \E h \in I : m = q[h] /\ \A j \in I : j <= h
  <2>1. PICK h \in I : m = q[h] /\ \A j \in I : j <= h
    BY <1>5, <1>10
  <2>2. \A i \in I : (\A j \in I : j <= i) => i = h
    BY <2>1, <1>1, <1>2
  <2> QED
    BY <2>1, <2>2, <1>5, <1>10
<1> QED
  BY <1>6, <1>8, <1>9, <1>10 DEF I

\* Only buffers with a PDU are in the queue.
Kinded(q) == \A i \in DOMAIN q : q[i] # CANCEL => pdu[q[i]] \in PDUs

\* The walk throws discardable PDUs and revoked source infos away, and with
\* the last of those it can lose a source info that none revokes.
LEMMA DestroySpares ==
  ASSUME NEW q \in Seq(Messages), Once(q, CANCEL)
  PROVE  /\ Spares(q, try_destroy(q), TRUE)
         /\ Spares(q, try_destroy(q) \ head_source_info(q), FALSE)
<1> DEFINE I == HeadInfos(q)
           H == head_source_info(q)
<1>1. /\ DOMAIN q = 1..Len(q) /\ Len(q) \in Nat
      /\ \A i, j \in 1..Len(q) : q[i] = q[j] => i = j \/ q[i] = CANCEL
  BY DEF Once
<1>2. ASSUME NEW i \in 1..Len(q), q[i] \in try_destroy(q)
      PROVE  /\ q[i] # CANCEL
             /\ HasKind(q[i], "discardable") \/ i \in I
             /\ i \in I => HasKind(q[i], "source_info")
  <2>1. q[i] # CANCEL /\ (HasKind(q[i], "discardable") \/ \E j \in I : q[i] = q[j])
    BY <1>2, HeadInfoFacts DEF try_destroy
  <2>2. I \subseteq 1..Len(q)
    BY DEF HeadInfos
  <2>3. i \in I => HasKind(q[i], "source_info")
    BY DEF HeadInfos
  <2> QED
    BY <2>1, <2>2, <2>3, <1>1
<1>3. ASSUME NEW i \in 1..Len(q), i \in I, q[i] \notin H
      PROVE  \E j \in DOMAIN q :
               /\ i < j /\ q[j] \in H /\ HasKind(q[j], "source_info")
               /\ \A l \in i..j : ~HasKind(q[l], "critical")
  <2>1. PICK m : m \in H
    BY <1>3, HeadInfoFacts
  <2>2. PICK h \in I : m = q[h] /\ \A j \in I : j <= h
    BY <2>1, HeadInfoFacts
  <2>3. h \in 1..Len(q) /\ HasKind(q[h], "source_info")
        /\ \A j \in 1..(h - 1) : ~HasKind(q[j], "critical")
    BY DEF HeadInfos
  <2>4. i < h
    BY <1>1, <1>3, <2>1, <2>2, <2>3
  <2>5. \A l \in i..h : l = h \/ l \in 1..(h - 1)
    BY <1>1, <2>3
  <2>6. \A l \in i..h : ~HasKind(q[l], "critical")
    BY <2>3, <2>5 DEF HasKind
  <2> QED
    BY <2>1, <2>2, <2>3, <2>4, <2>6, <1>1
<1>4. Spares(q, try_destroy(q), TRUE)
  BY <1>1, <1>2 DEF Spares
<1>5. Spares(q, try_destroy(q) \ H, FALSE)
  BY <1>1, <1>2, <1>3 DEF Spares
<1> QED
  BY <1>4, <1>5

\* What a cleanup leaves is in order too: nothing that stays was in front of
\* the source info that is pushed to the front, but CANCELs.
LEMMA CleanedFacts ==
  ASSUME NEW q \in Seq(Messages), Once(q, CANCEL), Kinded(q), NEW r \in Cleaned(q)
  PROVE  Thinned(q, r, try_destroy(q) \ head_source_info(q))
<1> DEFINE D == try_destroy(q)
           H == head_source_info(q)
<1>1. CASE H = {}
  <2>1. r \in Left(q)
    BY <1>1 DEF Cleaned
  <2>2. D \ H = D
    BY <1>1
  <2> QED
    BY <2>1, <2>2, LeftFacts
<1>2. CASE H # {}
  <2> DEFINE m == CHOOSE x \in H : TRUE
  <2>0. m \in H
    BY <1>2
  <2>1. PICK s \in Left(q) : r = Cons(m, s)
    BY <1>2 DEF Cleaned
  <2> HIDE DEF m
  <2>2. Thinned(q, s, D)
    BY LeftFacts
  <2>3. PICK h \in HeadInfos(q) : m = q[h] /\ \A j \in HeadInfos(q) : j <= h
    BY <2>0, HeadInfoFacts
  <2>4. H = {m} /\ m \in D /\ m \in ToSet(q) /\ m # CANCEL /\ m \in Messages
    BY <2>0, HeadInfoFacts, ToSetFacts
  <2>5. /\ h \in 1..Len(q) /\ Len(q) \in Nat /\ DOMAIN q = 1..Len(q)
        /\ \A j \in 1..(h - 1) : ~HasKind(q[j], "critical")
        /\ \A e : e \in ToSet(q) <=> \E i \in 1..Len(q) : q[i] = e
    BY ToSetFacts DEF HeadInfos
  <2>6. s \in Seq(Messages) /\ m \notin ToSet(s)
        /\ \A e : e \in ToSet(s) <=> \E i \in 1..Len(s) : s[i] = e
    BY <2>2, <2>4, ToSetFacts DEF Thinned
  <2>7. /\ r \in Seq(Messages) /\ Len(r) = Len(s) + 1 /\ Len(s) \in Nat /\ r[1] = m
        /\ \A j \in 2..(Len(s) + 1) : r[j] = s[j - 1]
    <3>1. r = Cons(m, s)
      BY <2>1
    <3>2. /\ Cons(m, s) \in Seq(Messages) /\ Len(Cons(m, s)) = Len(s) + 1
          /\ Cons(m, s)[1] = m
          /\ \A j \in 2..(Len(s) + 1) : Cons(m, s)[j] = s[j - 1]
      BY <2>4, <2>6, ConsFacts
    <3>3. Len(s) \in Nat
      BY <2>6
    <3> QED
      BY ONLY <3>1, <3>2, <3>3
  <2>8. ToSet(r) = ToSet(s) \cup {m}
    <3>1. r = Cons(m, s)
      BY <2>1
    <3> QED
      BY <3>1, <2>4, <2>6, ToSetAfter
  <2>9. Once(r, CANCEL)
    <3>1. \A i \in 2..(Len(s) + 1) : i - 1 \in 1..Len(s)
      BY <2>7
    <3>2. \A i, j \in 1..Len(s) : s[i] = s[j] => i = j \/ s[i] = CANCEL
      BY <2>2 DEF Thinned, Once
    <3>3. \A i \in 1..Len(r) : i = 1 \/ i \in 2..(Len(s) + 1)
      BY <2>7
    <3>4. \A i \in 2..(Len(s) + 1) : r[i] # m
      BY <2>6, <2>7, <3>1
    <3>5. ASSUME NEW i \in 1..Len(r), NEW j \in 1..Len(r), r[i] = r[j], r[i] # CANCEL
          PROVE  i = j
      <4>1. (i = 1 /\ j = 1) \/ (i \in 2..(Len(s) + 1) /\ j \in 2..(Len(s) + 1))
        BY <3>3, <3>4, <3>5, <2>7
      <4>2. CASE i \in 2..(Len(s) + 1) /\ j \in 2..(Len(s) + 1)
        <5>1. s[i - 1] = s[j - 1] /\ s[i - 1] # CANCEL
          BY <4>2, <3>5, <2>7
        <5>2. i - 1 = j - 1
          BY <4>2, <5>1, <3>1, <3>2
        <5> QED
          BY <4>2, <5>2
      <4> QED
        BY <4>1, <4>2
    <3> QED
      BY <3>5 DEF Once
  <2>10. \A x : x \in ToSet(r) <=> x \in ToSet(q) /\ x \notin D \ H
    BY <2>2, <2>4, <2>8 DEF Thinned
  <2>11. ASSUME NEW b \in 1..Len(q), q[b] # CANCEL, q[b] \notin D
         PROVE  h < b
    <3>1. b # h
      BY <2>3, <2>4, <2>11
    <3>2. ASSUME b < h
          PROVE  FALSE
      <4>1. b \in 1..(h - 1) /\ ~HasKind(q[b], "critical")
        BY <2>5, <3>2
      <4>2. ~HasKind(q[b], "discardable")
        BY <2>5, <2>11 DEF try_destroy
      <4>3. HasKind(q[b], "source_info")
        <5>1. pdu[q[b]].kind \in Kinds
          BY <2>5, <2>11 DEF Kinded, PDUs
        <5> QED
          BY <5>1, <4>1, <4>2, <2>11 DEF HasKind, Kinds
      <4>4. \A j \in 1..(b - 1) : j \in 1..(h - 1)
        BY <2>5, <3>2
      <4>5. b \in HeadInfos(q)
        BY <2>5, <4>3, <4>4 DEF HeadInfos
      <4> QED
        BY <4>5, <2>11 DEF try_destroy
    <3> QED
      BY <2>5, <3>1, <3>2
  <2>12. ASSUME NEW i \in DOMAIN r, NEW j \in DOMAIN r, i < j,
                r[i] # CANCEL, r[j] # CANCEL
         PROVE  \E a, b \in DOMAIN q : a < b /\ q[a] = r[i] /\ q[b] = r[j]
    <3>1. j \in 2..(Len(s) + 1) /\ j - 1 \in DOMAIN s /\ DOMAIN s = 1..Len(s)
          /\ r[j] = s[j - 1]
      BY <2>6, <2>7, <2>12
    <3>2. CASE i = 1
      <4>1. r[j] \in ToSet(s)
        BY <3>1, <2>6
      <4>2. r[j] \in ToSet(q) /\ r[j] \notin D
        BY <4>1, <2>2 DEF Thinned
      <4>3. PICK b \in 1..Len(q) : q[b] = r[j]
        BY <4>2, <2>5
      <4> QED
        BY <4>2, <4>3, <2>3, <2>5, <2>7, <2>11, <2>12, <3>2
    <3>3. CASE i # 1
      <4>1. i - 1 \in DOMAIN s /\ r[i] = s[i - 1] /\ i - 1 < j - 1
        <5>1. DOMAIN r = 1..(Len(s) + 1)
          BY <2>7
        <5>2. i \in 2..(Len(s) + 1) /\ j \in 2..(Len(s) + 1) /\ Len(s) \in Nat
          BY <5>1, <3>3, <2>7, <2>12
        <5>3. i - 1 \in 1..Len(s) /\ i - 1 < j - 1
          BY <5>2, <2>12
        <5> QED
          BY <5>2, <5>3, <3>1, <2>7
      <4> QED
        BY <4>1, <3>1, <2>2, <2>12 DEF Thinned
    <3> QED
      BY <3>2, <3>3
  <2> QED
    BY <2>7, <2>9, <2>10, <2>12 DEF Thinned
<1> QED
  BY <1>1, <1>2

-----------------------------------------------------------------------------
(***************************************************************************)
(* What a cleanup keeps of the invariant.                                  *)
(***************************************************************************)
\* The order of writing, as long as PDUs are written once.
LEMMA BeforeFacts ==
  ASSUME NEW w \in Seq(PDUs \cup {CANCEL}), Unique(w)
  PROVE  /\ \A i, j \in DOMAIN w : w[i] # CANCEL /\ w[j] # CANCEL =>
              (Before(w, w[i], w[j]) <=> i < j)
         /\ \A x : x # CANCEL => ~Before(w, x, x)
<1>1. DOMAIN w = 1..Len(w) /\ Len(w) \in Nat
  OBVIOUS
<1>2. \A i, j \in DOMAIN w : w[i] = w[j] /\ w[i] # CANCEL => i = j
  BY DEF Unique
<1>3. \A i, j \in DOMAIN w : w[i] # CANCEL /\ w[j] # CANCEL =>
        (Before(w, w[i], w[j]) <=> i < j)
  BY <1>2 DEF Before
<1>4. \A x : x # CANCEL => ~Before(w, x, x)
  BY <1>1, <1>2 DEF Before
<1> QED
  BY <1>3, <1>4

\* A cleanup frees what it throws away, but for what is lost.
LEMMA ThinnedOwned ==
  ASSUME NEW q \in Seq(Messages), NEW lv, NEW lk, NEW ps, NEW r,
         NEW gone, NEW freed \in SUBSET gone, gone \subseteq ToSet(q) \ {CANCEL},
         Owned(q, lv, lk, ps), Held(q, lv, lk, ps), Thinned(q, r, gone)
  PROVE  /\ Owned(r, lv \ freed, lk \cup (gone \ freed), ps)
         /\ Held(r, lv \ freed, lk \cup (gone \ freed), ps)
<1>1. /\ Once(r, CANCEL)
      /\ \A x : x \in ToSet(r) <=> x \in ToSet(q) /\ x \notin gone
  BY DEF Thinned
<1>2. \A x \in gone : x \in ToSet(q) \ {CANCEL} /\ x \in lv \ lk
  BY DEF Owned
<1>3. Held(r, lv \ freed, lk \cup (gone \ freed), ps)
  BY <1>1, <1>2 DEF Held
<1>4. \A b \in ToSet(r) \ {CANCEL} :
        /\ b \in (lv \ freed) \ (lk \cup (gone \ freed))
        /\ b \notin ToSet(pool) /\ b # sending
        /\ \A p \in Pushers : ps[p] # b
  BY <1>1 DEF Owned
<1>5. \A b : b \in lv \ lk /\ b \notin gone =>
               b \in (lv \ freed) \ (lk \cup (gone \ freed))
  OBVIOUS
<1>6. \A b \in ToSet(pool) :
        /\ b \in (lv \ freed) \ (lk \cup (gone \ freed)) /\ b # sending
        /\ \A p \in Pushers : ps[p] # b
  BY <1>2, <1>5 DEF Owned
<1>7. sending # None => /\ sending \in (lv \ freed) \ (lk \cup (gone \ freed))
                        /\ \A p \in Pushers : ps[p] # sending
  BY <1>2, <1>5 DEF Owned
<1>8. \A p \in Pushers :
        ps[p] # None => /\ ps[p] \in (lv \ freed) \ (lk \cup (gone \ freed))
                        /\ \A s \in Pushers : ps[p] = ps[s] => p = s
  BY <1>2, <1>5 DEF Owned
<1>9. lk \cup (gone \ freed) \subseteq lv \ freed
  BY <1>2 DEF Owned
<1>10. IsInjective(pool)
  BY DEF Owned
<1> QED
  BY <1>1, <1>3, <1>4, <1>6, <1>7, <1>8, <1>9, <1>10 DEF Owned

\* What is left is in the order of writing.
LEMMA ThinnedOrdered ==
  ASSUME NEW q \in Seq(Messages), NEW w, NEW r, NEW gone,
         Ordered(q, w), Thinned(q, r, gone)
  PROVE  Ordered(r, w)
<1>1. /\ DOMAIN q = 1..Len(q) /\ DOMAIN r = 1..Len(r) /\ r \in Seq(Messages)
      /\ \A i \in DOMAIN r : \E a \in DOMAIN q : q[a] = r[i]
  <2>1. r \in Seq(Messages) /\ \A x : x \in ToSet(r) => x \in ToSet(q)
    BY DEF Thinned
  <2>2. /\ DOMAIN r = 1..Len(r)
        /\ \A e : e \in ToSet(r) <=> \E i \in 1..Len(r) : r[i] = e
    BY <2>1, ToSetFacts
  <2>3. /\ DOMAIN q = 1..Len(q)
        /\ \A e : e \in ToSet(q) <=> \E i \in 1..Len(q) : q[i] = e
    BY ToSetFacts
  <2> QED
    BY <2>1, <2>2, <2>3
<1>2. \A i, j \in DOMAIN r :
        i < j /\ r[i] # CANCEL /\ r[j] # CANCEL =>
          \E a, b \in DOMAIN q : a < b /\ q[a] = r[i] /\ q[b] = r[j]
  BY DEF Thinned
<1>3. \A i, j \in DOMAIN r :
        i < j /\ r[i] # CANCEL /\ r[j] # CANCEL => Before(w, pdu[r[i]], pdu[r[j]])
  <2>1. \A a, b \in DOMAIN q :
          a < b /\ q[a] # CANCEL /\ q[b] # CANCEL => Before(w, pdu[q[a]], pdu[q[b]])
    BY DEF Ordered
  <2> QED
    BY <1>2, <2>1
<1>4. \A i \in DOMAIN r : r[i] # CANCEL => Written(w, pdu[r[i]])
  BY <1>1 DEF Ordered
<1>5. \A k \in DOMAIN wire, i \in DOMAIN r :
        r[i] # CANCEL => Before(w, wire[k], pdu[r[i]])
  BY <1>1 DEF Ordered
<1>6. sending # None =>
        \A i \in DOMAIN r : r[i] # CANCEL => Before(w, pdu[sending], pdu[r[i]])
  BY <1>1 DEF Ordered
<1> QED
  BY <1>3, <1>4, <1>5, <1>6 DEF Ordered

\* Nothing that had to be sent is missing.
LEMMA ThinnedComplete ==
  ASSUME NEW q \in Seq(Messages), NEW w \in Seq(PDUs \cup {CANCEL}), Unique(w),
         NEW r, NEW gone, NEW lost \in BOOLEAN, NEW lk, NEW lk2, lk \subseteq lk2,
         lost => lk2 # {}, CANCEL \notin PDUs,
         Ordered(q, w), Complete(q, w, lk), Kinded(q), Thinned(q, r, gone),
         Spares(q, gone, lost)
  PROVE  Complete(r, w, lk2)
<1> SUFFICES ASSUME Sends PROVE  
      /\ \A i \in DOMAIN w : IsCritical(w[i]) => Here(r, w[i])
      /\ lk2 = {} => \A i \in DOMAIN w :
                       IsSourceInfo(w[i]) => Here(r, w[i]) \/ Revoked(w, i)
  BY DEF Complete
<1>1. /\ \A i \in DOMAIN w : IsCritical(w[i]) => Here(q, w[i])
      /\ lk = {} => \A i \in DOMAIN w :
                      IsSourceInfo(w[i]) => Here(q, w[i]) \/ Revoked(w, i)
  BY DEF Complete
<1>2. /\ DOMAIN q = 1..Len(q) /\ DOMAIN r = 1..Len(r) /\ DOMAIN w = 1..Len(w)
      /\ Len(w) \in Nat /\ Len(q) \in Nat
      /\ \A i \in DOMAIN q : q[i] \notin gone => \E j \in DOMAIN r : r[j] = q[i]
  BY ToSetFacts DEF Thinned
<1>3. \A i \in DOMAIN q : q[i] # CANCEL =>
        /\ HasKind(q[i], "critical") <=> IsCritical(pdu[q[i]])
        /\ HasKind(q[i], "source_info") <=> IsSourceInfo(pdu[q[i]])
        /\ HasKind(q[i], "discardable") => ~IsCritical(pdu[q[i]]) /\ ~IsSourceInfo(pdu[q[i]])
  BY DEF Kinded, HasKind, IsCritical, IsSourceInfo
<1>4. ASSUME NEW x, Here(q, x), ~Here(r, x)
      PROVE  \E i \in DOMAIN q : q[i] \in gone /\ q[i] # CANCEL /\ pdu[q[i]] = x
  <2>1. PICK i \in DOMAIN q : q[i] # CANCEL /\ pdu[q[i]] = x
    BY <1>4 DEF Here
  <2>2. q[i] \in gone
    BY <2>1, <1>2, <1>4 DEF Here
  <2> QED
    BY <2>1, <2>2
<1>5. ASSUME NEW i \in DOMAIN w, IsCritical(w[i])
      PROVE  Here(r, w[i])
  <2> SUFFICES ASSUME ~Here(r, w[i]) PROVE FALSE
    OBVIOUS
  <2>1. PICK a \in DOMAIN q : q[a] \in gone /\ q[a] # CANCEL /\ pdu[q[a]] = w[i]
    BY <1>1, <1>4, <1>5
  <2>2. HasKind(q[a], "critical")
    BY <2>1, <1>3, <1>5
  <2> QED
    BY <2>1, <2>2 DEF Spares, HasKind
<1>6. ASSUME lk2 = {}, NEW i \in DOMAIN w, IsSourceInfo(w[i]), ~Here(r, w[i])
      PROVE  Revoked(w, i)
  <2>1. Here(q, w[i]) \/ Revoked(w, i)
    BY <1>1, <1>6
  <2> SUFFICES ASSUME Here(q, w[i]) PROVE Revoked(w, i)
    BY <2>1
  <2>2. PICK a \in DOMAIN q : q[a] \in gone /\ q[a] # CANCEL /\ pdu[q[a]] = w[i]
    BY <1>4, <1>6
  <2>3. HasKind(q[a], "source_info")
    BY <2>2, <1>3, <1>6
  <2>4. PICK b \in DOMAIN q :
          /\ a < b /\ q[b] \notin gone /\ HasKind(q[b], "source_info")
          /\ \A l \in a..b : ~HasKind(q[l], "critical")
    BY <2>2, <2>3, <1>6 DEF Spares, HasKind
  <2>5. q[b] # CANCEL /\ IsSourceInfo(pdu[q[b]])
    BY <2>4, <1>3 DEF HasKind
  <2>6. PICK l \in DOMAIN w : w[l] = pdu[q[b]]
    BY <2>5 DEF Ordered, Written
  <2>7. Before(w, w[i], w[l])
    BY <2>2, <2>4, <2>5, <2>6 DEF Ordered
  <2>8. w[i] # CANCEL /\ w[l] # CANCEL /\ i < l
    BY <2>5, <2>6, <2>7, <1>6, BeforeFacts DEF IsSourceInfo
  <2>9. ASSUME NEW m \in i..l, IsCritical(w[m])
        PROVE  FALSE
    <3>1. m \in DOMAIN w /\ i <= m /\ m <= l /\ w[m] # CANCEL
      BY <2>9, <1>2 DEF IsCritical
    <3>2. m # i /\ m # l
      BY <2>5, <2>6, <2>9, <1>6 DEF IsCritical, IsSourceInfo
    <3>3. ~Before(w, w[m], w[i]) /\ ~Before(w, w[l], w[m])
      <4>1. ~(m < i) /\ ~(l < m)
        BY <3>1, <1>2
      <4> QED
        BY <4>1, <3>1, <2>8, BeforeFacts
    <3>4. Here(q, w[m])
      BY <1>1, <2>9, <3>1
    <3>5. CASE \E k \in DOMAIN wire : wire[k] = w[m]
      BY <3>5, <3>3, <2>2 DEF Ordered
    <3>6. CASE sending # None /\ pdu[sending] = w[m]
      BY <3>6, <3>3, <2>2 DEF Ordered
    <3>7. CASE \E c \in DOMAIN q : q[c] # CANCEL /\ pdu[q[c]] = w[m]
      <4>1. PICK c \in DOMAIN q : q[c] # CANCEL /\ pdu[q[c]] = w[m]
        BY <3>7
      <4>2. ~(c < a) /\ ~(b < c)
        BY <4>1, <3>3, <2>2, <2>5, <2>6 DEF Ordered
      <4>3. c \in a..b
        BY <4>2, <1>2
      <4>4. ~IsCritical(pdu[q[c]])
        BY <4>1, <4>3, <2>4, <1>3
      <4> QED
        BY <4>1, <4>4, <2>9
    <3> QED
      BY <3>4, <3>5, <3>6, <3>7 DEF Here
  <2> QED
    BY <2>5, <2>6, <2>8, <2>9 DEF Revoked
<1> QED
  BY <1>5, <1>6

-----------------------------------------------------------------------------
(***************************************************************************)
(* What a push keeps of it.                                                *)
(***************************************************************************)
\* What was written stays written when more is.
LEMMA WrittenFacts ==
  ASSUME NEW w \in Seq(PDUs \cup {CANCEL}), NEW x \in PDUs \cup {CANCEL}
  PROVE  LET w2 == Append(w, x)
         IN /\ w2 \in Seq(PDUs \cup {CANCEL}) /\ Len(w2) = Len(w) + 1
            /\ w2[Len(w) + 1] = x /\ \A i \in 1..Len(w) : w2[i] = w[i]
            /\ DOMAIN w = 1..Len(w) /\ DOMAIN w2 = 1..(Len(w) + 1) /\ Len(w) \in Nat
            /\ Written(w2, x)
            /\ \A y : Written(w, y) => Written(w2, y) /\ Before(w2, y, x)
            /\ \A y, z : Before(w, y, z) => Before(w2, y, z)
<1> DEFINE w2 == Append(w, x)
<1>1. /\ w2 \in Seq(PDUs \cup {CANCEL}) /\ Len(w2) = Len(w) + 1
      /\ w2[Len(w) + 1] = x /\ \A i \in 1..Len(w) : w2[i] = w[i]
      /\ DOMAIN w = 1..Len(w) /\ DOMAIN w2 = 1..(Len(w) + 1) /\ Len(w) \in Nat
  BY AppendFacts
<1> HIDE DEF w2
<1>2. Len(w) + 1 \in DOMAIN w2 /\ \A i \in DOMAIN w : i \in DOMAIN w2 /\ i < Len(w) + 1
  BY <1>1
<1>3. Written(w2, x)
  BY <1>1, <1>2 DEF Written
<1>4. \A y : Written(w, y) => Written(w2, y) /\ Before(w2, y, x)
  BY <1>1, <1>2 DEF Written, Before
<1>5. \A y, z : Before(w, y, z) => Before(w2, y, z)
  BY <1>1, <1>2 DEF Before
<1> QED
  BY <1>1, <1>3, <1>4, <1>5 DEF w2

\* The new message is the last one written and the last of the queue.
LEMMA AppendOrdered ==
  ASSUME NEW q \in Seq(Messages), NEW w \in Seq(PDUs \cup {CANCEL}),
         NEW m \in Messages, NEW x \in PDUs \cup {CANCEL}, m # CANCEL => x = pdu[m],
         Ordered(q, w)
  PROVE  Ordered(Append(q, m), Append(w, x))
<1> DEFINE w2 == Append(w, x)
           r == Append(q, m)
<1>1. /\ Written(w2, x)
      /\ \A y : Written(w, y) => Written(w2, y) /\ Before(w2, y, x)
      /\ \A y, z : Before(w, y, z) => Before(w2, y, z)
  BY WrittenFacts
<1>2. /\ Len(r) = Len(q) + 1 /\ Len(q) \in Nat /\ r[Len(q) + 1] = m
      /\ \A i \in 1..Len(q) : r[i] = q[i]
      /\ DOMAIN r = 1..Len(r) /\ DOMAIN q = 1..Len(q)
  BY AppendFacts
<1> HIDE DEF w2, r
<1>3. \A i \in DOMAIN r :
        \/ i = Len(q) + 1 /\ r[i] = m
        \/ i \in DOMAIN q /\ r[i] = q[i]
  <2>1. \A i \in DOMAIN r : i = Len(q) + 1 \/ i \in DOMAIN q
    BY <1>2
  <2> QED
    BY <2>1, <1>2
<1>4. /\ \A i \in DOMAIN q : q[i] # CANCEL => Written(w, pdu[q[i]])
      /\ \A k \in DOMAIN wire : Written(w, wire[k])
      /\ sending # None => Written(w, pdu[sending])
  BY DEF Ordered
<1>5. ASSUME NEW i \in DOMAIN r, r[i] # CANCEL
      PROVE  /\ Written(w2, pdu[r[i]])
             /\ \A k \in DOMAIN wire : Before(w2, wire[k], pdu[r[i]])
             /\ sending # None => Before(w2, pdu[sending], pdu[r[i]])
  <2>1. CASE i = Len(q) + 1 /\ r[i] = m
    BY <1>1, <1>4, <1>5, <2>1
  <2>2. CASE i \in DOMAIN q /\ r[i] = q[i]
    BY <1>1, <1>4, <1>5, <2>2 DEF Ordered
  <2> QED
    BY <1>3, <2>1, <2>2
<1>6. ASSUME NEW i \in DOMAIN r, NEW j \in DOMAIN r, i < j, r[i] # CANCEL, r[j] # CANCEL
      PROVE  Before(w2, pdu[r[i]], pdu[r[j]])
  <2>1. i \in DOMAIN q /\ r[i] = q[i]
    BY <1>2, <1>6
  <2>2. CASE j = Len(q) + 1 /\ r[j] = m
    BY <1>1, <1>4, <1>6, <2>1, <2>2
  <2>3. CASE j \in DOMAIN q /\ r[j] = q[j]
    BY <1>1, <1>6, <2>1, <2>3 DEF Ordered
  <2> QED
    BY <1>3, <2>2, <2>3
<1>7. \A k, l \in DOMAIN wire : k < l => Before(w2, wire[k], wire[l])
  BY <1>1 DEF Ordered
<1>8. sending # None => \A k \in DOMAIN wire : Before(w2, wire[k], pdu[sending])
  BY <1>1 DEF Ordered
<1>9. /\ \A k \in DOMAIN wire : Written(w2, wire[k])
      /\ sending # None => Written(w2, pdu[sending])
  BY <1>1, <1>4
<1> QED
  BY <1>5, <1>6, <1>7, <1>8, <1>9 DEF Ordered, w2, r

LEMMA AppendComplete ==
  ASSUME NEW q \in Seq(Messages), NEW w \in Seq(PDUs \cup {CANCEL}),
         NEW m \in Messages, NEW x \in PDUs \cup {CANCEL}, m # CANCEL => x = pdu[m],
         m = CANCEL => x = CANCEL, NEW lk, Complete(q, w, lk)
  PROVE  Complete(Append(q, m), Append(w, x), lk)
<1> DEFINE w2 == Append(w, x)
           r == Append(q, m)
<1>1. /\ w2[Len(w) + 1] = x /\ \A i \in 1..Len(w) : w2[i] = w[i]
      /\ DOMAIN w = 1..Len(w) /\ DOMAIN w2 = 1..(Len(w) + 1) /\ Len(w) \in Nat
  BY WrittenFacts
<1>2. /\ r[Len(q) + 1] = m /\ \A i \in 1..Len(q) : r[i] = q[i]
      /\ DOMAIN r = 1..(Len(q) + 1) /\ DOMAIN q = 1..Len(q) /\ Len(q) \in Nat
  BY AppendFacts
<1> HIDE DEF w2, r
<1>3. \A y : Here(q, y) => Here(r, y)
  <2>1. \A i \in DOMAIN q : i \in DOMAIN r /\ r[i] = q[i]
    BY <1>2
  <2> QED
    BY <2>1 DEF Here
<1>4. m # CANCEL => Here(r, x)
  <2>1. Len(q) + 1 \in DOMAIN r
    BY <1>2
  <2> QED
    BY <2>1, <1>2 DEF Here
<1>5. \A i \in DOMAIN w2 : i = Len(w) + 1 \/ i \in DOMAIN w
  BY <1>1
<1>6. ASSUME NEW i \in DOMAIN w, Revoked(w, i)
      PROVE  Revoked(w2, i)
  <2>1. PICK l \in DOMAIN w : /\ i < l /\ IsSourceInfo(w[l])
                              /\ \A a \in i..l : ~IsCritical(w[a])
    BY <1>6 DEF Revoked
  <2>2. l \in DOMAIN w2 /\ \A a \in i..l : a \in DOMAIN w
    BY <1>1
  <2> QED
    BY <2>1, <2>2, <1>1 DEF Revoked
<1>7. ~IsCritical(CANCEL) /\ ~IsSourceInfo(CANCEL)
  BY DEF IsCritical, IsSourceInfo
<1> QED
  BY <1>1, <1>3, <1>4, <1>5, <1>6, <1>7 DEF Complete, w2, r

\* PDUs with different identifiers are written once.
LEMMA AppendFilled ==
  ASSUME NEW w \in Seq(PDUs \cup {CANCEL}), NEW lv, NEW ps, NEW p \in Pushers,
         ps \in [Pushers -> Buffers \cup {None}], ps[p] # None, ps[p] \in lv,
         CANCEL \notin PDUs, Filled(w, lv, ps)
  PROVE  Filled(Append(w, pdu[ps[p]]), lv, [ps EXCEPT ![p] = None])
<1> DEFINE x == pdu[ps[p]]
           w2 == Append(w, x)
           ps2 == [ps EXCEPT ![p] = None]
<1>1. x \in PDUs /\ x.id <= pdus /\ \A i \in DOMAIN w : w[i] # x
  BY DEF Filled
<1>2. /\ w2 \in Seq(PDUs \cup {CANCEL}) /\ w2[Len(w) + 1] = x
      /\ \A i \in 1..Len(w) : w2[i] = w[i]
      /\ DOMAIN w = 1..Len(w) /\ DOMAIN w2 = 1..(Len(w) + 1) /\ Len(w) \in Nat
  BY <1>1, WrittenFacts
<1>3. ps2[p] = None /\ \A r \in Pushers : r # p => ps2[r] = ps[r]
  OBVIOUS
<1> HIDE DEF w2, ps2
<1>4. \A i \in DOMAIN w2 : \/ i = Len(w) + 1 /\ w2[i] = x
                           \/ i \in DOMAIN w /\ w2[i] = w[i]
  <2>1. \A i \in DOMAIN w2 : i = Len(w) + 1 \/ i \in DOMAIN w
    BY <1>2
  <2> QED
    BY <2>1, <1>2
<1>5. Unique(w2)
  <2>1. Unique(w)
    BY DEF Filled
  <2> HIDE DEF x
  <2> QED
    BY <2>1, <1>1, <1>4 DEF Unique
<1>6. \A i \in DOMAIN w2 : w2[i] # CANCEL => w2[i].id <= pdus
  <2>1. \A i \in DOMAIN w : w[i] # CANCEL => w[i].id <= pdus
    BY DEF Filled
  <2> HIDE DEF x
  <2> QED
    BY <2>1, <1>1, <1>4
<1>7. ASSUME NEW r \in Pushers, ps2[r] # None
      PROVE  /\ pdu[ps2[r]].id <= pdus
             /\ \A i \in DOMAIN w2 : w2[i] # pdu[ps2[r]]
             /\ \A s \in Pushers :
                  ps2[s] # None /\ pdu[ps2[r]] = pdu[ps2[s]] => r = s
  <2>1. r # p /\ ps2[r] = ps[r]
    BY <1>3, <1>7
  <2>2. /\ pdu[ps[r]].id <= pdus /\ \A i \in DOMAIN w : w[i] # pdu[ps[r]]
        /\ \A s \in Pushers : ps[s] # None /\ pdu[ps[r]] = pdu[ps[s]] => r = s
    BY <2>1, <1>7 DEF Filled
  <2>3. x # pdu[ps[r]]
    BY <2>1, <2>2
  <2>4. \A s \in Pushers : ps2[s] # None => ps2[s] = ps[s]
    BY <1>3
  <2> HIDE DEF x
  <2> QED
    BY <2>1, <2>2, <2>3, <2>4, <1>4
<1>8. \A b \in lv : pdu[b] \in PDUs
  BY DEF Filled
<1> QED
  BY <1>5, <1>6, <1>7, <1>8 DEF Filled, w2, ps2

\* A CANCEL is not a PDU.
LEMMA CancelFilled ==
  ASSUME NEW w \in Seq(PDUs \cup {CANCEL}), NEW lv, NEW ps,
         \A p \in Pushers : ps[p] # None => ps[p] \in lv,
         CANCEL \notin PDUs, Filled(w, lv, ps)
  PROVE  Filled(Append(w, CANCEL), lv, ps)
<1> DEFINE w2 == Append(w, CANCEL)
<1>1. /\ w2[Len(w) + 1] = CANCEL
      /\ \A i \in 1..Len(w) : w2[i] = w[i]
      /\ DOMAIN w = 1..Len(w) /\ DOMAIN w2 = 1..(Len(w) + 1) /\ Len(w) \in Nat
  BY WrittenFacts
<1> HIDE DEF w2
<1>2. \A i \in DOMAIN w2 : \/ w2[i] = CANCEL
                           \/ i \in DOMAIN w /\ w2[i] = w[i]
  <2>1. \A i \in DOMAIN w2 : i = Len(w) + 1 \/ i \in DOMAIN w
    BY <1>1
  <2> QED
    BY <2>1, <1>1
<1>3. Unique(w2)
  BY <1>2 DEF Filled, Unique
<1>4. \A i \in DOMAIN w2 : w2[i] # CANCEL => w2[i].id <= pdus
  BY <1>2 DEF Filled
<1>5. \A p \in Pushers : ps[p] # None => \A i \in DOMAIN w2 : w2[i] # pdu[ps[p]]
  <2>1. \A p \in Pushers : ps[p] # None => pdu[ps[p]] # CANCEL
    BY DEF Filled
  <2> QED
    BY <2>1, <1>2 DEF Filled
<1> QED
  BY <1>3, <1>4, <1>5 DEF Filled, w2

\* A pusher hands its buffer over to the queue.
LEMMA PushOwned ==
  ASSUME NEW q \in Seq(Messages), NEW lv, NEW lk, NEW ps, NEW p \in Pushers,
         ps \in [Pushers -> Buffers \cup {None}], ps[p] # None,
         pool \in Seq(Buffers),
         Owned(q, lv, lk, ps), Held(q, lv, lk, ps)
  PROVE  /\ Owned(Append(q, ps[p]), lv, lk, [ps EXCEPT ![p] = None])
         /\ Held(Append(q, ps[p]), lv, lk, [ps EXCEPT ![p] = None])
<1> DEFINE m == ps[p]
           r == Append(q, m)
           ps2 == [ps EXCEPT ![p] = None]
<1>1. /\ m \in Messages /\ m # CANCEL /\ m # None /\ m \in lv \ lk
      /\ m \notin ToSet(q) /\ m \notin ToSet(pool) /\ m # sending
      /\ \A s \in Pushers : ps[s] = m => s = p
  <2>1. m \in Buffers /\ m # CANCEL /\ m # None
    BY ConstantFacts
  <2>2. m \in lv \ lk /\ \A s \in Pushers : ps[s] = m => s = p
    BY DEF Owned
  <2>3. m \notin ToSet(q) /\ m \notin ToSet(pool)
    BY <2>1 DEF Owned
  <2>4. m # sending
    BY <2>1 DEF Owned
  <2> QED
    BY <2>1, <2>2, <2>3, <2>4 DEF Messages
<1>2. ps2[p] = None /\ \A s \in Pushers : s # p => ps2[s] = ps[s]
  OBVIOUS
<1>3. ToSet(r) = ToSet(q) \cup {m}
  BY <1>1, ToSetAfter
<1>4. Once(r, CANCEL)
  BY <1>1, OnceAdd DEF Owned
<1> HIDE DEF r, ps2
<1>5. \A s \in Pushers : ps2[s] = None \/ (ps2[s] = ps[s] /\ s # p)
  BY <1>2
<1>6. ASSUME NEW b \in ToSet(r) \ {CANCEL}
      PROVE  /\ b \in lv \ lk /\ b \notin ToSet(pool) /\ b # sending
             /\ \A s \in Pushers : ps2[s] # b
  <2>1. CASE b = m
    BY <1>1, <1>5, <2>1
  <2>2. CASE b \in ToSet(q)
    <3>1. b # None
      BY <2>2, ToSetFacts, ConstantFacts
    <3> QED
      BY <3>1, <1>5, <1>6, <2>2 DEF Owned
  <2> QED
    BY <1>3, <1>6, <2>1, <2>2
<1>7. ASSUME NEW b \in ToSet(pool)
      PROVE  b \in lv \ lk /\ b # sending /\ \A s \in Pushers : ps2[s] # b
  <2>1. b # None
    BY ToSetFacts, ConstantFacts
  <2> QED
    BY <2>1, <1>5 DEF Owned
<1>8. sending # None => /\ sending \in lv \ lk
                        /\ \A s \in Pushers : ps2[s] # sending
  BY <1>5 DEF Owned
<1>9. \A s \in Pushers :
        ps2[s] # None => /\ ps2[s] \in lv \ lk
                         /\ \A t \in Pushers : ps2[s] = ps2[t] => s = t
  BY <1>5 DEF Owned
<1>10. Owned(r, lv, lk, ps2)
  <2>1. IsInjective(pool) /\ lk \subseteq lv
    BY DEF Owned
  <2> QED
    BY ONLY <2>1, <1>4, <1>6, <1>7, <1>8, <1>9 DEF Owned
<1>11. Held(r, lv, lk, ps2)
  <2>1. \A s \in Pushers : s = p \/ ps2[s] = ps[s]
    BY <1>2
  <2> QED
    BY <2>1, <1>3 DEF Held
<1> QED
  BY <1>10, <1>11 DEF r, ps2

\* A CANCEL belongs to nobody.
LEMMA CancelOwned ==
  ASSUME NEW q \in Seq(Messages), NEW lv, NEW lk, NEW ps,
         Owned(q, lv, lk, ps), Held(q, lv, lk, ps)
  PROVE  /\ Owned(Append(q, CANCEL), lv, lk, ps) /\ Held(Append(q, CANCEL), lv, lk, ps)
         /\ Owned(Cons(CANCEL, q), lv, lk, ps) /\ Held(Cons(CANCEL, q), lv, lk, ps)
<1>1. CANCEL \in Messages
  BY DEF Messages
<1>2. /\ ToSet(Append(q, CANCEL)) = ToSet(q) \cup {CANCEL}
      /\ ToSet(Cons(CANCEL, q)) = ToSet(q) \cup {CANCEL}
  BY <1>1, ToSetAfter
<1>3. Once(Append(q, CANCEL), CANCEL) /\ Once(Cons(CANCEL, q), CANCEL)
  <2>1. Once(q, CANCEL)
    BY DEF Owned
  <2> QED
    BY <1>1, <2>1, OnceAppend, OnceAdd
<1>4. ASSUME NEW r, ToSet(r) = ToSet(q) \cup {CANCEL}, Once(r, CANCEL)
      PROVE  Owned(r, lv, lk, ps) /\ Held(r, lv, lk, ps)
  <2>1. ToSet(r) \ {CANCEL} = ToSet(q) \ {CANCEL}
    BY <1>4
  <2>2. Owned(r, lv, lk, ps)
    BY <2>1, <1>4 DEF Owned
  <2>3. Held(r, lv, lk, ps)
    BY <1>4 DEF Held
  <2> QED
    BY <2>2, <2>3
<1> QED
  BY <1>2, <1>3, <1>4

\* A CANCEL in front of the queue changes nothing of what comes after it.
LEMMA UrgentKeeps ==
  ASSUME NEW q \in Seq(Messages), NEW w, NEW lk
  PROVE  /\ Ordered(q, w) => Ordered(Cons(CANCEL, q), w)
         /\ Complete(q, w, lk) => Complete(Cons(CANCEL, q), w, lk)
<1> DEFINE r == Cons(CANCEL, q)
<1>1. /\ Len(r) = Len(q) + 1 /\ r[1] = CANCEL /\ Len(q) \in Nat
      /\ \A j \in 2..(Len(q) + 1) : r[j] = q[j - 1]
      /\ DOMAIN r = 1..Len(r) /\ DOMAIN q = 1..Len(q)
  <2>1. CANCEL \in Messages
    BY DEF Messages
  <2>2. /\ r \in Seq(Messages) /\ Len(r) = Len(q) + 1 /\ r[1] = CANCEL
        /\ \A j \in 2..(Len(q) + 1) : r[j] = q[j - 1]
    <3>1. /\ Cons(CANCEL, q) \in Seq(Messages) /\ Len(Cons(CANCEL, q)) = Len(q) + 1
          /\ Cons(CANCEL, q)[1] = CANCEL
          /\ \A j \in 2..(Len(q) + 1) : Cons(CANCEL, q)[j] = q[j - 1]
      BY <2>1, ConsFacts
    <3> QED
      BY ONLY <3>1 DEF r
  <2> HIDE DEF r
  <2> QED
    BY <2>2
<1> HIDE DEF r
<1>2. \A i \in DOMAIN r : r[i] # CANCEL =>
        i - 1 \in DOMAIN q /\ r[i] = q[i - 1] /\ i \in Int
  BY <1>1
<1>3. \A i \in DOMAIN q : i + 1 \in DOMAIN r /\ r[i + 1] = q[i]
  BY <1>1
<1>4. Ordered(q, w) => Ordered(r, w)
  <2> SUFFICES ASSUME Ordered(q, w) PROVE Ordered(r, w)
    OBVIOUS
  <2>1. \A i, j \in DOMAIN r :
          i < j /\ r[i] # CANCEL /\ r[j] # CANCEL => Before(w, pdu[r[i]], pdu[r[j]])
    <3>1. \A i, j \in DOMAIN r :
            i < j /\ r[i] # CANCEL /\ r[j] # CANCEL => i - 1 < j - 1
      BY <1>2
    <3>2. \A i, j \in DOMAIN q :
            i < j /\ q[i] # CANCEL /\ q[j] # CANCEL => Before(w, pdu[q[i]], pdu[q[j]])
      BY DEF Ordered
    <3> QED
      BY <3>1, <3>2, <1>2
  <2>2. \A i \in DOMAIN r : r[i] # CANCEL => \E a \in DOMAIN q : q[a] = r[i]
    BY <1>2
  <2> QED
    BY <2>1, <2>2 DEF Ordered
<1>5. \A x : Here(q, x) => Here(r, x)
  BY <1>3 DEF Here
<1> QED
  BY <1>4, <1>5 DEF Complete, r

\* What suscan_mq_cleanup_if_needed does to a queue with its new message.
LEMMA CleanupKeeps ==
  ASSUME TypeOK, NEW q \in Seq(Messages), NEW w \in Seq(PDUs \cup {CANCEL}), NEW ps,
         Queued(q, w, live, leaked, ps), Held(q, live, leaked, ps),
         suscan_mq_cleanup_if_needed(q, live)
  PROVE  /\ queue' \in Seq(Messages) /\ live' \in SUBSET Buffers
         /\ leaked' \in SUBSET Buffers /\ leaked \subseteq leaked'
         /\ failures' \in 0..MaxFailures /\ overflow' \in BOOLEAN
         /\ Queued(queue', w, live', leaked', ps) /\ Held(queue', live', leaked', ps)
<1> DEFINE D == try_destroy(q)
           H == head_source_info(q)
<1>1. /\ live \in SUBSET Buffers /\ leaked \in SUBSET Buffers
      /\ failures \in 0..MaxFailures /\ overflow \in BOOLEAN /\ MaxFailures \in Nat
  BY TxThreadAssumption DEF TypeOK
<1>2. Owned(q, live, leaked, ps) /\ Filled(w, live, ps) /\ Ordered(q, w)
      /\ Complete(q, w, leaked) /\ Once(q, CANCEL) /\ Unique(w)
  BY DEF Queued, Owned, Filled
<1>3. Kinded(q)
  <2>1. \A i \in DOMAIN q : q[i] \in ToSet(q)
    BY DEF ToSet
  <2> QED
    BY <2>1, <1>2 DEF Kinded, Owned, Filled
<1>4. D \subseteq ToSet(q) \ {CANCEL} /\ H \subseteq D /\ D \ (D \ H) = H
  BY HeadInfoFacts
<1>5. D \subseteq Buffers
  BY <1>4, ToSetFacts DEF Messages
<1>6. \A b \in SUBSET Buffers : Filled(w, live, ps) => Filled(w, live \ b, ps)
  BY DEF Filled
<1>7. ASSUME NEW r, NEW lost \in BOOLEAN, NEW gone, NEW lk, gone \subseteq D,
             D \ H \subseteq gone, Thinned(q, r, gone), Spares(q, gone, lost),
             lk = leaked \cup (gone \ (D \ H)), lost => lk # {}
      PROVE  /\ Queued(r, w, live \ (D \ H), lk, ps)
             /\ Held(r, live \ (D \ H), lk, ps)
             /\ r \in Seq(Messages) /\ live \ (D \ H) \in SUBSET Buffers
             /\ lk \in SUBSET Buffers /\ leaked \subseteq lk
  <2> HIDE DEF D, H
  <2>1. /\ Owned(r, live \ (D \ H), lk, ps) /\ Held(r, live \ (D \ H), lk, ps)
    BY <1>2, <1>4, <1>7, ThinnedOwned
  <2>2. Ordered(r, w)
    BY <1>2, <1>7, ThinnedOrdered
  <2>3. Complete(r, w, lk)
    <3>1. leaked \subseteq lk /\ CANCEL \notin PDUs
      BY <1>7, ConstantFacts
    <3> QED
      BY <3>1, <1>2, <1>3, <1>7, ThinnedComplete
  <2>4. Filled(w, live \ (D \ H), ps)
    BY <1>2, <1>5, <1>6
  <2>5. r \in Seq(Messages)
    BY <1>7 DEF Thinned
  <2> QED
    BY <2>1, <2>2, <2>3, <2>4, <2>5, <1>1, <1>5, <1>7 DEF Queued
<1>8. CASE queue' = q /\ live' = live /\ leaked' = leaked /\ overflow' \in BOOLEAN
           /\ failures' \in 0..MaxFailures
  BY <1>1, <1>8
<1>9. CASE /\ queue' \in Cleaned(q) /\ live' = live \ (D \ H)
           /\ overflow' \in BOOLEAN /\ failures' \in 0..MaxFailures /\ leaked' = leaked
  <2>1. Thinned(q, queue', D \ H)
    BY <1>2, <1>3, <1>9, CleanedFacts
  <2>2. Spares(q, D \ H, FALSE)
    BY <1>2, DestroySpares
  <2>3. leaked' = leaked \cup ((D \ H) \ (D \ H)) /\ D \ H \subseteq D /\ FALSE \in BOOLEAN
    BY <1>9
  <2> HIDE DEF D, H
  <2> QED
    BY <2>1, <2>2, <2>3, <1>7, <1>9
<1>10. CASE /\ H # {} /\ queue' \in Left(q) /\ live' = live \ (D \ H)
            /\ overflow' \in BOOLEAN /\ failures' \in 0..MaxFailures
            /\ leaked' = leaked \cup H
  <2>1. Thinned(q, queue', D)
    BY <1>2, <1>10, LeftFacts
  <2>2. Spares(q, D, TRUE)
    BY <1>2, DestroySpares
  <2>3. leaked' = leaked \cup (D \ (D \ H)) /\ leaked' # {} /\ TRUE \in BOOLEAN
    BY <1>4, <1>10
  <2> HIDE DEF D, H
  <2> QED
    BY <2>1, <2>2, <2>3, <1>7, <1>10
<1>11. Recurses(q) \in BOOLEAN
  BY DEF Recurses
<1>12. failures < MaxFailures => failures + 1 \in 0..MaxFailures
  BY <1>1
<1> QED
  BY <1>1, <1>8, <1>9, <1>10, <1>11, <1>12 DEF suscan_mq_cleanup_if_needed, faults

\* The invariant is about these variables besides its parameters.
LEMMA Frame ==
  ASSUME UNCHANGED <<pool, sending, pdu, pdus, wire, tx, thread_cancelled>>,
         Queued(queue', written', live', leaked', pushing'),
         Held(queue', live', leaked', pushing')
  PROVE  /\ Queued(queue, written, live, leaked, pushing)'
         /\ Held(queue, live, leaked, pushing)'
<1>1. Owned(queue, live, leaked, pushing)' /\ Held(queue, live, leaked, pushing)'
  BY DEF Queued, Owned, Held
<1>2. Filled(written, live, pushing)'
  BY DEF Queued, Filled
<1>3. Ordered(queue, written)'
  BY DEF Queued, Ordered
<1>4. Complete(queue, written, leaked)'
  BY DEF Queued, Complete, Sends, Here
<1> QED
  BY <1>1, <1>2, <1>3, <1>4 DEF Queued

\* What was sent stays in order when more is written.
LEMMA SentStays ==
  ASSUME SentInv, UNCHANGED wire, leaked \subseteq leaked',
         written \in Seq(PDUs \cup {CANCEL}),
         \/ written' = written
         \/ \E x \in PDUs \cup {CANCEL} :
              /\ written' = Append(written, x)
              /\ IsCritical(x) => \A k \in DOMAIN wire : wire[k] # x
  PROVE  SentInv'
<1>1. CASE written' = written
  <2>1. written' = written /\ wire' = wire /\ leaked \subseteq leaked'
    BY <1>1
  <2>2. CriticalInOrder'
    BY <2>1, SMTT(30) DEF SentInv, CriticalInOrder
  <2>3. leaked' = {} => leaked = {}
    BY <2>1
  <2>4. SourceInfoFresh'
    BY <2>1, <2>3, SMTT(30) DEF SentInv, SourceInfoFresh
  <2> QED
    BY <2>2, <2>4 DEF SentInv
<1>2. ASSUME NEW x \in PDUs \cup {CANCEL}, written' = Append(written, x),
             IsCritical(x) => \A k \in DOMAIN wire : wire[k] # x
      PROVE  SentInv'
  <2> DEFINE w2 == Append(written, x)
  <2>1. /\ w2[Len(written) + 1] = x /\ \A i \in 1..Len(written) : w2[i] = written[i]
        /\ DOMAIN written = 1..Len(written) /\ DOMAIN w2 = 1..(Len(written) + 1)
        /\ Len(written) \in Nat
    BY WrittenFacts
  <2> HIDE DEF w2
  <2>2. /\ written' = w2 /\ wire' = wire
        /\ \A i \in DOMAIN written : /\ i \in DOMAIN w2 /\ w2[i] = written[i]
                                     /\ \A j \in 1..i - 1 : j \in DOMAIN written
    <3>1. written' = w2 /\ wire' = wire
      BY <1>2 DEF w2
    <3>2. \A i \in 1..Len(written) :
            /\ i \in 1..(Len(written) + 1)
            /\ \A j \in 1..i - 1 : j \in 1..Len(written)
      BY <2>1
    <3> QED
      BY <3>1, <3>2, <2>1
  <2>3. CriticalInOrder'
    BY <2>2 DEF SentInv, CriticalInOrder
  <2>4. SourceInfoFresh'
    <3> SUFFICES ASSUME leaked = {}, NEW k \in DOMAIN wire, NEW i \in DOMAIN w2,
                        NEW j \in DOMAIN w2, IsCritical(wire[k]), w2[i] = wire[k],
                        j < i, IsSourceInfo(w2[j]),
                        \A l \in j + 1..i - 1 : ~IsSourceInfo(w2[l])
                 PROVE  \E n \in 1..k - 1 : wire[n] = w2[j]
      BY <2>2 DEF SourceInfoFresh
    <3>1. i \in DOMAIN written
      <4>1. i # Len(written) + 1
        <5> SUFFICES ASSUME i = Len(written) + 1 PROVE FALSE
          OBVIOUS
        <5>1. wire[k] = x
          BY <2>1
        <5> QED
          BY <5>1, <1>2
      <4> QED
        BY <4>1, <2>1
    <3>2. j \in DOMAIN written /\ \A l \in j + 1..i - 1 : l \in DOMAIN written
      BY <3>1, <2>1
    <3>3. /\ written[i] = wire[k] /\ IsSourceInfo(written[j])
          /\ \A l \in j + 1..i - 1 : ~IsSourceInfo(written[l])
      BY <3>1, <3>2, <2>2
    <3>4. \E n \in 1..k - 1 : wire[n] = written[j]
      BY <3>1, <3>2, <3>3, SMTT(30) DEF SentInv, SourceInfoFresh
    <3> QED
      BY <3>2, <3>4, <2>2
  <2> QED
    BY <2>3, <2>4 DEF SentInv
<1> QED
  BY <1>1, <1>2

-----------------------------------------------------------------------------
(***************************************************************************)
(* The steps.                                                              *)
(***************************************************************************)
\* The invariant holds at first, with nothing pushed.
LEMMA InitInv == Init => Inv
<1> SUFFICES ASSUME Init PROVE Inv
  OBVIOUS
<1>1. TypeOK
  <2>1. /\ <<>> \in Seq(Buffers \cup {CANCEL}) /\ <<>> \in Seq(Buffers)
        /\ <<>> \in Seq(PDUs \cup {CANCEL}) /\ <<>> \in Seq(PDUs)
    OBVIOUS
  <2>2. 0 \in 0..MaxPDUs /\ 0 \in 0..MaxFailures
    BY TxThreadAssumption
  <2>3. /\ [b \in Buffers |-> None] \in [Buffers -> PDUs \cup {None}]
        /\ [p \in Pushers |-> None] \in [Pushers -> Buffers \cup {None}]
    OBVIOUS
  <2> QED
    BY <2>1, <2>2, <2>3 DEF Init, TypeOK
<1>2. ToSet(queue) = {} /\ ToSet(pool) = {}
  BY DEF Init, ToSet
<1>3. Owned(queue, live, leaked, pushing) /\ Held(queue, live, leaked, pushing)
  <2>1. Once(queue, CANCEL)
    BY DEF Init, Once
  <2>2. IsInjective(pool)
    BY DEF Init, IsInjective
  <2> QED
    BY <2>1, <2>2, <1>2 DEF Init, Owned, Held
<1>4. Filled(written, live, pushing)
  BY DEF Init, Filled, Unique
<1>5. Ordered(queue, written) /\ Complete(queue, written, leaked)
  BY DEF Init, Ordered, Complete
<1>6. StopInv
  BY DEF Init, StopInv
<1>7. SentInv
  BY DEF Init, SentInv, CriticalInOrder, SourceInfoFresh
<1> QED
  BY <1>1, <1>3, <1>4, <1>5, <1>6, <1>7 DEF Inv, Queued

\* push_zerocopy: the buffer goes to the queue, which may be cleaned up.
LEMMA PushInv ==
  ASSUME Inv, NEW p \in Pushers, push_zerocopy(p)
  PROVE  Inv'
<1> DEFINE m == pushing[p]
           q == Append(queue, m)
           w == Append(written, pdu[m])
           ps == [pushing EXCEPT ![p] = None]
<1>1. /\ TypeOK /\ SentInv /\ StopInv
      /\ Owned(queue, live, leaked, pushing) /\ Held(queue, live, leaked, pushing)
      /\ Filled(written, live, pushing) /\ Ordered(queue, written)
      /\ Complete(queue, written, leaked)
  BY DEF Inv, Queued
<1>2. /\ queue \in Seq(Messages) /\ written \in Seq(PDUs \cup {CANCEL})
      /\ pushing \in [Pushers -> Buffers \cup {None}] /\ pool \in Seq(Buffers)
  BY <1>1 DEF TypeOK, Messages
<1>3. m # None /\ suscan_mq_cleanup_if_needed(q, live) /\ written' = w /\ pushing' = ps
  BY DEF push_zerocopy, suscan_mq_write
<1>4. m \in Messages /\ m # CANCEL /\ m \in live /\ pdu[m] \in PDUs
      /\ \A i \in DOMAIN written : written[i] # pdu[m]
  BY <1>1, <1>2, <1>3, ConstantFacts DEF Owned, Filled
<1>5. q \in Seq(Messages) /\ w \in Seq(PDUs \cup {CANCEL})
  BY <1>2, <1>4
<1>6. Owned(q, live, leaked, ps) /\ Held(q, live, leaked, ps)
  BY <1>1, <1>2, <1>3, PushOwned
<1>7. Filled(w, live, ps)
  BY <1>1, <1>2, <1>3, <1>4, AppendFilled, ConstantFacts
<1>8. Ordered(q, w) /\ Complete(q, w, leaked)
  BY <1>1, <1>2, <1>4, AppendOrdered, AppendComplete
<1> HIDE DEF m, q, w, ps
<1>9. /\ queue' \in Seq(Messages) /\ live' \in SUBSET Buffers
      /\ leaked' \in SUBSET Buffers /\ leaked \subseteq leaked'
      /\ failures' \in 0..MaxFailures /\ overflow' \in BOOLEAN
      /\ Queued(queue', w, live', leaked', ps) /\ Held(queue', live', leaked', ps)
  BY <1>1, <1>3, <1>5, <1>6, <1>7, <1>8, CleanupKeeps DEF Queued
<1>10. /\ Queued(queue, written, live, leaked, pushing)'
       /\ Held(queue, live, leaked, pushing)'
  BY <1>3, <1>9, Frame DEF push_zerocopy, thread, stopping
<1>11. SentInv'
  <2>1. \A k \in DOMAIN wire : wire[k] # pdu[m]
    BY <1>1, <1>4 DEF Ordered, Written
  <2>2. UNCHANGED wire /\ written' = Append(written, pdu[m])
    BY <1>3 DEF push_zerocopy, thread, w
  <2> QED
    BY <2>1, <2>2, <1>1, <1>2, <1>4, <1>9, SentStays
<1>12. TypeOK'
  <2>1. ps \in [Pushers -> Buffers \cup {None}]
    BY <1>2 DEF ps
  <2> QED
    BY <2>1, <1>1, <1>3, <1>5, <1>9
    DEF TypeOK, Messages, push_zerocopy, thread, stopping
<1>13. StopInv'
  BY <1>1 DEF StopInv, push_zerocopy, thread, stopping
<1> QED
  BY <1>10, <1>11, <1>12, <1>13 DEF Inv

\* The CANCEL of a soft stop goes behind what was queued.
LEMMA CancelSoftInv ==
  ASSUME Inv, cancel_soft
  PROVE  Inv'
<1> DEFINE q == Append(queue, CANCEL)
           w == Append(written, CANCEL)
<1>1. /\ TypeOK /\ SentInv /\ StopInv
      /\ Owned(queue, live, leaked, pushing) /\ Held(queue, live, leaked, pushing)
      /\ Filled(written, live, pushing) /\ Ordered(queue, written)
      /\ Complete(queue, written, leaked)
  BY DEF Inv, Queued
<1>2. /\ queue \in Seq(Messages) /\ written \in Seq(PDUs \cup {CANCEL})
  BY <1>1 DEF TypeOK, Messages
<1>3. suscan_mq_cleanup_if_needed(q, live) /\ written' = w /\ pushing' = pushing
  BY DEF cancel_soft, suscan_mq_write, pushers
<1>4. q \in Seq(Messages) /\ w \in Seq(PDUs \cup {CANCEL})
  BY <1>2, ConstantFacts
<1>5. Owned(q, live, leaked, pushing) /\ Held(q, live, leaked, pushing)
  BY <1>1, <1>2, CancelOwned
<1>6. Filled(w, live, pushing)
  <2>1. \A p \in Pushers : pushing[p] # None => pushing[p] \in live
    BY <1>1 DEF Owned
  <2> QED
    BY <2>1, <1>1, <1>2, CancelFilled, ConstantFacts
<1>7. Ordered(q, w) /\ Complete(q, w, leaked)
  BY <1>1, <1>2, AppendOrdered, AppendComplete, ConstantFacts
<1> HIDE DEF q, w
<1>8. /\ queue' \in Seq(Messages) /\ live' \in SUBSET Buffers
      /\ leaked' \in SUBSET Buffers /\ leaked \subseteq leaked'
      /\ failures' \in 0..MaxFailures /\ overflow' \in BOOLEAN
      /\ Queued(queue', w, live', leaked', pushing) /\ Held(queue', live', leaked', pushing)
  BY <1>1, <1>3, <1>4, <1>5, <1>6, <1>7, CleanupKeeps DEF Queued
<1>9. /\ Queued(queue, written, live, leaked, pushing)'
      /\ Held(queue, live, leaked, pushing)'
  BY <1>3, <1>8, Frame DEF cancel_soft, thread, pushers
<1>10. SentInv'
  <2>1. ~IsCritical(CANCEL)
    BY DEF IsCritical
  <2>2. UNCHANGED wire /\ written' = Append(written, CANCEL)
    BY <1>3 DEF cancel_soft, thread, w
  <2> QED
    BY <2>1, <2>2, <1>1, <1>2, <1>8, SentStays
<1>11. TypeOK'
  BY <1>1, <1>3, <1>4, <1>8 DEF TypeOK, Messages, cancel_soft, thread, pushers
<1>12. StopInv'
  BY DEF StopInv, cancel_soft
<1> QED
  BY <1>9, <1>10, <1>11, <1>12 DEF Inv

\* That of a hard stop goes in front of it.
LEMMA CancelInv ==
  ASSUME Inv, cancel
  PROVE  Inv'
<1> DEFINE q == Cons(CANCEL, queue)
<1>1. /\ TypeOK /\ SentInv /\ StopInv
      /\ Owned(queue, live, leaked, pushing) /\ Held(queue, live, leaked, pushing)
      /\ Filled(written, live, pushing) /\ Ordered(queue, written)
      /\ Complete(queue, written, leaked)
  BY DEF Inv, Queued
<1>2. /\ queue \in Seq(Messages) /\ written \in Seq(PDUs \cup {CANCEL})
  BY <1>1 DEF TypeOK, Messages
<1>3. suscan_mq_cleanup_if_needed(q, live) /\ written' = written /\ pushing' = pushing
  BY DEF cancel, suscan_mq_write_urgent, pushers, Cons
<1>4. q \in Seq(Messages)
  BY <1>2, ConstantFacts, ConsFacts
<1>5. Owned(q, live, leaked, pushing) /\ Held(q, live, leaked, pushing)
  BY <1>1, <1>2, CancelOwned
<1>6. Ordered(q, written) /\ Complete(q, written, leaked)
  BY <1>1, <1>2, UrgentKeeps
<1> HIDE DEF q
<1>7. /\ queue' \in Seq(Messages) /\ live' \in SUBSET Buffers
      /\ leaked' \in SUBSET Buffers /\ leaked \subseteq leaked'
      /\ failures' \in 0..MaxFailures /\ overflow' \in BOOLEAN
      /\ Queued(queue', written, live', leaked', pushing)
      /\ Held(queue', live', leaked', pushing)
  BY <1>1, <1>2, <1>3, <1>4, <1>5, <1>6, CleanupKeeps DEF Queued
<1>8. /\ Queued(queue, written, live, leaked, pushing)'
      /\ Held(queue, live, leaked, pushing)'
  BY <1>3, <1>7, Frame DEF cancel, thread, pushers
<1>9. SentInv'
  BY <1>1, <1>2, <1>3, <1>7, SentStays DEF cancel, thread
<1>10. TypeOK'
  BY <1>1, <1>3, <1>7 DEF TypeOK, Messages, cancel, thread, pushers
<1>11. StopInv'
  BY DEF StopInv, cancel
<1> QED
  BY <1>8, <1>9, <1>10, <1>11 DEF Inv

\* A pusher takes a buffer nobody has, from the pool or from the heap.
LEMMA AllocInv ==
  ASSUME Inv, NEW p \in Pushers, alloc_buffer(p)
  PROVE  Inv'
<1>1. /\ TypeOK /\ SentInv /\ StopInv
      /\ Owned(queue, live, leaked, pushing) /\ Held(queue, live, leaked, pushing)
      /\ Filled(written, live, pushing) /\ Ordered(queue, written)
      /\ Complete(queue, written, leaked)
  BY DEF Inv, Queued
<1>2. /\ queue \in Seq(Messages) /\ written \in Seq(PDUs \cup {CANCEL})
      /\ pushing \in [Pushers -> Buffers \cup {None}] /\ pool \in Seq(Buffers)
      /\ pdu \in [Buffers -> PDUs \cup {None}] /\ live \subseteq Buffers
      /\ pdus \in 0..MaxPDUs /\ MaxPDUs \in Nat /\ DOMAIN written = 1..Len(written)
  BY <1>1, TxThreadAssumption DEF TypeOK, Messages
<1>3. /\ pushing[p] = None /\ pdus < MaxPDUs /\ pdus' = pdus + 1
      /\ UNCHANGED <<queue, leaked, tx, sending, wire, owner, thread_cancelled, pipe,
                     peer, failures, overflow, written>>
  BY DEF alloc_buffer, thread, stopping, faults
<1>4. PICK b \in Buffers, k \in Kinds :
        /\ \/ pool # <<>> /\ b = Head(pool) /\ pool' = Tail(pool) /\ live' = live
           \/ pool = <<>> /\ b \notin live /\ live' = live \cup {b} /\ pool' = pool
        /\ pdu' = [pdu EXCEPT ![b] = [id |-> pdus + 1, kind |-> k]]
        /\ pushing' = [pushing EXCEPT ![p] = b]
  <2>1. ASSUME live # Buffers
        PROVE  malloc \notin live
    BY <2>1, <1>2 DEF malloc
  <2> QED
    BY <2>1 DEF alloc_buffer
<1>5. /\ pool' \in Seq(Buffers) /\ live' \subseteq Buffers /\ b \in live' /\ live \subseteq live'
      /\ live' \subseteq live \cup {b} /\ b \notin leaked
      /\ b \notin ToSet(queue) /\ b \notin ToSet(pool') /\ b # sending
      /\ \A r \in Pushers : pushing[r] # b
      /\ IsInjective(pool') /\ ToSet(pool') \subseteq ToSet(pool)
      /\ \A x \in ToSet(pool) : x \in ToSet(pool') \/ x = b
  <2>0. b # None /\ b # CANCEL
    BY ConstantFacts
  <2>1. CASE pool # <<>> /\ b = Head(pool) /\ pool' = Tail(pool) /\ live' = live
    <3>1. /\ Tail(pool) \in Seq(Buffers) /\ b = pool[1] /\ b \in ToSet(pool)
          /\ \A e : e \in ToSet(pool) <=> e \in ToSet(Tail(pool)) \/ e = b
      BY <2>1, <1>2, HeadFacts
    <3>2. IsInjective(Tail(pool)) /\ b \notin ToSet(Tail(pool))
      BY <2>1, <3>1, <1>1, <1>2, RemoveFromInjective DEF Owned
    <3>3. b \in live \ leaked /\ b # sending /\ \A r \in Pushers : pushing[r] # b
      BY <3>1, <1>1 DEF Owned
    <3>4. b \notin ToSet(queue)
      BY <2>0, <3>1, <1>1 DEF Owned
    <3> QED
      BY <2>1, <3>1, <3>2, <3>3, <3>4, <1>2
  <2>2. CASE pool = <<>> /\ b \notin live /\ live' = live \cup {b} /\ pool' = pool
    <3>1. /\ b \notin leaked /\ b \notin ToSet(queue) /\ b \notin ToSet(pool)
          /\ b # sending /\ \A r \in Pushers : pushing[r] # b /\ IsInjective(pool)
      BY <2>0, <2>2, <1>1 DEF Owned
    <3> QED
      BY <2>2, <3>1, <1>1, <1>2 DEF Owned
  <2> QED
    BY <1>4, <2>1, <2>2
<1>6. /\ pushing'[p] = b /\ \A r \in Pushers : r # p => pushing'[r] = pushing[r]
      /\ b # None /\ b # CANCEL
  BY <1>2, <1>4, ConstantFacts
<1>7. /\ pdu'[b] = [id |-> pdus + 1, kind |-> k] /\ pdu'[b] \in PDUs
      /\ \A x \in Buffers : x # b => pdu'[x] = pdu[x]
  BY <1>2, <1>3, <1>4 DEF PDUs
<1>8. Owned(queue, live, leaked, pushing)'
  <2>1. \A r \in Pushers : \/ r = p /\ pushing'[r] = b
                           \/ r # p /\ pushing'[r] = pushing[r]
    BY <1>6
  <2>2. \A x \in ToSet(queue') \ {CANCEL} :
          /\ x \in live' \ leaked' /\ x \notin ToSet(pool') /\ x # sending'
          /\ \A r \in Pushers : pushing'[r] # x
    BY <2>1, <1>1, <1>3, <1>5 DEF Owned
  <2>3. \A x \in ToSet(pool') :
          x \in live' \ leaked' /\ x # sending' /\ \A r \in Pushers : pushing'[r] # x
    BY <2>1, <1>1, <1>3, <1>5 DEF Owned
  <2>4. sending' # None => /\ sending' \in live' \ leaked'
                           /\ \A r \in Pushers : pushing'[r] # sending'
    BY <2>1, <1>1, <1>3, <1>5 DEF Owned
  <2>5. \A r \in Pushers :
          pushing'[r] # None => /\ pushing'[r] \in live' \ leaked'
                                /\ \A s \in Pushers : pushing'[r] = pushing'[s] => r = s
    BY <2>1, <1>1, <1>3, <1>5 DEF Owned
  <2>6. leaked' \subseteq live' /\ Once(queue', CANCEL) /\ IsInjective(pool')
    BY <1>1, <1>3, <1>5 DEF Owned
  <2> QED
    BY <2>2, <2>3, <2>4, <2>5, <2>6 DEF Owned
<1>9. Held(queue, live, leaked, pushing)'
  <2>1. ASSUME NEW x \in live', x # b
        PROVE  \/ x \in ToSet(queue') \/ x \in ToSet(pool') \/ x = sending' \/ x \in leaked'
               \/ \E r \in Pushers : pushing'[r] = x
    <3>1. x \in live
      BY <2>1, <1>5
    <3>2. CASE \E r \in Pushers : pushing[r] = x
      <4>1. PICK r \in Pushers : pushing[r] = x
        BY <3>2
      <4>2. r # p
        BY <3>1, <4>1, <1>2, <1>3, ConstantFacts
      <4> QED
        BY <4>1, <4>2, <1>6
    <3> QED
      BY <2>1, <3>1, <3>2, <1>1, <1>3, <1>5 DEF Held
  <2> QED
    BY <2>1, <1>6 DEF Held
<1>10. \A i \in DOMAIN written : written[i] # CANCEL =>
         written[i].id <= pdus /\ written[i] \in PDUs
  BY <1>1, <1>2 DEF Filled
<1>11. \A x \in PDUs : x.id <= pdus => x # pdu'[b] /\ x.id <= pdus'
  BY <1>2, <1>3, <1>7 DEF PDUs
<1>12. \A r \in Pushers : r # p /\ pushing'[r] # None =>
         /\ pushing'[r] = pushing[r] /\ pushing[r] # b /\ pushing[r] \in live
         /\ pdu'[pushing'[r]] = pdu[pushing[r]] /\ pdu[pushing[r]] \in PDUs
         /\ pdu[pushing[r]].id <= pdus
  BY <1>1, <1>2, <1>5, <1>6, <1>7 DEF Owned, Filled
<1>13. Filled(written, live, pushing)'
  <2>1. \A x \in live' : pdu'[x] \in PDUs
    BY <1>1, <1>2, <1>5, <1>7 DEF Filled
  <2>2. Unique(written)'
    BY <1>1, <1>3 DEF Filled, Unique
  <2>3. \A i \in DOMAIN written' : written'[i] # CANCEL => written'[i].id <= pdus'
    BY <1>3, <1>10, <1>11
  <2>4. ASSUME NEW r \in Pushers, pushing'[r] # None
        PROVE  /\ pdu'[pushing'[r]].id <= pdus'
               /\ \A i \in DOMAIN written' : written'[i] # pdu'[pushing'[r]]
    <3>1. CASE r = p
      <4>1. pdu'[b] # CANCEL /\ pdu'[b].id <= pdus'
        BY <1>2, <1>3, <1>7, ConstantFacts
      <4> QED
        BY <3>1, <4>1, <1>3, <1>6, <1>10, <1>11
    <3>2. CASE r # p
      BY <3>2, <2>4, <1>1, <1>3, <1>11, <1>12 DEF Filled
    <3> QED
      BY <3>1, <3>2
  <2>5. ASSUME NEW r \in Pushers, NEW s \in Pushers, pushing'[r] # None,
               pushing'[s] # None, pdu'[pushing'[r]] = pdu'[pushing'[s]]
        PROVE  r = s
    <3>1. CASE r # p /\ s # p
      <4>1. pdu[pushing[r]] = pdu[pushing[s]] /\ pushing[r] # None /\ pushing[s] # None
        BY <2>5, <3>1, <1>12
      <4> QED
        BY <4>1, <1>1 DEF Filled
    <3>2. CASE r = p /\ s # p
      BY <2>5, <3>2, <1>6, <1>11, <1>12
    <3>3. CASE r # p /\ s = p
      BY <2>5, <3>3, <1>6, <1>11, <1>12
    <3> QED
      BY <3>1, <3>2, <3>3
  <2> QED
    BY <2>1, <2>2, <2>3, <2>4, <2>5 DEF Filled
<1>14. /\ \A i \in DOMAIN queue : queue[i] # CANCEL => pdu'[queue[i]] = pdu[queue[i]]
       /\ sending # None => pdu'[sending] = pdu[sending]
  <2>1. \A i \in DOMAIN queue : queue[i] \in ToSet(queue) /\ queue[i] \in Messages
    BY <1>2 DEF ToSet
  <2>2. sending # None => sending \in Buffers
    BY <1>1 DEF TypeOK
  <2> QED
    BY <2>1, <2>2, <1>5, <1>7 DEF Messages
<1>15. Ordered(queue, written)'
  BY <1>1, <1>3, <1>14 DEF Ordered
<1>16. Complete(queue, written, leaked)'
  <2>1. \A x : Here(queue, x) => Here(queue, x)'
    BY <1>3, <1>14 DEF Here
  <2>2. Sends' = Sends /\ leaked' = leaked /\ written' = written
    BY <1>3 DEF Sends
  <2> QED
    BY <2>1, <2>2, <1>1 DEF Complete, Revoked
<1>17. SentInv'
  BY <1>1, <1>3 DEF SentInv, CriticalInOrder, SourceInfoFresh
<1>18. TypeOK'
  <2>1. pdu' \in [Buffers -> PDUs \cup {None}]
    BY <1>2, <1>4, <1>7
  <2>2. pushing' \in [Pushers -> Buffers \cup {None}]
    BY <1>2, <1>4
  <2>3. pdus' \in 0..MaxPDUs
    BY <1>2, <1>3
  <2> QED
    BY <2>1, <2>2, <2>3, <1>1, <1>3, <1>5 DEF TypeOK
<1>19. StopInv'
  BY <1>1, <1>3 DEF StopInv
<1> QED
  BY <1>8, <1>9, <1>13, <1>15, <1>16, <1>17, <1>18, <1>19 DEF Inv, Queued

\* Steps that leave the buffers alone, and after which nothing is sent that
\* was not to be sent before.
LEMMA Moves ==
  ASSUME Inv, UNCHANGED <<buffers, sending, wire, pdus, overflow, written>>,
         TypeOK', StopInv', Sends' => Sends
  PROVE  Inv'
<1>1. /\ Owned(queue, live, leaked, pushing) /\ Held(queue, live, leaked, pushing)
      /\ Filled(written, live, pushing) /\ Ordered(queue, written)
      /\ Complete(queue, written, leaked) /\ SentInv
  BY DEF Inv, Queued
<1>2. UNCHANGED <<queue, pool, live, pdu, pushing, leaked, sending, wire, pdus, written>>
  BY DEF buffers
<1>3. Owned(queue, live, leaked, pushing)' /\ Held(queue, live, leaked, pushing)'
  BY <1>1, <1>2 DEF Owned, Held
<1>4. Filled(written, live, pushing)'
  BY <1>1, <1>2 DEF Filled
<1>5. Ordered(queue, written)'
  BY <1>1, <1>2 DEF Ordered
<1>6. Complete(queue, written, leaked)'
  BY <1>1, <1>2 DEF Complete, Here
<1>7. SentInv'
  BY <1>1, <1>2 DEF SentInv, CriticalInOrder, SourceInfoFresh
<1> QED
  BY <1>3, <1>4, <1>5, <1>6, <1>7 DEF Inv, Queued

\* A thread that ends has nothing in its hands and sends nothing any more.
LEMMA FinishInv ==
  ASSUME Inv, Finish, sending # None, pipe' \in BOOLEAN, failures' \in 0..MaxFailures,
         UNCHANGED <<queue, pool, leaked, pushing, pdu, pdus, wire, owner,
                     thread_cancelled, peer, overflow, written>>
  PROVE  Inv'
<1>1. /\ Owned(queue, live, leaked, pushing) /\ Held(queue, live, leaked, pushing)
      /\ Filled(written, live, pushing) /\ Ordered(queue, written)
      /\ Complete(queue, written, leaked) /\ SentInv /\ TypeOK
  BY DEF Inv, Queued
<1>2. tx' = "finished" /\ live' = live \ {sending} /\ sending' = None
  BY DEF Finish
<1>3. sending \in Buffers /\ sending # CANCEL
  BY <1>1, ConstantFacts DEF TypeOK
<1>4. Owned(queue, live, leaked, pushing)'
  <2>1. \A b \in ToSet(queue') \ {CANCEL} :
          /\ b \in live' \ leaked' /\ b \notin ToSet(pool') /\ b # sending'
          /\ \A p \in Pushers : pushing'[p] # b
    <3>1. \A b \in ToSet(queue) : b # None
      BY <1>1, ToSetFacts, ConstantFacts DEF TypeOK, Messages
    <3> QED
      BY <3>1, <1>1, <1>2 DEF Owned
  <2>2. \A b \in ToSet(pool') :
          b \in live' \ leaked' /\ b # sending' /\ \A p \in Pushers : pushing'[p] # b
    <3>1. \A b \in ToSet(pool) : b # None
      BY <1>1, ToSetFacts, ConstantFacts DEF TypeOK
    <3> QED
      BY <3>1, <1>1, <1>2 DEF Owned
  <2>3. \A p \in Pushers :
          pushing'[p] # None => /\ pushing'[p] \in live' \ leaked'
                                /\ \A r \in Pushers : pushing'[p] = pushing'[r] => p = r
    BY <1>1, <1>2 DEF Owned
  <2>4. leaked' \subseteq live' /\ Once(queue', CANCEL) /\ IsInjective(pool')
    BY <1>1, <1>2 DEF Owned
  <2> QED
    BY <2>1, <2>2, <2>3, <2>4, <1>2 DEF Owned
<1>5. Held(queue, live, leaked, pushing)'
  BY <1>1, <1>2 DEF Held
<1>6. Filled(written, live, pushing)'
  BY <1>1, <1>2 DEF Filled
<1>7. Ordered(queue, written)'
  BY <1>1, <1>2 DEF Ordered
<1>8. Complete(queue, written, leaked)'
  BY <1>2 DEF Complete, Sends
<1>9. SentInv'
  BY <1>1 DEF SentInv, CriticalInOrder, SourceInfoFresh
<1>10. TypeOK'
  BY <1>1, <1>2 DEF TypeOK
<1>11. StopInv'
  BY <1>2 DEF StopInv
<1> QED
  BY <1>4, <1>5, <1>6, <1>7, <1>8, <1>9, <1>10, <1>11 DEF Inv, Queued

\* A push that fails gives the buffer back to the heap.
LEMMA PushFailsInv ==
  ASSUME Inv, NEW p \in Pushers, PushFails(p)
  PROVE  Inv'
<1>1. /\ Owned(queue, live, leaked, pushing) /\ Held(queue, live, leaked, pushing)
      /\ Filled(written, live, pushing) /\ Ordered(queue, written)
      /\ Complete(queue, written, leaked) /\ SentInv /\ TypeOK /\ StopInv
  BY DEF Inv, Queued
<1>2. /\ pushing[p] # None /\ failures < MaxFailures /\ failures' = failures + 1
      /\ live' = live \ {pushing[p]} /\ pushing' = [pushing EXCEPT ![p] = None]
      /\ UNCHANGED <<queue, pool, leaked, pdu, pdus, tx, sending, wire, owner,
                     thread_cancelled, pipe, peer, overflow, written>>
  BY DEF PushFails, thread, stopping
<1>3. /\ pushing \in [Pushers -> Buffers \cup {None}] /\ pushing[p] \in Buffers
      /\ pushing[p] # CANCEL /\ queue \in Seq(Messages) /\ pool \in Seq(Buffers)
  BY <1>1, <1>2, ConstantFacts DEF TypeOK, Messages
<1>4. \A r \in Pushers : \/ r = p /\ pushing'[r] = None
                         \/ r # p /\ pushing'[r] = pushing[r]
  BY <1>2, <1>3
<1>5. Owned(queue, live, leaked, pushing)'
  <2>1. \A b \in ToSet(queue') \ {CANCEL} :
          /\ b \in live' \ leaked' /\ b \notin ToSet(pool') /\ b # sending'
          /\ \A r \in Pushers : pushing'[r] # b
    <3>1. \A b \in ToSet(queue) : b # None
      BY <1>3, ToSetFacts, ConstantFacts
    <3> QED
      BY <3>1, <1>1, <1>2, <1>4 DEF Owned
  <2>2. \A b \in ToSet(pool') :
          b \in live' \ leaked' /\ b # sending' /\ \A r \in Pushers : pushing'[r] # b
    <3>1. \A b \in ToSet(pool) : b # None
      BY <1>3, ToSetFacts, ConstantFacts
    <3> QED
      BY <3>1, <1>1, <1>2, <1>4 DEF Owned
  <2>3. sending' # None => /\ sending' \in live' \ leaked'
                           /\ \A r \in Pushers : pushing'[r] # sending'
    BY <1>1, <1>2, <1>4 DEF Owned
  <2>4. \A r \in Pushers :
          pushing'[r] # None => /\ pushing'[r] \in live' \ leaked'
                                /\ \A s \in Pushers : pushing'[r] = pushing'[s] => r = s
    BY <1>1, <1>2, <1>4 DEF Owned
  <2>5. leaked' \subseteq live' /\ Once(queue', CANCEL) /\ IsInjective(pool')
    BY <1>1, <1>2 DEF Owned
  <2> QED
    BY <2>1, <2>2, <2>3, <2>4, <2>5 DEF Owned
<1>6. Held(queue, live, leaked, pushing)'
  BY <1>1, <1>2, <1>4 DEF Held
<1>7. Filled(written, live, pushing)'
  <2>1. \A b \in live' : pdu'[b] \in PDUs
    BY <1>1, <1>2 DEF Filled
  <2>2. Unique(written)' /\ \A i \in DOMAIN written' : written'[i] # CANCEL => written'[i].id <= pdus'
    BY <1>1, <1>2 DEF Filled, Unique
  <2>3. \A r \in Pushers :
          pushing'[r] # None =>
            /\ pdu'[pushing'[r]].id <= pdus'
            /\ \A i \in DOMAIN written' : written'[i] # pdu'[pushing'[r]]
            /\ \A s \in Pushers :
                 pushing'[s] # None /\ pdu'[pushing'[r]] = pdu'[pushing'[s]] => r = s
    BY <1>1, <1>2, <1>4 DEF Filled
  <2> QED
    BY <2>1, <2>2, <2>3 DEF Filled
<1>8. Ordered(queue, written)'
  BY <1>1, <1>2 DEF Ordered
<1>9. Complete(queue, written, leaked)'
  BY <1>1, <1>2 DEF Complete, Sends, Here, Revoked
<1>10. SentInv'
  BY <1>1, <1>2 DEF SentInv, CriticalInOrder, SourceInfoFresh
<1>11. TypeOK'
  <2>1. pushing' \in [Pushers -> Buffers \cup {None}]
    BY <1>2, <1>3
  <2>2. failures' \in 0..MaxFailures
    BY <1>1, <1>2, TxThreadAssumption DEF TypeOK
  <2> QED
    BY <2>1, <2>2, <1>1, <1>2 DEF TypeOK
<1>12. StopInv'
  BY <1>1, <1>2 DEF StopInv
<1> QED
  BY <1>5, <1>6, <1>7, <1>8, <1>9, <1>10, <1>11, <1>12 DEF Inv, Queued

\* dispose_buffer: the buffer in the hands of the thread goes to the pool, or
\* back to the heap.
LEMMA DisposeOwned ==
  ASSUME TypeOK, sending # None, dispose_buffer,
         Owned(queue, live, leaked, pushing), Held(queue, live, leaked, pushing),
         UNCHANGED <<queue, leaked, pushing>>
  PROVE  /\ pool' \in Seq(Buffers) /\ live' \subseteq live /\ failures' \in 0..MaxFailures
         /\ Owned(queue, live, leaked, pushing)' /\ Held(queue, live, leaked, pushing)'
<1>1. /\ pool \in Seq(Buffers) /\ sending \in Buffers /\ sending # CANCEL
      /\ queue \in Seq(Messages) /\ sending' = None /\ failures \in 0..MaxFailures
  BY ConstantFacts DEF TypeOK, Messages, dispose_buffer
<1>2. sending \notin ToSet(pool) /\ sending \notin ToSet(queue) /\ sending \notin leaked
  BY <1>1 DEF Owned
<1>3. \A b \in ToSet(queue) : b # None
  BY <1>1, ToSetFacts, ConstantFacts
<1>4. \A b \in ToSet(pool) : b # None
  BY <1>1, ToSetFacts, ConstantFacts
<1>5. CASE pool' = Append(pool, sending) /\ UNCHANGED <<live, failures>>
  <2>1. pool' \in Seq(Buffers) /\ ToSet(pool') = ToSet(pool) \cup {sending}
    BY <1>1, <1>5, ToSetAfter
  <2>2. IsInjective(pool')
    BY <1>1, <1>2, <1>5, AddToInjective DEF Owned
  <2>3. \A b \in ToSet(queue') \ {CANCEL} :
          /\ b \in live' \ leaked' /\ b \notin ToSet(pool') /\ b # sending'
          /\ \A p \in Pushers : pushing'[p] # b
    BY <2>1, <1>1, <1>2, <1>3, <1>5 DEF Owned
  <2>4. \A b \in ToSet(pool') :
          b \in live' \ leaked' /\ b # sending' /\ \A p \in Pushers : pushing'[p] # b
    BY <2>1, <1>1, <1>4, <1>5, ConstantFacts DEF Owned
  <2>5. \A p \in Pushers :
          pushing'[p] # None => /\ pushing'[p] \in live' \ leaked'
                                /\ \A r \in Pushers : pushing'[p] = pushing'[r] => p = r
    BY <1>5 DEF Owned
  <2>6. leaked' \subseteq live' /\ Once(queue', CANCEL)
    BY <1>5 DEF Owned
  <2>7. Owned(queue, live, leaked, pushing)'
    BY <2>2, <2>3, <2>4, <2>5, <2>6, <1>1 DEF Owned
  <2>8. Held(queue, live, leaked, pushing)'
    BY <2>1, <1>5 DEF Held
  <2> QED
    BY <2>1, <2>7, <2>8, <1>1, <1>5
<1>6. CASE failures < MaxFailures /\ failures' = failures + 1 /\ live' = live \ {sending}
           /\ UNCHANGED pool
  <2>1. failures' \in 0..MaxFailures
    BY <1>1, <1>6, TxThreadAssumption
  <2>2. \A b \in ToSet(queue') \ {CANCEL} :
          /\ b \in live' \ leaked' /\ b \notin ToSet(pool') /\ b # sending'
          /\ \A p \in Pushers : pushing'[p] # b
    BY <1>1, <1>2, <1>3, <1>6 DEF Owned
  <2>3. \A b \in ToSet(pool') :
          b \in live' \ leaked' /\ b # sending' /\ \A p \in Pushers : pushing'[p] # b
    BY <1>1, <1>2, <1>4, <1>6 DEF Owned
  <2>4. \A p \in Pushers :
          pushing'[p] # None => /\ pushing'[p] \in live' \ leaked'
                                /\ \A r \in Pushers : pushing'[p] = pushing'[r] => p = r
    BY <1>6 DEF Owned
  <2>5. leaked' \subseteq live' /\ Once(queue', CANCEL) /\ IsInjective(pool')
    BY <1>2, <1>6 DEF Owned
  <2>6. Owned(queue, live, leaked, pushing)'
    BY <2>2, <2>3, <2>4, <2>5, <1>1 DEF Owned
  <2>7. Held(queue, live, leaked, pushing)'
    BY <1>6 DEF Held
  <2> QED
    BY <2>1, <2>6, <2>7, <1>1, <1>6
<1> QED
  BY <1>5, <1>6 DEF dispose_buffer

\* The first message leaves the queue for the hands of the thread, or a
\* CANCEL ends it.
LEMMA ReadInv ==
  ASSUME Inv, Read
  PROVE  Inv'
<1>1. /\ Owned(queue, live, leaked, pushing) /\ Held(queue, live, leaked, pushing)
      /\ Filled(written, live, pushing) /\ Ordered(queue, written)
      /\ Complete(queue, written, leaked) /\ SentInv /\ TypeOK /\ StopInv
  BY DEF Inv, Queued
<1>2. /\ tx = "read" /\ queue # <<>> /\ queue' = Tail(queue)
      /\ UNCHANGED <<pool, live, leaked, pushing, pdus, pdu, wire, owner,
                     thread_cancelled, pipe, peer, failures, overflow, written>>
  BY DEF Read, pushers, stopping, faults
<1>3. queue \in Seq(Messages) /\ sending = None /\ tx # "finished"
  BY <1>1, <1>2 DEF TypeOK, Messages
<1>4. /\ Head(queue) = queue[1] /\ Head(queue) \in Messages
      /\ Tail(queue) \in Seq(Messages)
      /\ \A e : e \in ToSet(queue) <=> e \in ToSet(Tail(queue)) \/ e = Head(queue)
      /\ Once(Tail(queue), CANCEL)
      /\ Head(queue) = CANCEL \/ Head(queue) \notin ToSet(Tail(queue))
  BY <1>1, <1>2, <1>3, HeadFacts, OnceTail DEF Owned
<1>5. /\ DOMAIN queue = 1..Len(queue) /\ DOMAIN queue' = 1..(Len(queue) - 1)
      /\ Len(queue) \in Nat /\ Len(queue) > 0 /\ 1 \in DOMAIN queue
      /\ \A j \in 1..(Len(queue) - 1) : queue'[j] = queue[j + 1]
  BY <1>2, <1>3, TailFacts
<1>6. \A i \in DOMAIN queue' : i + 1 \in DOMAIN queue /\ queue'[i] = queue[i + 1] /\ 1 < i + 1
  BY <1>5
<1>7. Filled(written, live, pushing)' /\ SentInv' /\ StopInv'
  BY <1>1, <1>2 DEF Filled, SentInv, CriticalInOrder, SourceInfoFresh, StopInv
<1>8. \A i, j \in DOMAIN queue' :
        i < j /\ queue'[i] # CANCEL /\ queue'[j] # CANCEL =>
          Before(written, pdu[queue'[i]], pdu[queue'[j]])
  <2>1. \A i, j \in DOMAIN queue' : i < j => i + 1 < j + 1
    BY <1>5
  <2>2. \A i, j \in DOMAIN queue :
          i < j /\ queue[i] # CANCEL /\ queue[j] # CANCEL =>
            Before(written, pdu[queue[i]], pdu[queue[j]])
    BY <1>1 DEF Ordered
  <2> QED
    BY <2>1, <2>2, <1>6
<1>9. /\ \A i \in DOMAIN queue' : queue'[i] # CANCEL => Written(written, pdu[queue'[i]])
      /\ \A k \in DOMAIN wire, i \in DOMAIN queue' :
           queue'[i] # CANCEL => Before(written, wire[k], pdu[queue'[i]])
      /\ \A k \in DOMAIN wire : Written(written, wire[k])
      /\ \A k, l \in DOMAIN wire : k < l => Before(written, wire[k], wire[l])
  BY <1>1, <1>6 DEF Ordered
<1>10. CASE Head(queue) = CANCEL
  <2>1. tx' = "finished" /\ sending' = None
    BY <1>3, <1>10 DEF Read
  <2>2. Owned(queue, live, leaked, pushing)'
    BY <2>1, <1>1, <1>2, <1>3, <1>4 DEF Owned
  <2>3. Held(queue, live, leaked, pushing)'
    <3>1. CANCEL \notin live
      BY <1>1, ConstantFacts DEF TypeOK
    <3> QED
      BY <2>1, <3>1, <1>1, <1>2, <1>3, <1>4, <1>10 DEF Held
  <2>4. Ordered(queue, written)'
    BY <2>1, <1>2, <1>8, <1>9 DEF Ordered
  <2>5. Complete(queue, written, leaked)'
    BY <2>1 DEF Complete, Sends
  <2>6. TypeOK'
    BY <2>1, <1>1, <1>2, <1>4 DEF TypeOK, Messages
  <2> QED
    BY <2>2, <2>3, <2>4, <2>5, <2>6, <1>7 DEF Inv, Queued
<1>11. CASE Head(queue) # CANCEL
  <2>1. tx' = "poll" /\ sending' = queue[1] /\ sending' \in Buffers /\ sending' # None
        /\ sending' # CANCEL /\ queue[1] # CANCEL
    BY <1>4, <1>11, ConstantFacts DEF Read, Messages
  <2>2. /\ sending' \in live \ leaked /\ sending' \notin ToSet(pool)
        /\ sending' \notin ToSet(queue') /\ \A p \in Pushers : pushing[p] # sending'
    BY <2>1, <1>1, <1>2, <1>4, <1>11 DEF Owned
  <2>3. Owned(queue, live, leaked, pushing)'
    BY <2>1, <2>2, <1>1, <1>2, <1>4 DEF Owned
  <2>4. Held(queue, live, leaked, pushing)'
    <3>1. None \notin live
      BY <1>1, ConstantFacts DEF TypeOK
    <3> QED
      BY <2>1, <3>1, <1>1, <1>2, <1>3, <1>4 DEF Held
  <2>5. /\ Written(written, pdu[sending'])
        /\ \A i \in DOMAIN queue' : queue'[i] # CANCEL =>
             Before(written, pdu[sending'], pdu[queue'[i]])
        /\ \A k \in DOMAIN wire : Before(written, wire[k], pdu[sending'])
    BY <2>1, <1>1, <1>5, <1>6 DEF Ordered
  <2>6. Ordered(queue, written)'
    BY <2>1, <2>5, <1>2, <1>8, <1>9 DEF Ordered
  <2>7. Complete(queue, written, leaked)'
    <3>1. ASSUME NEW x, Here(queue, x)
          PROVE  Here(queue, x)'
      <4>1. CASE \E i \in DOMAIN queue : queue[i] # CANCEL /\ pdu[queue[i]] = x
        <5>1. PICK i \in DOMAIN queue : queue[i] # CANCEL /\ pdu[queue[i]] = x
          BY <4>1
        <5>2. CASE i = 1
          BY <5>1, <5>2, <2>1, <1>2 DEF Here
        <5>3. CASE i # 1
          <6>1. i - 1 \in DOMAIN queue' /\ queue'[i - 1] = queue[i]
            BY <5>3, <1>5
          <6> QED
            BY <5>1, <6>1, <1>2 DEF Here
        <5> QED
          BY <5>2, <5>3
      <4> QED
        BY <3>1, <4>1, <1>2, <1>3 DEF Here
    <3>2. Sends' => Sends
      BY <1>2, <1>3, <2>1 DEF Sends
    <3> QED
      BY <3>1, <3>2, <1>1, <1>2 DEF Complete, Revoked
  <2>8. TypeOK'
    BY <2>1, <1>1, <1>2, <1>4 DEF TypeOK, Messages
  <2> QED
    BY <2>3, <2>4, <2>6, <2>7, <2>8, <1>7 DEF Inv, Queued
<1> QED
  BY <1>10, <1>11

\* poll: the cancel pipe, an error, or room for more.
LEMMA PollInv ==
  ASSUME Inv, Poll
  PROVE  Inv'
<1>1. TypeOK /\ tx = "poll" /\ sending # None /\ pipe \in BOOLEAN /\ StopInv
  BY DEF Inv, TypeOK, Poll
<1>2. UNCHANGED <<queue, pool, leaked, pushing, pdu, pdus, wire, owner,
                  thread_cancelled, peer, failures, overflow, written>>
  BY DEF Poll, pushers, faults
<1>3. CASE Finish
  <2>1. pipe' \in BOOLEAN /\ failures' \in 0..MaxFailures
    BY <1>1, <1>2 DEF Poll, TypeOK
  <2> QED
    BY <2>1, <1>1, <1>2, <1>3, FinishInv
<1>4. CASE tx' = "header" /\ UNCHANGED <<live, sending, pipe>>
  <2>1. TypeOK'
    BY <1>1, <1>2, <1>4 DEF TypeOK
  <2>2. StopInv' /\ (Sends' => Sends)
    BY <1>1, <1>2, <1>4 DEF StopInv, Sends
  <2> QED
    BY <2>1, <2>2, <1>2, <1>4, Moves DEF buffers
<1> QED
  BY <1>3, <1>4 DEF Poll

\* The header of the PDU.
LEMMA SendHeaderInv ==
  ASSUME Inv, SendHeader
  PROVE  Inv'
<1>1. TypeOK /\ tx = "header" /\ sending # None /\ pipe \in BOOLEAN /\ StopInv
  BY DEF Inv, TypeOK, SendHeader
<1>2. UNCHANGED <<queue, pool, leaked, pushing, pdu, pdus, wire, owner, pipe,
                  thread_cancelled, peer, overflow, written>>
  BY DEF SendHeader, pushers, faults, stopping
<1>3. CASE Finish
  <2>1. failures' \in 0..MaxFailures
    BY <1>1, TxThreadAssumption DEF SendHeader, TypeOK
  <2> QED
    BY <2>1, <1>1, <1>2, <1>3, FinishInv
<1>4. CASE tx' = "body" /\ UNCHANGED <<live, sending, failures>>
  <2>1. TypeOK'
    BY <1>1, <1>2, <1>4 DEF TypeOK
  <2>2. StopInv' /\ (Sends' => Sends)
    BY <1>1, <1>2, <1>4 DEF StopInv, Sends
  <2> QED
    BY <2>1, <2>2, <1>2, <1>4, Moves DEF buffers
<1> QED
  BY <1>3, <1>4 DEF SendHeader

\* A cancelled thread drops the PDU between two chunks of it; it will send
\* nothing more.
LEMMA CheckCancelledInv ==
  ASSUME Inv, CheckCancelled
  PROVE  Inv'
<1>1. TypeOK /\ tx = "body" /\ sending # None /\ StopInv
  BY DEF Inv, TypeOK, CheckCancelled
<1>2. UNCHANGED <<queue, leaked, pushing, pdu, pdus, wire, owner, pipe,
                  thread_cancelled, peer, overflow, written>>
  BY DEF CheckCancelled, pushers, faults, stopping
<1>3. CASE thread_cancelled /\ dispose_buffer
  <2>1. tx' = "read" /\ sending' = None
    BY <1>3 DEF dispose_buffer
  <2>2. /\ Owned(queue, live, leaked, pushing) /\ Held(queue, live, leaked, pushing)
        /\ Filled(written, live, pushing) /\ Ordered(queue, written) /\ SentInv
    BY DEF Inv, Queued
  <2>3. /\ pool' \in Seq(Buffers) /\ live' \subseteq live /\ failures' \in 0..MaxFailures
        /\ Owned(queue, live, leaked, pushing)' /\ Held(queue, live, leaked, pushing)'
    BY <2>2, <1>1, <1>2, <1>3, DisposeOwned
  <2>4. Filled(written, live, pushing)' /\ Ordered(queue, written)'
    BY <2>1, <2>2, <2>3, <1>2 DEF Filled, Ordered
  <2>5. Complete(queue, written, leaked)'
    BY <2>1, <1>2, <1>3 DEF Complete, Sends
  <2>6. SentInv' /\ StopInv'
    BY <2>1, <2>2, <1>1, <1>2 DEF SentInv, CriticalInOrder, SourceInfoFresh, StopInv
  <2>7. TypeOK'
    BY <2>1, <2>3, <1>1, <1>2 DEF TypeOK
  <2> QED
    BY <2>3, <2>4, <2>5, <2>6, <2>7 DEF Inv, Queued
<1>4. CASE ~thread_cancelled /\ tx' = "chunk" /\ UNCHANGED <<pool, live, sending, failures>>
  <2>1. TypeOK'
    BY <1>1, <1>2, <1>4 DEF TypeOK
  <2>2. StopInv' /\ (Sends' => Sends)
    BY <1>1, <1>2, <1>4 DEF StopInv, Sends
  <2> QED
    BY <2>1, <2>2, <1>2, <1>4, Moves DEF buffers
<1> QED
  BY <1>3, <1>4 DEF CheckCancelled

\* The last chunk: everything that had to be sent before this PDU was, for
\* nothing of it is in the queue or can have been dropped.
LEMMA SendChunkInv ==
  ASSUME Inv, SendChunk
  PROVE  Inv'
<1>1. /\ TypeOK /\ tx = "chunk" /\ sending # None /\ StopInv /\ SentInv /\ pipe \in BOOLEAN
      /\ Owned(queue, live, leaked, pushing) /\ Held(queue, live, leaked, pushing)
      /\ Filled(written, live, pushing) /\ Ordered(queue, written)
      /\ Complete(queue, written, leaked) /\ sending \in Buffers /\ wire \in Seq(PDUs)
      /\ queue \in Seq(Messages)
  BY DEF Inv, Queued, TypeOK, SendChunk, Messages
<1>2. UNCHANGED <<queue, leaked, pushing, pdu, pdus, owner, pipe,
                  thread_cancelled, peer, overflow, written>>
  BY DEF SendChunk, pushers, faults, stopping
<1>3. CASE Finish /\ UNCHANGED <<pool, wire, failures>>
  <2>1. failures' \in 0..MaxFailures
    BY <1>1, <1>3 DEF TypeOK
  <2> QED
    BY <2>1, <1>1, <1>2, <1>3, FinishInv
<1>4. CASE wire' = Append(wire, pdu[sending]) /\ dispose_buffer
  <2> DEFINE x == pdu[sending]
             N == Len(wire) + 1
  <2>1. tx' = "read" /\ sending' = None
    BY <1>4 DEF dispose_buffer
  <2>2. x \in PDUs /\ x # CANCEL
    BY <1>1, ConstantFacts DEF Owned, Filled
  <2>3. /\ wire' \in Seq(PDUs) /\ DOMAIN wire = 1..Len(wire) /\ DOMAIN wire' = 1..N
        /\ wire'[N] = x /\ \A k \in 1..Len(wire) : wire'[k] = wire[k]
        /\ Len(wire) \in Nat
    <3>1. /\ Append(wire, x) \in Seq(PDUs) /\ Len(Append(wire, x)) = Len(wire) + 1
          /\ Append(wire, x)[Len(wire) + 1] = x
          /\ \A k \in 1..Len(wire) : Append(wire, x)[k] = wire[k]
      BY <1>1, <2>2, AppendFacts
    <3> HIDE DEF x
    <3>2. wire' = Append(wire, x)
      BY <1>4 DEF x
    <3> QED
      BY <1>1, <3>1, <3>2
  <2>4. /\ pool' \in Seq(Buffers) /\ live' \subseteq live /\ failures' \in 0..MaxFailures
        /\ Owned(queue, live, leaked, pushing)' /\ Held(queue, live, leaked, pushing)'
    BY <1>1, <1>2, <1>4, DisposeOwned
  <2>5. Filled(written, live, pushing)'
    BY <2>4, <1>1, <1>2 DEF Filled
  <2>6. /\ written \in Seq(PDUs \cup {CANCEL}) /\ Unique(written)
        /\ DOMAIN written = 1..Len(written) /\ Len(written) \in Nat
    BY <1>1 DEF TypeOK, Filled
  <2>7. /\ Written(written, x)
        /\ \A k \in DOMAIN wire : Written(written, wire[k]) /\ Before(written, wire[k], x)
        /\ \A i \in DOMAIN queue : queue[i] # CANCEL => Before(written, x, pdu[queue[i]])
    BY <1>1 DEF Ordered
  <2>8. \A k \in DOMAIN wire' : \/ k = N /\ wire'[k] = x
                                \/ k \in DOMAIN wire /\ wire'[k] = wire[k]
    BY <2>3
  <2>9. Complete(queue, written, leaked)'
    <3>1. ASSUME NEW y, Here(queue, y)
          PROVE  Here(queue, y)'
      <4>1. CASE \E k \in DOMAIN wire : wire[k] = y
        <5>1. PICK k \in DOMAIN wire : wire[k] = y
          BY <4>1
        <5>2. k \in DOMAIN wire' /\ wire'[k] = y
          BY <5>1, <2>3
        <5> QED
          BY <5>2 DEF Here
      <4>2. CASE x = y
        <5>1. N \in DOMAIN wire' /\ wire'[N] = y
          BY <4>2, <2>3
        <5> QED
          BY <5>1 DEF Here
      <4> QED
        BY <3>1, <4>1, <4>2, <1>2 DEF Here
    <3>2. Sends
      BY <1>1 DEF Sends
    <3> QED
      BY <3>1, <3>2, <1>1, <1>2 DEF Complete, Revoked
  <2>10. Ordered(queue, written)'
    <3> HIDE DEF x, N
    <3>1. \A k \in DOMAIN wire' : Written(written, wire'[k])
      BY <2>7, <2>8
    <3>2. ASSUME NEW k \in DOMAIN wire', NEW l \in DOMAIN wire', k < l
          PROVE  Before(written, wire'[k], wire'[l])
      <4>1. k \in DOMAIN wire /\ wire'[k] = wire[k]
        BY <3>2, <2>3 DEF N
      <4> QED
        BY <3>2, <4>1, <2>7, <2>8, <1>1 DEF Ordered
    <3>3. \A k \in DOMAIN wire', i \in DOMAIN queue :
            queue[i] # CANCEL => Before(written, wire'[k], pdu[queue[i]])
      BY <2>7, <2>8, <1>1 DEF Ordered
    <3> QED
      BY <3>1, <3>2, <3>3, <2>1, <1>1, <1>2 DEF Ordered
  <2>11. PICK i \in DOMAIN written : written[i] = x
    BY <2>7 DEF Written
  <2>12. ASSUME NEW j \in DOMAIN written, j < i, written[j] # CANCEL, Here(queue, written[j])
         PROVE  \E n \in 1..N - 1 : wire'[n] = written[j]
    <3>1. ~Before(written, x, written[j])
      BY <2>2, <2>6, <2>11, <2>12, BeforeFacts
    <3>2. x # written[j]
      BY <2>2, <2>6, <2>11, <2>12 DEF Unique
    <3>3. \E k \in DOMAIN wire : wire[k] = written[j]
      BY <3>1, <3>2, <2>7, <2>12 DEF Here
    <3> QED
      BY <3>3, <2>3
  <2>13. \A k \in DOMAIN wire : wire[k] # x
    BY <2>2, <2>6, <2>7, BeforeFacts
  <2>14. Sends
    BY <1>1 DEF Sends
  <2>15. CriticalInOrder'
    <3>1. ASSUME NEW k \in DOMAIN wire', NEW l \in DOMAIN wire', wire'[k] = wire'[l]
          PROVE  k = l
      <4> HIDE DEF x, N
      <4> QED
        BY <3>1, <2>8, <2>13, <1>1 DEF SentInv, CriticalInOrder
    <3>2. ASSUME NEW k \in DOMAIN wire', IsCritical(wire'[k])
          PROVE  \E a \in DOMAIN written :
                   /\ written[a] = wire'[k]
                   /\ \A j \in 1..a - 1 :
                        IsCritical(written[j]) => \E n \in 1..k - 1 : wire'[n] = written[j]
      <4>1. CASE k = N
        <5>1. ASSUME NEW j \in 1..i - 1, IsCritical(written[j])
              PROVE  \E n \in 1..N - 1 : wire'[n] = written[j]
          <6>1. j \in DOMAIN written /\ j < i /\ written[j] # CANCEL
            BY <5>1, <2>6 DEF IsCritical
          <6>2. Here(queue, written[j])
            BY <6>1, <5>1, <2>14, <1>1 DEF Complete
          <6> QED
            BY <6>1, <6>2, <2>12
        <5> QED
          BY <4>1, <5>1, <2>3, <2>11
      <4>2. CASE k \in DOMAIN wire /\ wire'[k] = wire[k]
        <5>1. PICK a \in DOMAIN written :
                /\ written[a] = wire[k]
                /\ \A j \in 1..a - 1 :
                     IsCritical(written[j]) => \E n \in 1..k - 1 : wire[n] = written[j]
          BY <3>2, <4>2, <1>1 DEF SentInv, CriticalInOrder
        <5>2. \A n \in 1..k - 1 : wire'[n] = wire[n]
          BY <4>2, <2>3
        <5> QED
          BY <4>2, <5>1, <5>2
      <4> QED
        BY <2>8, <4>1, <4>2
    <3> QED
      BY <3>1, <3>2, <1>2 DEF CriticalInOrder
  <2>16. SourceInfoFresh'
    <3> SUFFICES ASSUME leaked = {}, NEW k \in DOMAIN wire', NEW a \in DOMAIN written,
                        NEW j \in DOMAIN written, IsCritical(wire'[k]),
                        written[a] = wire'[k], j < a, IsSourceInfo(written[j]),
                        \A l \in j + 1..a - 1 : ~IsSourceInfo(written[l])
                 PROVE  \E n \in 1..k - 1 : wire'[n] = written[j]
      BY <1>2 DEF SourceInfoFresh
    <3>1. CASE k = N
      <4>1. a = i
        BY <3>1, <2>2, <2>3, <2>6, <2>11 DEF Unique
      <4>2. written[j] # CANCEL
        BY DEF IsSourceInfo
      <4>3. ~Revoked(written, j)
        <5> SUFFICES ASSUME Revoked(written, j) PROVE FALSE
          OBVIOUS
        <5>1. PICK l \in DOMAIN written :
                /\ j < l /\ IsSourceInfo(written[l])
                /\ \A b \in j..l : ~IsCritical(written[b])
          BY DEF Revoked
        <5>2. ~(a <= l)
          BY <5>1, <2>6
        <5>3. l \in j + 1..a - 1
          BY <5>1, <5>2, <2>6
        <5> QED
          BY <5>1, <5>3
      <4>4. Here(queue, written[j])
        BY <4>3, <2>14, <1>1 DEF Complete
      <4> QED
        BY <3>1, <4>1, <4>2, <4>4, <2>12
    <3>2. CASE k \in DOMAIN wire /\ wire'[k] = wire[k]
      <4>1. PICK n \in 1..k - 1 : wire[n] = written[j]
        BY <3>2, <1>1 DEF SentInv, SourceInfoFresh
      <4>2. wire'[n] = wire[n]
        BY <3>2, <2>3
      <4> QED
        BY <4>1, <4>2
    <3> QED
      BY <2>8, <3>1, <3>2
  <2>17. TypeOK'
    BY <2>1, <2>3, <2>4, <1>1, <1>2, <1>4 DEF TypeOK
  <2>18. StopInv'
    BY <1>1, <1>2 DEF StopInv
  <2> QED
    BY <2>4, <2>5, <2>9, <2>10, <2>15, <2>16, <2>17, <2>18 DEF Inv, Queued, SentInv
<1> QED
  BY <1>3, <1>4 DEF SendChunk

\* The steps of the owner that do not push: a hard stop cancels the thread,
\* and a thread that was joined has finished.
LEMMA OwnerInv ==
  ASSUME Inv, \/ stop_soft \/ JoinSoft \/ CancelFails \/ stop \/ WritePipe \/ Join
  PROVE  Inv'
<1>1. TypeOK /\ StopInv
  BY DEF Inv
<1>2. UNCHANGED <<buffers, thread, pdus, overflow, written, peer>>
  BY DEF stop_soft, JoinSoft, CancelFails, stop, WritePipe, Join, faults
<1>3. TypeOK' /\ StopInv' /\ (Sends' => Sends)
  <2>1. CASE stop_soft
    BY <1>1, <1>2, <2>1 DEF stop_soft, TypeOK, StopInv, Sends, buffers, thread, faults
  <2>2. CASE JoinSoft
    BY <1>1, <1>2, <2>2 DEF JoinSoft, TypeOK, StopInv, Sends, buffers, thread, faults
  <2>3. CASE CancelFails
    <3>1. failures' \in 0..MaxFailures
      BY <1>1, <2>3, TxThreadAssumption DEF CancelFails, TypeOK
    <3> QED
      BY <1>1, <1>2, <2>3, <3>1 DEF CancelFails, TypeOK, StopInv, Sends, buffers, thread
  <2>4. CASE stop
    BY <1>1, <1>2, <2>4 DEF stop, TypeOK, StopInv, Sends, buffers, thread, faults
  <2>5. CASE WritePipe
    BY <1>1, <1>2, <2>5 DEF WritePipe, TypeOK, StopInv, Sends, buffers, thread, faults
  <2>6. CASE Join
    BY <1>1, <1>2, <2>6 DEF Join, TypeOK, StopInv, Sends, buffers, thread, faults
  <2> QED
    BY <2>1, <2>2, <2>3, <2>4, <2>5, <2>6
<1> QED
  BY <1>2, <1>3, Moves DEF thread

\* The other end.
LEMMA PeerInv ==
  ASSUME Inv, Peer
  PROVE  Inv'
<1>1. TypeOK /\ StopInv
  BY DEF Inv
<1>2. TypeOK'
  BY <1>1 DEF Peer, TypeOK, buffers, thread, stopping, faults
<1>3. StopInv' /\ (Sends' => Sends)
  BY <1>1 DEF Peer, StopInv, Sends, thread, stopping
<1>4. UNCHANGED <<buffers, sending, wire, pdus, overflow, written>>
  BY DEF Peer, thread, faults
<1> QED
  BY <1>2, <1>3, <1>4, Moves

\* What is left is freed, when the thread has finished.
LEMMA FinalizeInv ==
  ASSUME Inv, finalize
  PROVE  Inv'
<1>1. /\ Owned(queue, live, leaked, pushing) /\ Held(queue, live, leaked, pushing)
      /\ Filled(written, live, pushing) /\ Ordered(queue, written)
      /\ Complete(queue, written, leaked) /\ SentInv /\ TypeOK /\ tx = "finished"
  BY DEF Inv, Queued, StopInv, finalize
<1>2. /\ live' = live \ (ToSet(pool) \cup ToSet(queue)) /\ pool' = <<>> /\ queue' = <<>>
      /\ owner' = "gone"
      /\ UNCHANGED <<leaked, pushing, pdus, pdu, tx, sending, wire, thread_cancelled,
                     pipe, peer, failures, overflow, written>>
  BY DEF finalize, pushers, thread, faults
<1>3. ToSet(queue') = {} /\ ToSet(pool') = {}
  BY <1>2 DEF ToSet
<1>4. sending = None
  BY <1>1 DEF TypeOK
<1>5. \A b \in leaked : b \notin ToSet(pool) \cup ToSet(queue)
  <2>1. CANCEL \notin leaked
    BY <1>1, ConstantFacts DEF TypeOK
  <2> QED
    BY <2>1, <1>1 DEF Owned
<1>6. \A p \in Pushers : pushing[p] # None => pushing[p] \notin ToSet(pool) \cup ToSet(queue)
  <2>1. \A p \in Pushers : pushing[p] # CANCEL
    BY <1>1, TxThreadAssumption DEF TypeOK
  <2> QED
    BY <2>1, <1>1 DEF Owned
<1>7. Owned(queue, live, leaked, pushing)'
  <2>1. Once(queue', CANCEL) /\ IsInjective(pool')
    BY <1>2 DEF Once, IsInjective
  <2>2. \A p \in Pushers :
          pushing'[p] # None => /\ pushing'[p] \in live' \ leaked'
                                /\ \A r \in Pushers : pushing'[p] = pushing'[r] => p = r
    BY <1>1, <1>2, <1>6 DEF Owned
  <2>3. leaked' \subseteq live'
    BY <1>1, <1>2, <1>5 DEF Owned
  <2> QED
    BY <2>1, <2>2, <2>3, <1>2, <1>3, <1>4 DEF Owned
<1>8. Held(queue, live, leaked, pushing)'
  BY <1>1, <1>2 DEF Held
<1>9. Filled(written, live, pushing)'
  BY <1>1, <1>2 DEF Filled
<1>10. Ordered(queue, written)'
  BY <1>1, <1>2, <1>4 DEF Ordered
<1>11. Complete(queue, written, leaked)'
  BY <1>1, <1>2 DEF Complete, Sends
<1>12. SentInv'
  BY <1>1, <1>2 DEF SentInv, CriticalInOrder, SourceInfoFresh
<1>13. TypeOK'
  <2>1. <<>> \in Seq(Buffers \cup {CANCEL}) /\ <<>> \in Seq(Buffers)
    OBVIOUS
  <2> QED
    BY <2>1, <1>1, <1>2 DEF TypeOK
<1>14. StopInv'
  BY <1>1, <1>2 DEF StopInv
<1> QED
  BY <1>7, <1>8, <1>9, <1>10, <1>11, <1>12, <1>13, <1>14 DEF Inv, Queued

LEMMA StutterInv ==
  ASSUME Inv, UNCHANGED vars
  PROVE  Inv'
<1>1. TypeOK' /\ StopInv' /\ (Sends' => Sends)
  BY DEF Inv, vars, TypeOK, StopInv, Sends
<1>2. UNCHANGED <<buffers, sending, wire, pdus, overflow, written>>
  BY DEF vars, buffers
<1> QED
  BY <1>1, <1>2, Moves

\* Every step keeps the invariant.
LEMMA StepInv == Inv /\ [Next]_vars => Inv'
<1> SUFFICES ASSUME Inv, [Next]_vars PROVE Inv'
  OBVIOUS
<1>1. ASSUME NEW p \in Pushers, alloc_buffer(p) PROVE Inv'
  BY <1>1, AllocInv
<1>2. ASSUME NEW p \in Pushers, push_zerocopy(p) PROVE Inv'
  BY <1>2, PushInv
<1>3. ASSUME NEW p \in Pushers, PushFails(p) PROVE Inv'
  BY <1>3, PushFailsInv
<1>4. CASE Read
  BY <1>4, ReadInv
<1>5. CASE Poll
  BY <1>5, PollInv
<1>6. CASE SendHeader
  BY <1>6, SendHeaderInv
<1>7. CASE CheckCancelled
  BY <1>7, CheckCancelledInv
<1>8. CASE SendChunk
  BY <1>8, SendChunkInv
<1>9. CASE \/ stop_soft \/ JoinSoft \/ CancelFails \/ stop \/ WritePipe \/ Join
  BY <1>9, OwnerInv
<1>10. CASE cancel_soft
  BY <1>10, CancelSoftInv
<1>11. CASE cancel
  BY <1>11, CancelInv
<1>12. CASE finalize
  BY <1>12, FinalizeInv
<1>13. CASE Peer
  BY <1>13, PeerInv
<1>14. CASE UNCHANGED vars
  BY <1>14, StutterInv
<1> QED
  BY <1>1, <1>2, <1>3, <1>4, <1>5, <1>6, <1>7, <1>8, <1>9, <1>10, <1>11, <1>12, <1>13,
     <1>14 DEF Next

\* The inductive invariant holds in every state of the client's transmission:
\* each buffer of tx.c has one owner, what was sent, is in the hands of the
\* thread and is queued are in the order of writing, and nothing that must be
\* sent is missing while something can still be sent.
THEOREM InvHolds == Spec => []Inv
<1>1. Init => Inv
  BY InitInv
<1>2. Inv /\ [Next]_vars => Inv'
  BY StepInv
<1> QED
  BY <1>1, <1>2, PTL DEF Spec

-----------------------------------------------------------------------------
(***************************************************************************)
(* What follows.                                                           *)
(***************************************************************************)
\* Every variable has the values the fields of the C structures can have.
THEOREM TypeCorrect == Spec => []TypeOK
<1>1. Inv => TypeOK
  BY DEF Inv
<1> QED
  BY <1>1, InvHolds, PTL

\* No PDU is sent twice, and the critical PDUs are sent in the order of writing
\* without a gap, whatever suscli_analyzer_client_tx_mq_cleanup throws away,
\* wherever the hard stop finds the thread, and whatever memory is missing.
THEOREM CriticalDelivered == Spec => []CriticalInOrder
<1>1. Inv => CriticalInOrder
  BY DEF Inv, SentInv
<1> QED
  BY <1>1, InvHolds, PTL

\* A critical PDU goes out after the source info that was in force when it was
\* queued, if post_cleanup never lacked the memory to put one back: the source
\* infos that try_destroy drops are revoked by one that stays in front.
THEOREM InfoComesFirst == Spec => []SourceInfoFresh
<1>1. Inv => SourceInfoFresh
  BY DEF Inv, SentInv
<1> QED
  BY <1>1, InvHolds, PTL

\* A set whose members are all the same has one member, or none.
LEMMA AtMostOne ==
  ASSUME NEW T, \A x, y \in T : x = y
  PROVE  Cardinality(T) = IF T = {} THEN 0 ELSE 1
<1>1. CASE T = {}
  BY <1>1, FS_EmptySet
<1>2. CASE T # {}
  <2>1. PICK x : x \in T
    BY <1>2
  <2>2. T = {x}
    BY <2>1
  <2>3. Cardinality({x}) = 1
    BY FS_Singleton
  <2> QED
    BY <1>2, <2>2, <2>3
<1> QED
  BY <1>1, <1>2

\* An allocated buffer is in the queue, or in the pool, or with one thread, once,
\* and a freed one nowhere: no path of tx.c frees a buffer twice, sends one
\* that is being filled, or loses one, but for the source info that
\* post_cleanup has no memory to put back.
THEOREM OneOwner == Spec => []BufferHasOneOwner
<1>1. ASSUME Inv, NEW b \in Buffers
      PROVE  References(b) = IF b \in live THEN 1 ELSE 0
  <2> DEFINE Q == {i \in DOMAIN queue : queue[i] = b}
             P == {i \in DOMAIN pool : pool[i] = b}
             R == {p \in Pushers : pushing[p] = b}
  <2>1. /\ Owned(queue, live, leaked, pushing) /\ Held(queue, live, leaked, pushing)
        /\ queue \in Seq(Messages) /\ pool \in Seq(Buffers)
        /\ b # CANCEL /\ b # None
    BY <1>1, ConstantFacts DEF Inv, Queued, TypeOK, Messages
  <2>2. /\ DOMAIN queue = 1..Len(queue) /\ DOMAIN pool = 1..Len(pool)
        /\ b \in ToSet(queue) <=> Q # {}
        /\ b \in ToSet(pool) <=> P # {}
    BY <2>1, ToSetFacts
  <2>3. \A i, j \in Q : i = j
    BY <2>1, <2>2 DEF Owned, Once
  <2>4. \A i, j \in P : i = j
    BY <2>1 DEF Owned, IsInjective
  <2>5. \A i, j \in R : i = j
    BY <2>1 DEF Owned
  <2>6. /\ Cardinality(Q) = IF b \in ToSet(queue) THEN 1 ELSE 0
        /\ Cardinality(P) = IF b \in ToSet(pool) THEN 1 ELSE 0
        /\ Cardinality(R) = IF R # {} THEN 1 ELSE 0
    <3> HIDE DEF Q, P, R
    <3>1. /\ Cardinality(Q) = IF Q = {} THEN 0 ELSE 1
          /\ Cardinality(P) = IF P = {} THEN 0 ELSE 1
          /\ Cardinality(R) = IF R = {} THEN 0 ELSE 1
      BY <2>3, <2>4, <2>5, AtMostOne
    <3> QED
      BY <3>1, <2>2
  <2>7. R # {} <=> \E p \in Pushers : pushing[p] = b
    OBVIOUS
  <2>8. References(b) = (IF b \in ToSet(queue) THEN 1 ELSE 0)
                          + (IF b \in ToSet(pool) THEN 1 ELSE 0)
                          + (IF R # {} THEN 1 ELSE 0)
                          + (IF sending = b THEN 1 ELSE 0)
                          + (IF b \in leaked THEN 1 ELSE 0)
    BY <2>6 DEF References
  <2>9. /\ b \in ToSet(queue) => /\ b \in live \ leaked /\ b \notin ToSet(pool)
                                 /\ b # sending /\ R = {}
        /\ b \in ToSet(pool) => b \in live \ leaked /\ b # sending /\ R = {}
        /\ R # {} => b \in live \ leaked /\ b # sending
        /\ b = sending => b \in live \ leaked
        /\ b \in leaked => b \in live
    BY <2>1, <2>7 DEF Owned
  <2>10. b \in live => \/ b \in ToSet(queue) \/ b \in ToSet(pool) \/ b = sending
                       \/ b \in leaked \/ R # {}
    BY <2>1, <2>7 DEF Held
  <2> HIDE DEF R
  <2> QED
    BY <2>8, <2>9, <2>10
<1>2. Inv => BufferHasOneOwner
  BY <1>1 DEF BufferHasOneOwner
<1> QED
  BY <1>2, InvHolds, PTL

=============================================================================
