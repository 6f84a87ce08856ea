----------------------------- MODULE SeqLemmas -----------------------------
(***************************************************************************)
(* What the sequence operators used for message queues return, in the form *)
(* (length, and the element at each place) the proofs need.                *)
(***************************************************************************)
EXTENDS Integers, SequencesExt, SequenceTheorems, TLAPS

\* Removing the message at place i moves the later ones forward
\* (suscan_mq_pop_w_type, suscan_mq_trigger_cleanup).
LEMMA RemoveAtFacts ==
  ASSUME NEW S, NEW s \in Seq(S), NEW i \in 1..Len(s)
  PROVE  /\ RemoveAt(s, i) \in Seq(S)
         /\ Len(RemoveAt(s, i)) = Len(s) - 1
         /\ \A j \in 1..(Len(s) - 1) :
              RemoveAt(s, i)[j] = IF j < i THEN s[j] ELSE s[j + 1]
<1> DEFINE a == SubSeq(s, 1, i - 1)
           b == SubSeq(s, i + 1, Len(s))
<1>1. /\ a \in Seq(S) /\ Len(a) = i - 1
      /\ \A j \in 1..(i - 1) : a[j] = s[j]
  OBVIOUS
<1>2. /\ b \in Seq(S) /\ Len(b) = Len(s) - i
      /\ \A j \in 1..(Len(s) - i) : b[j] = s[j + i]
  OBVIOUS
<1> HIDE DEF a, b
<1>3. /\ a \o b \in Seq(S)
      /\ Len(a \o b) = Len(a) + Len(b)
      /\ \A j \in 1..(Len(a) + Len(b)) :
           (a \o b)[j] = IF j <= Len(a) THEN a[j] ELSE b[j - Len(a)]
  BY <1>1, <1>2, ConcatProperties
<1>4. \A j \in 1..(Len(s) - 1) : ~(j < i) => b[j - (i - 1)] = s[j + 1]
  BY <1>2
<1>5. \A j \in 1..(Len(s) - 1) : j < i => a[j] = s[j]
  BY <1>1
<1>6. Len(a \o b) = Len(s) - 1
  BY <1>1, <1>2, <1>3
<1>7. \A j \in 1..(Len(s) - 1) :
        (a \o b)[j] = IF j < i THEN s[j] ELSE s[j + 1]
  <2> TAKE j \in 1..(Len(s) - 1)
  <2>1. (a \o b)[j] = IF j <= i - 1 THEN a[j] ELSE b[j - (i - 1)]
    BY <1>1, <1>2, <1>3
  <2> QED
    BY <2>1, <1>4, <1>5
<1>8. RemoveAt(s, i) = a \o b
  BY DEF RemoveAt, a, b
<1> QED
  BY <1>3, <1>6, <1>7, <1>8

\* An urgent message goes to place 1 and moves the others back
\* (suscan_mq_push_front).
LEMMA ConsFacts ==
  ASSUME NEW S, NEW s \in Seq(S), NEW e \in S
  PROVE  /\ Cons(e, s) \in Seq(S)
         /\ Len(Cons(e, s)) = Len(s) + 1
         /\ Cons(e, s)[1] = e
         /\ \A j \in 2..(Len(s) + 1) : Cons(e, s)[j] = s[j - 1]
  BY DEF Cons

\* A normal message goes to the last place (suscan_mq_push).
LEMMA AppendFacts ==
  ASSUME NEW S, NEW s \in Seq(S), NEW e \in S
  PROVE  /\ Append(s, e) \in Seq(S)
         /\ Len(Append(s, e)) = Len(s) + 1
         /\ Append(s, e)[Len(s) + 1] = e
         /\ \A j \in 1..Len(s) : Append(s, e)[j] = s[j]
  OBVIOUS

\* Popping drops place 1 (suscan_mq_pop).
LEMMA TailFacts ==
  ASSUME NEW S, NEW s \in Seq(S), s # <<>>
  PROVE  /\ Tail(s) \in Seq(S)
         /\ Len(Tail(s)) = Len(s) - 1
         /\ Len(s) > 0
         /\ \A j \in 1..(Len(s) - 1) : Tail(s)[j] = s[j + 1]
  OBVIOUS

\* The elements of a sequence, by place.
LEMMA ToSetFacts ==
  ASSUME NEW S, NEW s \in Seq(S)
  PROVE  /\ DOMAIN s = 1..Len(s)
         /\ \A e : e \in ToSet(s) <=> \E i \in 1..Len(s) : s[i] = e
         /\ ToSet(s) \subseteq S
  BY DEF ToSet

\* The elements of a sequence after each of the queue operations.
LEMMA ToSetAfter ==
  ASSUME NEW S, NEW s \in Seq(S)
  PROVE  /\ \A e \in S : ToSet(Cons(e, s)) = ToSet(s) \cup {e}
         /\ \A e \in S : ToSet(Append(s, e)) = ToSet(s) \cup {e}
         /\ s # <<>> => ToSet(Tail(s)) \subseteq ToSet(s)
         /\ \A i \in 1..Len(s) : ToSet(RemoveAt(s, i)) \subseteq ToSet(s)
<1>0. \A e : e \in ToSet(s) <=> \E i \in 1..Len(s) : s[i] = e
  BY ToSetFacts
<1>1. ASSUME NEW e \in S
      PROVE  ToSet(Cons(e, s)) = ToSet(s) \cup {e}
  <2> DEFINE r == Cons(e, s)
  <2>1. /\ r \in Seq(S) /\ Len(r) = Len(s) + 1 /\ r[1] = e
        /\ \A j \in 2..(Len(s) + 1) : r[j] = s[j - 1]
    BY DEF Cons
  <2> HIDE DEF r
  <2>2. \A x : x \in ToSet(r) <=> \E i \in 1..Len(r) : r[i] = x
    BY <2>1, ToSetFacts
  <2>3. /\ r[1] = e /\ 1 \in 1..Len(r)
        /\ \A j \in 1..Len(s) : j + 1 \in 1..Len(r) /\ r[j + 1] = s[j]
    BY <2>1
  <2>4. \A k \in 1..Len(r) : k = 1 \/ (k - 1 \in 1..Len(s) /\ r[k] = s[k - 1])
    <3>1. SUFFICES ASSUME NEW k \in 1..Len(r), k # 1
                   PROVE  k - 1 \in 1..Len(s) /\ r[k] = s[k - 1]
      OBVIOUS
    <3>2. Len(s) \in Nat /\ Len(r) = Len(s) + 1
      BY <2>1
    <3>3. k - 1 \in 1..Len(s) /\ k \in 2..(Len(s) + 1)
      BY <3>1, <3>2
    <3> QED
      BY <3>3, <2>1
  <2>5. ToSet(r) = ToSet(s) \cup {e}
    <3>1. \A x \in ToSet(r) : x \in ToSet(s) \/ x = e
      BY <1>0, <2>2, <2>3, <2>4
    <3>2. e \in ToSet(r)
      BY <2>2, <2>3
    <3>3. \A x \in ToSet(s) : x \in ToSet(r)
      BY <1>0, <2>2, <2>3
    <3> QED
      BY <3>1, <3>2, <3>3
  <2> QED
    BY <2>5 DEF r
<1>2. ASSUME NEW e \in S
      PROVE  ToSet(Append(s, e)) = ToSet(s) \cup {e}
  <2> DEFINE r == Append(s, e)
  <2>1. /\ r \in Seq(S) /\ Len(r) = Len(s) + 1 /\ r[Len(s) + 1] = e
        /\ \A j \in 1..Len(s) : r[j] = s[j]
    BY AppendFacts
  <2> HIDE DEF r
  <2>2. \A x : x \in ToSet(r) <=> \E i \in 1..Len(r) : r[i] = x
    BY <2>1, ToSetFacts
  <2>3. /\ \A k \in 1..Len(r) : k = Len(s) + 1 \/ k \in 1..Len(s)
        /\ Len(s) + 1 \in 1..Len(r)
        /\ \A k \in 1..Len(s) : k \in 1..Len(r)
    BY <2>1
  <2>4. ToSet(r) = ToSet(s) \cup {e}
    BY <1>0, <2>1, <2>2, <2>3
  <2> QED
    BY <2>4 DEF r
<1>3. ASSUME s # <<>>
      PROVE  ToSet(Tail(s)) \subseteq ToSet(s)
  <2> DEFINE r == Tail(s)
  <2>1. /\ r \in Seq(S) /\ Len(r) = Len(s) - 1
        /\ \A j \in 1..(Len(s) - 1) : r[j] = s[j + 1]
    BY <1>3, TailFacts
  <2> HIDE DEF r
  <2>2. \A x : x \in ToSet(r) <=> \E i \in 1..Len(r) : r[i] = x
    BY <2>1, ToSetFacts
  <2>3. \A j \in 1..Len(r) : j + 1 \in 1..Len(s) /\ r[j] = s[j + 1]
    BY <2>1
  <2>4. ToSet(r) \subseteq ToSet(s)
    BY <1>0, <2>2, <2>3
  <2> QED
    BY <2>4 DEF r
<1>4. ASSUME NEW i \in 1..Len(s)
      PROVE  ToSet(RemoveAt(s, i)) \subseteq ToSet(s)
  <2> DEFINE r == RemoveAt(s, i)
  <2>1. /\ r \in Seq(S) /\ Len(r) = Len(s) - 1
        /\ \A j \in 1..(Len(s) - 1) : r[j] = IF j < i THEN s[j] ELSE s[j + 1]
    BY RemoveAtFacts
  <2> HIDE DEF r
  <2>2. \A x : x \in ToSet(r) <=> \E k \in 1..Len(r) : r[k] = x
    BY <2>1, ToSetFacts
  <2>3. \A j \in 1..Len(r) : \E k \in 1..Len(s) : r[j] = s[k]
    BY <2>1
  <2>4. ToSet(r) \subseteq ToSet(s)
    BY <1>0, <2>2, <2>3
  <2> QED
    BY <2>4 DEF r
<1> QED
  BY <1>1, <1>2, <1>3, <1>4

\* What an injective sequence keeps of its elements when one is removed.
LEMMA RemoveFromInjective ==
  ASSUME NEW S, NEW s \in Seq(S), IsInjective(s)
  PROVE  /\ s # <<>> => /\ IsInjective(Tail(s))
                        /\ s[1] \notin ToSet(Tail(s))
         /\ \A i \in 1..Len(s) : /\ IsInjective(RemoveAt(s, i))
                                 /\ s[i] \notin ToSet(RemoveAt(s, i))
<1>0. \A a, b \in 1..Len(s) : s[a] = s[b] => a = b
  BY ToSetFacts DEF IsInjective
<1>1. ASSUME s # <<>>
      PROVE  IsInjective(Tail(s)) /\ s[1] \notin ToSet(Tail(s))
  <2> DEFINE r == Tail(s)
  <2>1. /\ r \in Seq(S) /\ Len(r) = Len(s) - 1 /\ Len(s) > 0
        /\ \A j \in 1..(Len(s) - 1) : r[j] = s[j + 1]
    BY <1>1, TailFacts
  <2> HIDE DEF r
  <2>2. \A a \in 1..Len(r) : /\ a + 1 \in 1..Len(s)
                             /\ r[a] = s[a + 1]
                             /\ a + 1 # 1
    BY <2>1
  <2>3. \A a, b \in 1..Len(r) : r[a] = r[b] => a = b
    <3> SUFFICES ASSUME NEW a \in 1..Len(r), NEW b \in 1..Len(r), r[a] = r[b]
                 PROVE  a = b
      OBVIOUS
    <3>1. a + 1 = b + 1
      BY <1>0, <2>2
    <3> QED
      BY <3>1, <2>1
  <2>4. \A a \in 1..Len(r) : r[a] # s[1]
    BY <1>0, <2>1, <2>2
  <2>5. IsInjective(r) /\ s[1] \notin ToSet(r)
    BY <2>1, <2>3, <2>4, ToSetFacts DEF IsInjective
  <2> QED
    BY <2>5 DEF r
<1>2. ASSUME NEW i \in 1..Len(s)
      PROVE  IsInjective(RemoveAt(s, i)) /\ s[i] \notin ToSet(RemoveAt(s, i))
  <2> DEFINE r == RemoveAt(s, i)
  <2>1. /\ r \in Seq(S)
        /\ Len(r) = Len(s) - 1
        /\ \A j \in 1..(Len(s) - 1) : r[j] = IF j < i THEN s[j] ELSE s[j + 1]
    BY RemoveAtFacts
  <2> HIDE DEF r
  <2> DEFINE old(a) == IF a < i THEN a ELSE a + 1
  <2>a. \A a \in 1..Len(r) : /\ old(a) \in 1..Len(s)
                             /\ r[a] = s[old(a)]
                             /\ old(a) # i
    <3>1. SUFFICES ASSUME NEW a \in 1..Len(r)
                   PROVE  /\ old(a) \in 1..Len(s)
                          /\ r[a] = s[old(a)]
                          /\ old(a) # i
      OBVIOUS
    <3>2. Len(s) \in Nat /\ Len(r) = Len(s) - 1
      BY <2>1
    <3>3. old(a) \in 1..Len(s) /\ old(a) # i /\ a \in 1..(Len(s) - 1)
      BY <3>2
    <3>4. r[a] = s[old(a)]
      BY <3>3, <2>1
    <3> QED
      BY <3>3, <3>4
  <2>b. \A a, b \in 1..Len(r) : old(a) = old(b) => a = b
    BY <2>1
  <2> HIDE DEF old
  <2>2. \A a, b \in 1..Len(r) : r[a] = r[b] => a = b
    BY <1>0, <2>a, <2>b
  <2>3. \A a \in 1..Len(r) : r[a] # s[i]
    BY <1>0, <2>a
  <2>4. IsInjective(r) /\ s[i] \notin ToSet(r)
    BY <2>1, <2>2, <2>3, ToSetFacts DEF IsInjective
  <2> QED
    BY <2>4 DEF r
<1> QED
  BY <1>1, <1>2

\* A new element keeps an injective sequence injective, at either end.
LEMMA AddToInjective ==
  ASSUME NEW S, NEW s \in Seq(S), IsInjective(s),
         NEW e \in S, e \notin ToSet(s)
  PROVE  IsInjective(Cons(e, s)) /\ IsInjective(Append(s, e))
<1>0. /\ \A a, b \in 1..Len(s) : s[a] = s[b] => a = b
      /\ \A a \in 1..Len(s) : s[a] # e
  BY ToSetFacts DEF IsInjective
<1>1. IsInjective(Cons(e, s))
  <2> DEFINE r == Cons(e, s)
  <2>1. /\ r \in Seq(S) /\ Len(r) = Len(s) + 1 /\ r[1] = e
        /\ \A j \in 2..(Len(s) + 1) : r[j] = s[j - 1]
    BY DEF Cons
  <2> HIDE DEF r
  <2>a. \A a \in 1..Len(r) : \/ a = 1 /\ r[a] = e
                             \/ a - 1 \in 1..Len(s) /\ r[a] = s[a - 1]
    BY <2>1
  <2>b. \A a, b \in 1..Len(r) : a - 1 = b - 1 => a = b
    BY <2>1
  <2>2. \A a, b \in 1..Len(r) : r[a] = r[b] => a = b
    BY <1>0, <2>a, <2>b
  <2>3. IsInjective(r)
    BY <2>1, <2>2, ToSetFacts DEF IsInjective
  <2> QED
    BY <2>3 DEF r
<1>2. IsInjective(Append(s, e))
  <2> DEFINE r == Append(s, e)
  <2>1. /\ r \in Seq(S) /\ Len(r) = Len(s) + 1 /\ r[Len(s) + 1] = e
        /\ \A j \in 1..Len(s) : r[j] = s[j]
    BY AppendFacts
  <2> HIDE DEF r
  <2>2. \A a, b \in 1..Len(r) : r[a] = r[b] => a = b
    BY <1>0, <2>1
  <2>3. IsInjective(r)
    BY <2>1, <2>2, ToSetFacts DEF IsInjective
  <2> QED
    BY <2>3 DEF r
<1> QED
  BY <1>1, <1>2

-----------------------------------------------------------------------------
(* Queues in which only one message, x, may occur more than once *)

\* The head of a queue is one of its elements, and the rest are the others.
LEMMA HeadFacts ==
  ASSUME NEW S, NEW s \in Seq(S), s # <<>>
  PROVE  /\ Head(s) = s[1] /\ Head(s) \in S /\ Head(s) \in ToSet(s)
         /\ Tail(s) \in Seq(S)
         /\ \A e : e \in ToSet(s) <=> e \in ToSet(Tail(s)) \/ e = Head(s)
<1>1. /\ Tail(s) \in Seq(S) /\ Len(Tail(s)) = Len(s) - 1 /\ Len(s) > 0
      /\ \A j \in 1..(Len(s) - 1) : Tail(s)[j] = s[j + 1]
  BY TailFacts
<1>2. Head(s) = s[1] /\ Head(s) \in S
  OBVIOUS
<1> DEFINE r == Tail(s)
<1>3. /\ \A e : e \in ToSet(s) <=> \E i \in 1..Len(s) : s[i] = e
      /\ \A e : e \in ToSet(r) <=> \E i \in 1..Len(r) : r[i] = e
  BY <1>1, ToSetFacts
<1>4. 1 \in 1..Len(s) /\ Len(s) \in Nat /\ Len(r) = Len(s) - 1
  BY <1>1
<1>5. \A j \in 1..(Len(s) - 1) : r[j] = s[j + 1] /\ j + 1 \in 1..Len(s)
  BY <1>1
<1> HIDE DEF r
<1>6. \A i \in 1..Len(s) : i = 1 \/ (i - 1 \in 1..Len(r) /\ r[i - 1] = s[i])
  <2>1. SUFFICES ASSUME NEW i \in 1..Len(s), i # 1
                 PROVE  i - 1 \in 1..Len(r) /\ r[i - 1] = s[i]
    OBVIOUS
  <2>2. i - 1 \in 1..(Len(s) - 1) /\ (i - 1) + 1 = i
    BY <2>1, <1>4
  <2> QED
    BY <2>2, <1>4, <1>5
<1>7. \A e : e \in ToSet(s) => e \in ToSet(r) \/ e = Head(s)
  BY <1>2, <1>3, <1>6
<1>8. Head(s) \in ToSet(s)
  BY <1>2, <1>3, <1>4
<1>9. \A e : e \in ToSet(r) => e \in ToSet(s)
  BY <1>3, <1>4, <1>5
<1> QED
  BY <1>1, <1>2, <1>7, <1>8, <1>9 DEF r

\* Every message but x is in the queue at most once.
Once(s, x) == \A i, j \in 1..Len(s) : s[i] = s[j] => i = j \/ s[i] = x

\* ... and stays so when the queue is popped: the message popped is not left.
LEMMA OnceTail ==
  ASSUME NEW S, NEW s \in Seq(S), s # <<>>, NEW x, Once(s, x)
  PROVE  /\ Once(Tail(s), x)
         /\ Head(s) = x \/ Head(s) \notin ToSet(Tail(s))
<1> DEFINE r == Tail(s)
<1>1. /\ r \in Seq(S) /\ Len(r) = Len(s) - 1 /\ Len(s) > 0 /\ Len(s) \in Nat
      /\ \A j \in 1..(Len(s) - 1) : r[j] = s[j + 1]
  BY TailFacts
<1>2. Head(s) = s[1]
  OBVIOUS
<1> HIDE DEF r
<1>3. \A j \in 1..Len(r) : j + 1 \in 1..Len(s) /\ r[j] = s[j + 1]
  BY <1>1
<1>4. ASSUME NEW i \in 1..Len(r), NEW j \in 1..Len(r), r[i] = r[j]
      PROVE  i = j \/ r[i] = x
  <2>1. s[i + 1] = s[j + 1] /\ i + 1 \in 1..Len(s) /\ j + 1 \in 1..Len(s)
    BY <1>3, <1>4
  <2>2. i + 1 = j + 1 \/ s[i + 1] = x
    BY <2>1 DEF Once
  <2> QED
    BY <2>2, <1>3
<1>5. 1 \in 1..Len(s)
  BY <1>1
<1>6. ASSUME NEW j \in 1..Len(r), r[j] = Head(s)
      PROVE  Head(s) = x
  <2>1. j + 1 \in 1..Len(s) /\ s[j + 1] = s[1] /\ j + 1 # 1
    BY <1>2, <1>3, <1>6
  <2> QED
    BY <2>1, <1>2, <1>5 DEF Once
<1>7. \A e : e \in ToSet(r) <=> \E i \in 1..Len(r) : r[i] = e
  BY <1>1, ToSetFacts
<1>8. Once(r, x) /\ (Head(s) = x \/ Head(s) \notin ToSet(r))
  BY <1>4, <1>6, <1>7 DEF Once
<1> QED
  BY <1>8 DEF r

\* ... and when x is pushed at the end,
LEMMA OnceAppend ==
  ASSUME NEW S, NEW s \in Seq(S), NEW x \in S, Once(s, x)
  PROVE  Once(Append(s, x), x)
<1> DEFINE r == Append(s, x)
<1>1. /\ Len(r) = Len(s) + 1 /\ r[Len(s) + 1] = x /\ Len(s) \in Nat
      /\ \A j \in 1..Len(s) : r[j] = s[j]
  BY AppendFacts
<1> HIDE DEF r
<1>2. \A j \in 1..Len(r) : j = Len(s) + 1 \/ j \in 1..Len(s)
  BY <1>1
<1>3. Once(r, x)
  BY <1>1, <1>2 DEF Once
<1> QED
  BY <1>3 DEF r

\* ... or at the front, and when a message that it does not hold is pushed.
LEMMA OnceAdd ==
  ASSUME NEW S, NEW s \in Seq(S), NEW x, Once(s, x), NEW e \in S
  PROVE  /\ e \notin ToSet(s) => Once(Append(s, e), x)
         /\ e = x => Once(Cons(e, s), x)
<1>0. \A y : y \in ToSet(s) <=> \E i \in 1..Len(s) : s[i] = y
  BY ToSetFacts
<1>n. Len(s) \in Nat
  OBVIOUS
<1>1. ASSUME e \notin ToSet(s)
      PROVE  Once(Append(s, e), x)
  <2> DEFINE r == Append(s, e)
  <2>1. /\ Len(r) = Len(s) + 1 /\ r[Len(s) + 1] = e
        /\ \A j \in 1..Len(s) : r[j] = s[j]
    BY AppendFacts
  <2> HIDE DEF r
  <2>2. \A j \in 1..Len(r) : j = Len(s) + 1 \/ j \in 1..Len(s)
    BY <2>1, <1>n
  <2>3. \A j \in 1..Len(s) : r[j] # e
    BY <2>1, <1>0, <1>1
  <2>4. Once(r, x)
    BY <2>1, <2>2, <2>3 DEF Once
  <2> QED
    BY <2>4 DEF r
<1>2. ASSUME e = x
      PROVE  Once(Cons(e, s), x)
  <2> DEFINE r == Cons(e, s)
  <2>1. /\ Len(r) = Len(s) + 1 /\ r[1] = e
        /\ \A j \in 2..(Len(s) + 1) : r[j] = s[j - 1]
    BY ConsFacts
  <2> HIDE DEF r
  <2>2. ASSUME NEW i \in 1..Len(r), i # 1
        PROVE  i - 1 \in 1..Len(s) /\ r[i] = s[i - 1]
    <3>1. i \in 2..(Len(s) + 1) /\ i - 1 \in 1..Len(s)
      BY <2>1, <2>2, <1>n
    <3> QED
      BY <3>1, <2>1
  <2>3. ASSUME NEW i \in 1..Len(r), NEW j \in 1..Len(r), r[i] = r[j]
        PROVE  i = j \/ r[i] = x
    <3>1. CASE i = 1 \/ j = 1
      BY <3>1, <2>1, <2>3, <1>2
    <3>2. CASE i # 1 /\ j # 1
      <4>1. /\ i - 1 \in 1..Len(s) /\ r[i] = s[i - 1]
            /\ j - 1 \in 1..Len(s) /\ r[j] = s[j - 1]
        BY <3>2, <2>2
      <4>2. i - 1 = j - 1 \/ s[i - 1] = x
        BY <4>1, <2>3 DEF Once
      <4> QED
        BY <4>1, <4>2
    <3> QED
      BY <3>1, <3>2
  <2>4. Once(r, x)
    BY <2>3 DEF Once
  <2> QED
    BY <2>4 DEF r
<1> QED
  BY <1>1, <1>2

=============================================================================
