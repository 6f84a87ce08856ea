------------------------ MODULE MessageQueue_proofs ------------------------
(***************************************************************************)
(* For any threads, messages and types: acquire_lock excludes, no reader   *)
(* sleeps on a message it waits for, a message reaches one reader, order   *)
(* is kept, and the queue implements AtomicQueue.                          *)
(*                                                                         *)
(* The second part is about the list under the queue.                      *)
(***************************************************************************)
EXTENDS MessageQueue, MsgList, SeqLemmas

\* Which call a thread can be in at each place, and who owns a message that
\* is being written: one writer, until it is inserted and gets its stamp.
CallInv ==
  \A t \in Threads :
    /\ pc[t] = "idle" <=> call[t] = NoCall
    /\ pc[t] \in {"waiting", "woken", "expired"} => call[t].kind \in {"read", "wait"}
    /\ pc[t] \notin {"idle", "leave"} => got[t] = NoMsg
    /\ call[t].kind = "write" =>
         /\ pc[t] \in {"enter", "locked"} => stamp[call[t].msg] = 0
         /\ \A u \in Threads :
              call[u].kind = "write" /\ call[u].msg = call[t].msg => u = t

\* What was queued or delivered was inserted, and stamps are dates.
StampInv ==
  /\ \A m \in Msgs : stamp[m] <= clock
  /\ \A i \in 1..Len(q) : stamp[q[i]] > 0
  /\ \A t \in Threads : got[t] # NoMsg => stamp[got[t]] > 0
  /\ \A m \in urgent : stamp[m] > 0

Inv ==
  /\ TypeOK
  /\ MutualExclusion
  /\ CallInv
  /\ StampInv
  /\ NoLostWakeup
  /\ DeliveredOnce
  /\ QueueOrder
  /\ FifoPerType

-----------------------------------------------------------------------------
(* Consequences of the types *)

LEMMA CallFacts ==
  ASSUME TypeOK, NEW t \in Threads
  PROVE  /\ call[t].kind = "write" => call[t] \in Writes /\ call[t].msg \in Msgs
         /\ call[t].kind \in {"read", "poll"} => call[t].sel \in Selectors
         /\ call[t] = NoCall => call[t].kind = "none"
<1>1. call[t] \in Reads \cup Polls \cup Waits \cup Writes \cup {NoCall}
  BY DEF TypeOK, Calls
<1> QED
  BY <1>1 DEF Reads, Polls, Waits, Writes, NoCall

LEMMA QueueFacts ==
  ASSUME TypeOK
  PROVE  /\ q \in Seq(Msgs) /\ Len(q) \in Nat
         /\ \A i \in 1..Len(q) : q[i] \in Msgs
         /\ \A m : m \in ToSet(q) <=> \E i \in 1..Len(q) : q[i] = m
         /\ DOMAIN q = 1..Len(q)
  BY ToSetFacts DEF TypeOK

LEMMA InitInv == Init => Inv
<1> SUFFICES ASSUME Init PROVE Inv
  OBVIOUS
<1>1. TypeOK
  BY DEF Init, TypeOK, Places
<1>2. q = <<>> /\ ToSet(q) = {}
  BY DEF Init, ToSet
<1>3. MutualExclusion
  BY MessageQueueAssumption DEF Init, MutualExclusion, Holds, MessageQueueAssumption
<1>4. CallInv
  BY DEF Init, CallInv, NoCall
<1>5. StampInv
  BY <1>2 DEF Init, StampInv
<1>6. DeliveredOnce
  BY <1>2 DEF Init, DeliveredOnce, IsInjective, Returned
<1>7. NoLostWakeup /\ QueueOrder /\ FifoPerType
  BY <1>2 DEF Init, NoLostWakeup, QueueOrder, FifoPerType
<1> QED
  BY <1>1, <1>3, <1>4, <1>5, <1>6, <1>7 DEF Inv

-----------------------------------------------------------------------------
(* Steps that leave the queue, the results and the history alone *)

LEMMA QuietInv ==
  ASSUME Inv, UNCHANGED <<q, got, history>>, CallInv', MutualExclusion', TypeOK',
         NEW t \in Threads,
         \A u \in Threads : pc'[u] = "waiting" =>
           /\ call'[u] = call[u]
           /\ pc[u] = "waiting" \/ (call[u].kind = "read" => NothingFor(u))
  PROVE  Inv'
<1>1. NoLostWakeup'
  BY DEF Inv, NoLostWakeup, NothingFor
<1>2. StampInv' /\ DeliveredOnce' /\ QueueOrder' /\ FifoPerType'
  BY DEF Inv, StampInv, DeliveredOnce, QueueOrder, FifoPerType, history, Returned
<1> QED
  BY <1>1, <1>2 DEF Inv

LEMMA CallStepInv ==
  ASSUME Inv, NEW t \in Threads, NEW c \in CallsOf[t], Call(t, c)
  PROVE  Inv'
<1> USE DEF Call, GoTo
<1>0. c \in Calls
  BY MessageQueueAssumption DEF MessageQueueAssumption
<1>1. TypeOK'
  BY <1>0 DEF Inv, TypeOK, Places, history
<1>2. MutualExclusion'
  BY DEF Inv, TypeOK, MutualExclusion, Holds
<1>3. c # NoCall /\ (c.kind = "write" => c \in Writes)
  BY <1>0 DEF Calls, Reads, Polls, Waits, Writes, NoCall
<1>4. CallInv'
  <2>1. c.kind = "write" => /\ stamp[c.msg] = 0
                            /\ \A u \in Threads : call[u].kind = "write" => call[u].msg # c.msg
    BY <1>3, CallFacts DEF InFlight, Inv, Writes
  <2> QED
    BY <1>3, <2>1 DEF Inv, CallInv, TypeOK, history
<1>5. NoLostWakeup'
  BY DEF Inv, NoLostWakeup, NothingFor, TypeOK
<1>6. StampInv' /\ QueueOrder' /\ FifoPerType'
  BY DEF Inv, StampInv, QueueOrder, FifoPerType, history, TypeOK
<1>7. DeliveredOnce'
  <2>1. \A u \in Threads : got'[u] # NoMsg => got'[u] = got[u]
    BY DEF Inv, TypeOK
  <2>2. Returned' \subseteq Returned
    BY <2>1 DEF Returned
  <2> QED
    BY <2>1, <2>2 DEF Inv, DeliveredOnce
<1> QED
  BY <1>1, <1>2, <1>4, <1>5, <1>6, <1>7 DEF Inv

\* suscan_mq_enter, the return of a wait, an empty poll, going to sleep,
\* waking up, leaving: only the place of t and the lock change.
LEMMA MoveInv ==
  ASSUME Inv, NEW t \in Threads,
         \/ suscan_mq_enter(t) \/ Reacquire(t) \/ PollEmpty(t) \/ Wait(t)
         \/ SpuriousWakeup(t) \/ Timeout(t) \/ suscan_mq_leave(t)
  PROVE  Inv'
<1> USE DEF suscan_mq_enter, Reacquire, PollEmpty, Wait, SpuriousWakeup,
            Timeout, suscan_mq_leave, GoTo
<1>1. UNCHANGED <<q, got, history>>
  OBVIOUS
<1>2. TypeOK'
  BY <1>1 DEF Inv, TypeOK, Places, history
<1>3. MutualExclusion'
  BY MessageQueueAssumption DEF MessageQueueAssumption, Inv, TypeOK, MutualExclusion, Holds
<1>4. CallInv'
  <2>1. CASE suscan_mq_leave(t)
    <3>1. call' = [call EXCEPT ![t] = NoCall] /\ NoCall.kind = "none"
      BY <2>1 DEF NoCall
    <3>2. pc' = [pc EXCEPT ![t] = "idle"]
      BY <2>1
    <3> QED
      BY <3>1, <3>2, <1>1 DEF Inv, CallInv, TypeOK, history
  <2>2. CASE ~suscan_mq_leave(t)
    <3>1. call' = call
      BY <2>2
    <3>2. /\ pc[t] # "idle" /\ pc[t] # "leave"
          /\ \A u \in Threads : u # t => pc'[u] = pc[u]
          /\ pc'[t] # "idle"
          /\ pc'[t] \in {"waiting", "woken", "expired"} => call[t].kind \in {"read", "wait"}
          /\ pc'[t] \in {"enter", "locked"} /\ call[t].kind = "write" => pc[t] \in {"enter", "locked"}
      BY <2>2 DEF Inv, TypeOK, CallInv
    <3> QED
      BY <3>1, <3>2, <1>1 DEF Inv, CallInv, TypeOK, history
  <2> QED
    BY <2>1, <2>2
<1>5. \A u \in Threads : pc'[u] = "waiting" =>
        /\ call'[u] = call[u]
        /\ pc[u] = "waiting" \/ (call[u].kind = "read" => NothingFor(u))
  BY DEF Inv, TypeOK
<1> QED
  BY <1>1, <1>2, <1>3, <1>4, <1>5, QuietInv

-----------------------------------------------------------------------------
(* A message leaves the queue *)

LEMMA PopInv ==
  ASSUME Inv, NEW t \in Threads, Pop(t)
  PROVE  Inv'
<1>0. /\ pc[t] = "locked" /\ call[t].kind \in {"read", "poll"}
      /\ pc' = [pc EXCEPT ![t] = "leave"]
      /\ UNCHANGED <<lock, call, history>>
  BY DEF Pop, GoTo
<1>1. PICK i \in 1..Len(q) :
        /\ IsFirst(q, call[t].sel, i)
        /\ got' = [got EXCEPT ![t] = q[i]]
        /\ q' = RemoveAt(q, i)
  BY DEF Pop
<1>2. TypeOK /\ IsInjective(q)
  BY DEF Inv, DeliveredOnce
<1>3. q \in Seq(Msgs) /\ Len(q) \in Nat /\ q[i] \in Msgs /\ q[i] \in ToSet(q)
  BY <1>2, QueueFacts
<1>4. /\ q' \in Seq(Msgs) /\ Len(q') = Len(q) - 1
      /\ \A j \in 1..(Len(q) - 1) : q'[j] = IF j < i THEN q[j] ELSE q[j + 1]
  BY <1>1, <1>3, RemoveAtFacts
<1>5. /\ IsInjective(q') /\ q[i] \notin ToSet(q')
      /\ ToSet(q') \subseteq ToSet(q)
  BY <1>1, <1>2, <1>3, RemoveFromInjective, ToSetAfter
<1> DEFINE old(j) == IF j < i THEN j ELSE j + 1
<1>6. /\ \A j \in 1..Len(q') : old(j) \in 1..Len(q) /\ q'[j] = q[old(j)]
      /\ \A j, k \in 1..Len(q') : j < k => old(j) < old(k)
  BY <1>3, <1>4
<1> HIDE DEF old
<1>7. TypeOK'
  BY <1>0, <1>1, <1>3, <1>4 DEF Inv, TypeOK, Places, history
<1>8. MutualExclusion'
  BY <1>0 DEF Inv, TypeOK, MutualExclusion, Holds
<1>9. CallInv'
  BY <1>0, <1>1 DEF Inv, CallInv, TypeOK, history
<1>10. StampInv'
  BY <1>0, <1>1, <1>3, <1>6 DEF Inv, StampInv, TypeOK, history
<1>11. NoLostWakeup'
  <2>1. \A u \in Threads : pc'[u] = "waiting" => pc[u] = "waiting"
    BY <1>0 DEF Inv, TypeOK
  <2> QED
    BY <2>1, <1>0, <1>6 DEF Inv, NoLostWakeup, NothingFor
<1>12. DeliveredOnce'
  <2>1. \A u \in Threads : got[u] # q[i]
    BY <1>3, MessageQueueAssumption
       DEF Inv, DeliveredOnce, Returned, MessageQueueAssumption
  <2>2. \A u \in Threads : u # t => got'[u] = got[u]
    BY <1>1 DEF Inv, TypeOK
  <2>3. got'[t] = q[i]
    BY <1>1 DEF Inv, TypeOK
  <2>4. Returned' \cap ToSet(q') = {}
    BY <1>5, <2>2, <2>3 DEF Inv, DeliveredOnce, Returned
  <2>5. \A u, v \in Threads : got'[u] = got'[v] /\ got'[u] # NoMsg => u = v
    BY <2>1, <2>2, <2>3 DEF Inv, DeliveredOnce
  <2> QED
    BY <1>5, <2>4, <2>5 DEF DeliveredOnce
<1>13. QueueOrder'
  <2> SUFFICES ASSUME NEW j \in 1..Len(q'), NEW k \in 1..Len(q'), j < k
               PROVE  IF q'[k] \in urgent
                        THEN q'[j] \in urgent /\ stamp[q'[j]] > stamp[q'[k]]
                        ELSE q'[j] \in urgent \/ stamp[q'[j]] < stamp[q'[k]]
    BY <1>0 DEF QueueOrder, history
  <2>1. /\ old(j) \in 1..Len(q) /\ old(k) \in 1..Len(q) /\ old(j) < old(k)
        /\ q'[j] = q[old(j)] /\ q'[k] = q[old(k)]
    BY <1>6
  <2> QED
    BY <2>1 DEF Inv, QueueOrder
<1>14. FifoPerType'
  <2> SUFFICES ASSUME NEW m \in Msgs \ urgent, NEW n \in Msgs \ urgent,
                      TypeOf[m] = TypeOf[n], 0 < stamp[m], stamp[m] < stamp[n],
                      n \notin ToSet(q'), m \in ToSet(q')
               PROVE  FALSE
    BY <1>0 DEF FifoPerType, history
  <2>1. m \in ToSet(q) /\ m # q[i]
    BY <1>5
  <2>2. n \in ToSet(q)
    BY <2>1 DEF Inv, FifoPerType
  <2>3. PICK a \in 1..Len(q) : q[a] = m
    BY <2>1, <1>2, QueueFacts
  <2>4. PICK b \in 1..Len(q) : q[b] = n
    BY <2>2, <1>2, QueueFacts
  <2>5. b = i
    <3> SUFFICES ASSUME b # i PROVE FALSE
      OBVIOUS
    <3>1. \E j \in 1..Len(q') : old(j) = b
      <4>1. CASE b < i
        BY <4>1, <1>3, <1>4 DEF old
      <4>2. CASE b > i
        <5>1. b - 1 \in 1..Len(q') /\ old(b - 1) = b
          BY <4>2, <1>3, <1>4 DEF old
        <5> QED
          BY <5>1
      <4> QED
        BY <4>1, <4>2
    <3>2. n \in ToSet(q')
      BY <3>1, <2>4, <1>6, <1>4, ToSetFacts
    <3> QED
      BY <3>2
  <2>6. stamp[m] \in Nat /\ stamp[n] \in Nat
    BY <1>2 DEF TypeOK
  <2>7. a < b
    <3>1. ~(b < a)
      BY <2>3, <2>4, <2>6 DEF Inv, QueueOrder
    <3>2. a # b
      BY <2>1, <2>3, <2>5
    <3> QED
      BY <3>1, <3>2
  <2>8. a \in 1..(i - 1) /\ Matches(call[t].sel, q[i])
    BY <2>5, <2>7, <1>1 DEF IsFirst
  <2>9. Matches(call[t].sel, q[a])
    BY <2>3, <2>4, <2>5, <2>8 DEF Matches
  <2> QED
    BY <2>8, <2>9, <1>1 DEF IsFirst
<1> QED
  BY <1>7, <1>8, <1>9, <1>10, <1>11, <1>12, <1>13, <1>14 DEF Inv

-----------------------------------------------------------------------------
(* A message enters the queue, at either end *)

LEMMA WriteInv ==
  ASSUME Inv, NEW t \in Threads,
         suscan_mq_write_msg(t) \/ suscan_mq_write_msg_urgent(t)
  PROVE  Inv'
<1> DEFINE m == call[t].msg
<1>0. /\ pc[t] = "locked" /\ call[t].kind = "write"
      /\ pc' = [u \in Threads |-> IF u = t THEN "leave"
                  ELSE IF pc[u] = "waiting" THEN "woken" ELSE pc[u]]
      /\ stamp' = [stamp EXCEPT ![m] = clock + 1] /\ clock' = clock + 1
      /\ UNCHANGED <<lock, call, got>>
  BY DEF suscan_mq_write_msg, suscan_mq_write_msg_urgent, Broadcast
<1>1. \/ q' = Append(q, m) /\ urgent' = urgent
      \/ q' = Cons(m, q) /\ urgent' = urgent \cup {m}
  BY DEF suscan_mq_write_msg, suscan_mq_write_msg_urgent
<1>2. TypeOK /\ IsInjective(q) /\ q \in Seq(Msgs) /\ Len(q) \in Nat
  BY QueueFacts DEF Inv, DeliveredOnce
<1>3. m \in Msgs /\ stamp[m] = 0
  BY <1>0, <1>2, CallFacts DEF Inv, CallInv
<1> HIDE DEF m
<1>4. /\ m \notin ToSet(q) /\ (\A u \in Threads : got[u] # m)
      /\ \A i \in 1..Len(q) : q[i] # m
  BY <1>2, <1>3, QueueFacts, MessageQueueAssumption
     DEF Inv, StampInv, TypeOK, MessageQueueAssumption
<1>5. /\ q' \in Seq(Msgs) /\ Len(q') = Len(q) + 1
      /\ \/ /\ \A j \in 1..Len(q) : q'[j] = q[j]
            /\ q'[Len(q) + 1] = m /\ urgent' = urgent
         \/ /\ \A j \in 2..(Len(q) + 1) : q'[j] = q[j - 1]
            /\ q'[1] = m /\ urgent' = urgent \cup {m}
  <2>1. CASE q' = Append(q, m) /\ urgent' = urgent
    BY <2>1, <1>2, <1>3
  <2>2. CASE q' = Cons(m, q) /\ urgent' = urgent \cup {m}
    BY <2>2, <1>2, <1>3 DEF Cons
  <2> QED
    BY <2>1, <2>2, <1>1
<1>6. IsInjective(q') /\ ToSet(q') = ToSet(q) \cup {m}
  <2>1. IsInjective(Append(q, m)) /\ IsInjective(Cons(m, q))
    BY <1>2, <1>3, <1>4, AddToInjective
  <2>2. /\ ToSet(Append(q, m)) = ToSet(q) \cup {m}
        /\ ToSet(Cons(m, q)) = ToSet(q) \cup {m}
    BY <1>2, <1>3, ToSetAfter
  <2> QED
    BY <1>1, <2>1, <2>2
<1>7. \A n \in Msgs : n # m => stamp'[n] = stamp[n]
  BY <1>0, <1>2, <1>3 DEF TypeOK
<1>8. stamp'[m] = clock + 1 /\ clock \in Nat /\ stamp' \in [Msgs -> Nat]
      /\ \A n \in Msgs : stamp[n] <= clock /\ stamp[n] \in Nat
  BY <1>0, <1>2, <1>3 DEF Inv, TypeOK, StampInv
<1>9. TypeOK'
  <2>1. urgent' \subseteq Msgs
    BY <1>1, <1>2, <1>3 DEF TypeOK
  <2>2. pc' \in [Threads -> Places]
    BY <1>0, <1>2 DEF TypeOK, Places
  <2> QED
    BY <2>1, <2>2, <1>0, <1>2, <1>5, <1>8 DEF TypeOK
<1>10. MutualExclusion'
  BY <1>0 DEF Inv, TypeOK, MutualExclusion, Holds
<1>11. CallInv'
  <2>1. \A u \in Threads : call[u].kind = "write" /\ u # t => call[u].msg # m
    BY <1>0 DEF Inv, CallInv, m
  <2>2. \A u \in Threads : call[u].kind = "write" /\ u # t =>
          stamp'[call[u].msg] = stamp[call[u].msg]
    BY <2>1, <1>2, <1>7, CallFacts
  <2>3. /\ \A u \in Threads : u # t =>
             /\ pc'[u] \in {"enter", "locked"} => pc[u] \in {"enter", "locked"}
             /\ pc'[u] = "idle" <=> pc[u] = "idle"
             /\ pc'[u] \in {"waiting", "woken", "expired"} =>
                  pc[u] \in {"waiting", "woken", "expired"}
             /\ pc'[u] \notin {"idle", "leave"} => pc[u] \notin {"idle", "leave"}
        /\ pc'[t] = "leave" /\ pc[t] # "idle"
    BY <1>0
  <2> QED
    BY <2>2, <2>3, <1>0 DEF Inv, CallInv
<1>12. StampInv'
  <2>1. \A i \in 1..Len(q') : q'[i] = m \/ \E j \in 1..Len(q) : q'[i] = q[j]
    <3>1. \A n : n \in ToSet(q') <=> \E i \in 1..Len(q') : q'[i] = n
      BY <1>5, ToSetFacts
    <3>2. \A n : n \in ToSet(q) <=> \E i \in 1..Len(q) : q[i] = n
      BY <1>2, ToSetFacts
    <3> QED
      BY <3>1, <3>2, <1>6
  <2>a. \A j \in 1..Len(q) : stamp'[q[j]] = stamp[q[j]] /\ stamp[q[j]] > 0
    BY <1>2, <1>4, <1>7, QueueFacts DEF Inv, StampInv
  <2>b. stamp'[m] > 0
    BY <1>8
  <2>2. \A i \in 1..Len(q') : stamp'[q'[i]] > 0
    <3>1. SUFFICES ASSUME NEW i \in 1..Len(q')
                   PROVE  stamp'[q'[i]] > 0
      OBVIOUS
    <3>2. CASE q'[i] = m
      BY <3>2, <2>b
    <3>3. ASSUME NEW j \in 1..Len(q), q'[i] = q[j]
          PROVE  stamp'[q'[i]] > 0
      BY <3>3, <2>a
    <3> QED
      BY <3>2, <3>3, <2>1
  <2>3. \A n \in Msgs : stamp'[n] <= clock'
    BY <1>0, <1>7, <1>8
  <2>4. \A u \in Threads : got'[u] # NoMsg => stamp'[got'[u]] > 0
    BY <1>0, <1>2, <1>4, <1>7 DEF Inv, StampInv, TypeOK
  <2>5. \A n \in urgent' : stamp'[n] > 0
    BY <1>1, <1>2, <1>7, <1>8 DEF Inv, StampInv, TypeOK
  <2> QED
    BY <2>2, <2>3, <2>4, <2>5 DEF StampInv
<1>13. NoLostWakeup'
  BY <1>0 DEF NoLostWakeup
<1>14. DeliveredOnce'
  BY <1>0, <1>4, <1>6 DEF Inv, DeliveredOnce, Returned
<1>15. QueueOrder'
  <2> SUFFICES ASSUME NEW i \in 1..Len(q'), NEW j \in 1..Len(q'), i < j
               PROVE  IF q'[j] \in urgent'
                        THEN q'[i] \in urgent' /\ stamp'[q'[i]] > stamp'[q'[j]]
                        ELSE q'[i] \in urgent' \/ stamp'[q'[i]] < stamp'[q'[j]]
    BY DEF QueueOrder
  <2>0. \A k \in 1..Len(q) : /\ q[k] \in Msgs /\ stamp'[q[k]] = stamp[q[k]]
                             /\ stamp[q[k]] <= clock /\ stamp[q[k]] \in Nat
                             /\ q[k] # m
    BY <1>2, <1>4, <1>7, <1>8, QueueFacts
  <2>1. CASE /\ \A k \in 1..Len(q) : q'[k] = q[k]
             /\ q'[Len(q) + 1] = m /\ urgent' = urgent
    <3>2. CASE j = Len(q) + 1
      <4>1. m \notin urgent
        BY <1>3 DEF Inv, StampInv
      <4> QED
        <5>1. i \in 1..Len(q) /\ q'[j] = m
          BY <3>2, <2>1, <1>2, <1>5
        <5>2. q'[i] = q[i] /\ q[i] # m
          BY <5>1, <2>0, <2>1
        <5>3. stamp'[q'[i]] <= clock /\ stamp'[q'[i]] \in Nat
          BY <5>1, <5>2, <2>0
        <5>4. stamp'[q'[i]] < stamp'[m]
          BY <5>3, <1>8
        <5> QED
          BY <5>1, <5>4, <4>1, <2>1
    <3>3. CASE j # Len(q) + 1
      <4>1. i \in 1..Len(q) /\ j \in 1..Len(q)
        BY <3>3, <1>2, <1>5
      <4> QED
        BY <4>1, <2>0, <2>1 DEF Inv, QueueOrder
    <3> QED
      BY <3>2, <3>3
  <2>2. CASE /\ \A k \in 2..(Len(q) + 1) : q'[k] = q[k - 1]
             /\ q'[1] = m /\ urgent' = urgent \cup {m}
    <3>a. Len(q) \in Nat /\ Len(q') = Len(q) + 1
      BY <1>2, <1>5, QueueFacts
    <3>b. j \in 2..(Len(q) + 1) /\ j - 1 \in 1..Len(q)
      BY <3>a
    <3>1. j - 1 \in 1..Len(q) /\ q'[j] = q[j - 1]
      BY <3>b, <2>2
    <3>2. CASE i = 1
      <4>1. /\ stamp'[q[j - 1]] <= clock /\ stamp'[q[j - 1]] \in Nat
            /\ q'[i] \in urgent' /\ stamp'[q'[i]] = clock + 1
        BY <3>1, <3>2, <2>0, <2>2, <1>8
      <4>2. stamp'[q'[i]] > stamp'[q'[j]]
        BY <4>1, <3>1, <1>8
      <4> QED
        BY <4>1, <4>2
    <3>3. CASE i # 1
      <4>a. i \in 2..(Len(q) + 1) /\ i - 1 \in 1..Len(q) /\ i - 1 < j - 1
        BY <3>3, <3>a
      <4>1. i - 1 \in 1..Len(q) /\ q'[i] = q[i - 1] /\ i - 1 < j - 1
        BY <4>a, <2>2
      <4>2. IF q[j - 1] \in urgent
              THEN q[i - 1] \in urgent /\ stamp[q[i - 1]] > stamp[q[j - 1]]
              ELSE q[i - 1] \in urgent \/ stamp[q[i - 1]] < stamp[q[j - 1]]
        BY <4>1, <3>1 DEF Inv, QueueOrder
      <4>3. /\ q[i - 1] # m /\ stamp'[q[i - 1]] = stamp[q[i - 1]]
            /\ q[j - 1] # m /\ stamp'[q[j - 1]] = stamp[q[j - 1]]
        BY <4>1, <3>1, <2>0
      <4> QED
        BY <4>1, <4>2, <4>3, <3>1, <2>2
    <3> QED
      BY <3>2, <3>3
  <2> QED
    BY <2>1, <2>2, <1>5
<1>16. FifoPerType'
  <2> SUFFICES ASSUME NEW a \in Msgs \ urgent', NEW b \in Msgs \ urgent',
                      TypeOf[a] = TypeOf[b], 0 < stamp'[a], stamp'[a] < stamp'[b],
                      b \notin ToSet(q'), a \in ToSet(q')
               PROVE  FALSE
    BY DEF FifoPerType
  <2>1. b # m /\ b \notin ToSet(q) /\ stamp'[b] = stamp[b] /\ stamp[b] <= clock
    BY <1>6, <1>7, <1>8
  <2>2. a # m
    BY <2>1, <1>8
  <2>3. a \in ToSet(q) /\ stamp'[a] = stamp[a] /\ a \notin urgent /\ b \notin urgent
    BY <2>2, <1>1, <1>6, <1>7
  <2> QED
    BY <2>1, <2>3 DEF Inv, FifoPerType
<1> QED
  BY <1>9, <1>10, <1>11, <1>12, <1>13, <1>14, <1>15, <1>16 DEF Inv

-----------------------------------------------------------------------------

LEMMA StepInv == Inv /\ [Next]_vars => Inv'
<1> SUFFICES ASSUME Inv, [Next]_vars PROVE Inv'
  OBVIOUS
<1>1. CASE UNCHANGED vars
  BY <1>1 DEF vars, history, Inv, TypeOK, MutualExclusion, Holds, CallInv,
              StampInv, NoLostWakeup, NothingFor, DeliveredOnce, Returned,
              QueueOrder, FifoPerType
<1>2. CASE Next
  <2>1. PICK t \in Threads : \/ \E c \in CallsOf[t] : Call(t, c)
                             \/ Step(t)
                             \/ SpuriousWakeup(t) \/ Timeout(t)
    BY <1>2 DEF Next
  <2> QED
    BY <2>1, CallStepInv, MoveInv, PopInv, WriteInv DEF Step
<1> QED
  BY <1>1, <1>2

\* The inductive invariant holds in every reachable state of the queue.
THEOREM InvHolds == Spec => []Inv
<1>1. Init => Inv
  BY InitInv
<1>2. Inv /\ [Next]_vars => Inv'
  BY StepInv
<1> QED
  BY <1>1, <1>2, PTL DEF Spec

\* acquire_lock excludes, through waits, timeouts and spurious wakeups.
THEOREM LockExcludes == Spec => []MutualExclusion
  BY InvHolds, PTL DEF Inv

\* No read sleeps while a message it asks for is queued.
THEOREM WakeupsAreNotLost == Spec => []NoLostWakeup
  BY InvHolds, PTL DEF Inv

\* A message reaches one reader.
THEOREM OneReaderPerMessage == Spec => []DeliveredOnce
  BY InvHolds, PTL DEF Inv

\* Messages of one type are delivered in the order they were written.
THEOREM DeliveryIsFifoPerType == Spec => []FifoPerType
  BY InvHolds, PTL DEF Inv

-----------------------------------------------------------------------------
(* Refinement *)

LEMMA InitRefines == Init => Abstract!Init
  BY DEF Init, Abstract!Init, Written

LEMMA StepRefines ==
  Inv /\ [Next]_vars => [Abstract!Next]_<<q, got, Written>>
<1> SUFFICES ASSUME Inv, [Next]_vars
             PROVE  Abstract!Next \/ UNCHANGED <<q, got, Written>>
  OBVIOUS
<1>0. TypeOK
  BY DEF Inv
<1>1. ASSUME UNCHANGED <<q, got, history>>
      PROVE  UNCHANGED <<q, got, Written>>
  BY <1>1 DEF history, Written
<1>2. CASE UNCHANGED vars
  BY <1>1, <1>2 DEF vars
<1>3. ASSUME NEW t \in Threads, NEW c \in CallsOf[t], Call(t, c)
      PROVE  Abstract!Next
  <2>1. Abstract!Done(t)
    BY <1>3 DEF Call, Abstract!Done, history, Written
  <2> QED
    BY <2>1 DEF Abstract!Next
<1>4. ASSUME NEW t \in Threads, Pop(t)
      PROVE  Abstract!Next
  <2>1. call[t].sel \in Types \cup {AnyType}
    BY <1>0, <1>4, CallFacts DEF Pop, Selectors
  <2>2. got[t] = NoMsg
    BY <1>4 DEF Inv, CallInv, Pop
  <2>a. \A i : IsFirst(q, call[t].sel, i) => Abstract!IsFirst(q, call[t].sel, i)
    BY DEF Abstract!IsFirst, Abstract!Matches, IsFirst, Matches
  <2>b. \A i : RemoveAt(q, i) = Abstract!RemoveAt(q, i)
    BY DEF RemoveAt, Abstract!RemoveAt
  <2>c. Written' = Written
    BY <1>4 DEF Pop, history, Written
  <2>3. Abstract!Get(t, call[t].sel)
    BY <2>2, <2>a, <2>b, <2>c, <1>4 DEF Pop, Abstract!Get
  <2> QED
    BY <2>1, <2>3 DEF Abstract!Next
<1>5. ASSUME NEW t \in Threads,
             suscan_mq_write_msg(t) \/ suscan_mq_write_msg_urgent(t)
      PROVE  Abstract!Next
  <2> DEFINE m == call[t].msg
  <2>1. pc[t] = "locked" /\ call[t].kind = "write"
    BY <1>5 DEF suscan_mq_write_msg, suscan_mq_write_msg_urgent
  <2>2. m \in Msgs /\ stamp[m] = 0
    BY <1>0, <2>1, CallFacts DEF Inv, CallInv
  <2>3. /\ stamp' = [stamp EXCEPT ![m] = clock + 1]
        /\ q' \in {Append(q, m), Cons(m, q)} /\ got' = got
    BY <1>5 DEF suscan_mq_write_msg, suscan_mq_write_msg_urgent
  <2>4. clock + 1 > 0 /\ stamp \in [Msgs -> Nat]
    BY <1>0 DEF TypeOK
  <2> HIDE DEF m
  <2>5. Written' = Written \cup {m} /\ m \notin Written
    BY <2>2, <2>3, <2>4 DEF Written
  <2>6. Abstract!Put(m)
    BY <2>3, <2>5 DEF Abstract!Put, Abstract!Cons, Cons
  <2> QED
    BY <2>2, <2>6 DEF Abstract!Next
<1>6. ASSUME NEW t \in Threads,
             \/ suscan_mq_enter(t) \/ Reacquire(t) \/ PollEmpty(t) \/ Wait(t)
             \/ SpuriousWakeup(t) \/ Timeout(t) \/ suscan_mq_leave(t)
      PROVE  UNCHANGED <<q, got, history>>
  BY <1>6 DEF suscan_mq_enter, Reacquire, PollEmpty, Wait, SpuriousWakeup,
              Timeout, suscan_mq_leave
<1> QED
  BY <1>1, <1>2, <1>3, <1>4, <1>5, <1>6 DEF Next, Step

\* With locks and waiting hidden, struct suscan_mq is the atomic queue.
THEOREM QueueIsAtomic == Spec => ImplementsAtomicQueue
<1>1. Init => Abstract!Init
  BY InitRefines
<1>2. Inv /\ [Next]_vars => [Abstract!Next]_<<q, got, Written>>
  BY StepRefines
<1>3. Spec => []Inv
  BY InvHolds
<1> QED
  BY <1>1, <1>2, <1>3, PTL DEF Spec, ImplementsAtomicQueue, Abstract!Spec

-----------------------------------------------------------------------------
(***************************************************************************)
(* The linked list inside the queue, and the cells it shares with every    *)
(* other queue (MsgList.tla): for any number of cells, any watermark and   *)
(* any pool size, the pointers always represent the sequence mq, which is  *)
(* the queue q above, and a message cell always has one owner.             *)
(***************************************************************************)
\* The inductive invariant: the two claims above need each other, and both
\* need what is known about the cursor of a running loop.
ListInv ==
  /\ ListTypeOK
  /\ ListIsSequence
  /\ SingleOwner
  /\ HeldIsDetached
  /\ CursorInList

\* The places of mq hold distinct cells that nobody else has.
LEMMA ListQueueFacts ==
  ASSUME ListInv
  PROVE  /\ mq \in Seq(Cells) /\ Len(mq) \in Nat
         /\ \A i \in 1..Len(mq) : mq[i] \in Cells /\ mq[i] # NULL
         /\ \A i, j \in 1..Len(mq) : mq[i] = mq[j] => i = j
         /\ \A i \in 1..Len(mq) : mq[i] \notin held
         /\ mq = <<>> <=> Len(mq) = 0
<1>1. mq \in Seq(Cells) /\ Len(mq) \in Nat /\ (mq = <<>> <=> Len(mq) = 0)
  BY DEF ListInv, ListTypeOK
<1>2. \A i \in 1..Len(mq) : mq[i] \in Cells /\ mq[i] # NULL
  BY <1>1, MsgListAssumption DEF MsgListAssumption
<1>3. DOMAIN mq = 1..Len(mq) /\ \A i \in 1..Len(mq) : mq[i] \in ToSet(mq)
  BY <1>1, ToSetFacts
<1>4. \A i, j \in 1..Len(mq) : mq[i] = mq[j] => i = j
  BY <1>3 DEF ListInv, SingleOwner, IsInjective
<1>5. \A i \in 1..Len(mq) : mq[i] \notin held
  BY <1>3 DEF ListInv, SingleOwner
<1> QED
  BY <1>1, <1>2, <1>4, <1>5

-----------------------------------------------------------------------------
(* The pool keeps single ownership when it takes a cell nobody else has *)

LEMMA ReturnFacts ==
  ASSUME ListInv, NEW c \in Cells, c \notin ToSet(pool), suscan_mq_return_msg(c)
  PROVE  /\ pool' \in Seq(Cells)
         /\ IsInjective(pool')
         /\ ToSet(pool') \subseteq ToSet(pool) \cup {c}
<1>1. pool \in Seq(Cells) /\ IsInjective(pool)
  BY DEF ListInv, ListTypeOK, SingleOwner
<1>2. CASE pool' = pool
  BY <1>1, <1>2
<1>3. CASE pool' = Cons(c, pool)
  <2>1. Cons(c, pool) \in Seq(Cells)
    BY <1>1, ConsFacts
  <2>2. IsInjective(Cons(c, pool))
    BY <1>1, AddToInjective
  <2>3. ToSet(Cons(c, pool)) = ToSet(pool) \cup {c}
    BY <1>1, ToSetAfter
  <2> QED
    BY <1>3, <2>1, <2>2, <2>3
<1> QED
  BY <1>2, <1>3 DEF suscan_mq_return_msg

-----------------------------------------------------------------------------
(* One lemma per operation *)

LEMMA ListInitInv == ListInit => ListInv
<1> SUFFICES ASSUME ListInit PROVE ListInv
  OBVIOUS
<1>1. ListTypeOK
  BY DEF ListInit, ListTypeOK, Link
<1>2. mq = <<>> /\ pool = <<>> /\ ToSet(mq) = {} /\ ToSet(pool) = {}
  BY DEF ListInit, ToSet
<1>3. SingleOwner
  BY <1>2 DEF SingleOwner, IsInjective, ListInit
<1> QED
  BY <1>1, <1>2, <1>3
     DEF ListInit, ListInv, ListIsSequence, HeldIsDetached, CursorInList

LEMMA NewInv ==
  ASSUME ListInv, NEW c \in Cells, NEW t \in MsgTypes, suscan_msg_new(c, t)
  PROVE  ListInv'
<1> USE DEF suscan_msg_new
<1>0. /\ mq' = mq /\ op = "idle" /\ op' = "idle"
      /\ held' = held \cup {c} /\ next' = [next EXCEPT ![c] = NULL]
  BY DEF cursor
<1>1. /\ pool \in Seq(Cells) /\ IsInjective(pool)
      /\ ToSet(mq) \cap ToSet(pool) = {}
      /\ (ToSet(mq) \cup ToSet(pool)) \cap held = {}
  BY DEF ListInv, ListTypeOK, SingleOwner
<1>2. /\ pool' \in Seq(Cells) /\ IsInjective(pool')
      /\ ToSet(pool') \subseteq ToSet(pool)
      /\ c \notin ToSet(pool') /\ c \notin ToSet(mq)
  <2>1. CASE pool # <<>>
    <3>1. c = Head(pool) /\ pool' = Tail(pool)
      BY <2>1 DEF suscan_mq_alloc_msg
    <3>2. Head(pool) = pool[1] /\ Head(pool) \in ToSet(pool)
      BY <1>1, <2>1, ToSetFacts
    <3>3. /\ Tail(pool) \in Seq(Cells)
          /\ IsInjective(Tail(pool))
          /\ pool[1] \notin ToSet(Tail(pool))
          /\ ToSet(Tail(pool)) \subseteq ToSet(pool)
      BY <1>1, <2>1, RemoveFromInjective, ToSetAfter, TailFacts
    <3> QED
      BY <1>1, <3>1, <3>2, <3>3
  <2>2. CASE pool = <<>>
    BY <1>1, <2>2 DEF suscan_mq_alloc_msg, Unused
  <2> QED
    BY <2>1, <2>2
<1>3. ListTypeOK'
  BY <1>0, <1>2 DEF ListInv, ListTypeOK, list, cursor, Link
<1>4. \A i \in 1..Len(mq) : mq[i] # c
  BY <1>2, ListQueueFacts, ToSetFacts
<1>5. ListIsSequence'
  BY <1>0, <1>4, ListQueueFacts DEF ListInv, ListIsSequence, ListTypeOK, list
<1>6. SingleOwner'
  BY <1>0, <1>1, <1>2 DEF ListInv, SingleOwner
<1>7. HeldIsDetached'
  BY <1>0 DEF ListInv, HeldIsDetached, ListTypeOK
<1>8. CursorInList'
  BY <1>0 DEF CursorInList
<1> QED
  BY <1>3, <1>5, <1>6, <1>7, <1>8 DEF ListInv

LEMMA DestroyInv ==
  ASSUME ListInv, NEW c \in Cells, suscan_msg_destroy(c)
  PROVE  ListInv'
<1> USE DEF suscan_msg_destroy
<1>0. /\ mq' = mq /\ op = "idle" /\ op' = "idle" /\ next' = next
      /\ c \in held /\ held' = held \ {c} /\ suscan_mq_return_msg(c)
  BY DEF cursor
<1>1. /\ ToSet(mq) \cap ToSet(pool) = {} /\ c \notin ToSet(mq)
      /\ (ToSet(mq) \cup ToSet(pool)) \cap held = {}
  BY <1>0 DEF ListInv, SingleOwner
<1>2. /\ pool' \in Seq(Cells) /\ IsInjective(pool')
      /\ ToSet(pool') \subseteq ToSet(pool) \cup {c}
  BY <1>0, <1>1, ReturnFacts
<1>3. ListTypeOK'
  BY <1>0, <1>2 DEF ListInv, ListTypeOK, list, cursor
<1>4. ListIsSequence'
  BY <1>0 DEF ListInv, ListIsSequence, list
<1>5. SingleOwner'
  BY <1>0, <1>1, <1>2 DEF ListInv, SingleOwner
<1>6. HeldIsDetached' /\ CursorInList'
  BY <1>0 DEF ListInv, HeldIsDetached, CursorInList
<1> QED
  BY <1>3, <1>4, <1>5, <1>6 DEF ListInv

\* After an insertion the queue is idle, or the cleanup stands at its head.
LEMMA CleanupStart ==
  ASSUME ListInv, op = "idle", suscan_mq_cleanup_if_needed,
         mq' \in Seq(Cells), Len(mq') > 0, head' = mq'[1], head' \in Link
  PROVE  /\ CursorInList'
         /\ op' \in {"idle", "cleanup"} /\ this' \in Link /\ prev' \in Link
         /\ want' \in MsgTypes /\ pos' \in Nat \ {0}
<1>1. CASE op' = "idle" /\ UNCHANGED <<op, this, prev, pos>> /\ want' = want
  BY <1>1 DEF CursorInList, ListInv, ListTypeOK
<1>2. CASE /\ op' = "cleanup" /\ this' = head' /\ prev' = NULL /\ pos' = 1
           /\ want' = want
  BY <1>2 DEF CursorInList, ListInv, ListTypeOK, Link
<1> QED
  BY <1>1, <1>2 DEF suscan_mq_cleanup_if_needed

LEMMA PushFrontInv ==
  ASSUME ListInv, NEW c \in Cells, suscan_mq_push_front(c)
  PROVE  ListInv'
<1> USE DEF suscan_mq_push_front
<1>0. c \in held /\ c # NULL /\ \A i \in 1..Len(mq) : mq[i] # c
  BY ListQueueFacts, MsgListAssumption DEF MsgListAssumption
<1>1. /\ mq' \in Seq(Cells) /\ Len(mq') = Len(mq) + 1 /\ mq'[1] = c
      /\ \A j \in 2..(Len(mq) + 1) : mq'[j] = mq[j - 1]
  BY ListQueueFacts DEF Cons
<1>2. /\ \A i \in 1..Len(mq) : mq'[i + 1] = mq[i]
      /\ \A i \in 1..Len(mq') : i = 1 \/ i - 1 \in 1..Len(mq)
      /\ mq' # <<>>
  BY <1>1, ListQueueFacts
<1>3. CursorInList'
      /\ op' \in {"idle", "cleanup"} /\ this' \in Link /\ prev' \in Link
      /\ want' \in MsgTypes /\ pos' \in Nat \ {0}
  BY <1>1, CleanupStart, ListQueueFacts DEF Link
<1>4. ListTypeOK'
  BY <1>1, <1>3 DEF ListInv, ListTypeOK, Link
<1>5. ListIsSequence'
  <2>1. count' = Len(mq')
    BY <1>1 DEF ListInv, ListIsSequence, ListTypeOK
  <2>2. tail' = mq'[Len(mq')]
    <3>1. CASE mq = <<>>
      BY <3>1, <1>1, ListQueueFacts DEF ListInv, ListIsSequence
    <3>2. CASE mq # <<>>
      <4>1. tail = mq[Len(mq)] /\ tail # NULL /\ Len(mq) \in 1..Len(mq)
        BY <3>2, ListQueueFacts DEF ListInv, ListIsSequence
      <4> QED
        BY <4>1, <1>1, <1>2
    <3> QED
      BY <3>1, <3>2
  <2>3. next'[c] = IF mq = <<>> THEN NULL ELSE mq[1]
    BY DEF ListInv, ListIsSequence, ListTypeOK
  <2>4. \A i \in 1..Len(mq) : next'[mq[i]] = next[mq[i]]
    BY <1>0, ListQueueFacts DEF ListInv, ListTypeOK
  <2>5. \A i \in 1..Len(mq') :
          next'[mq'[i]] = IF i = Len(mq') THEN NULL ELSE mq'[i + 1]
    <3> TAKE i \in 1..Len(mq')
    <3>1. CASE i = 1
      <4>1. CASE mq = <<>>
        BY <4>1, <3>1, <2>3, <1>1, ListQueueFacts
      <4>2. CASE mq # <<>>
        BY <4>2, <3>1, <2>3, <1>1, <1>2, ListQueueFacts
      <4> QED
        BY <4>1, <4>2
    <3>2. CASE i - 1 \in 1..Len(mq)
      <4>1. mq'[i] = mq[i - 1] /\ next[mq[i - 1]] = IF i - 1 = Len(mq) THEN NULL ELSE mq[i]
        BY <3>2, <1>1, ListQueueFacts DEF ListInv, ListIsSequence
      <4>2. i - 1 # Len(mq) => mq'[i + 1] = mq[i]
        BY <3>2, <1>2, ListQueueFacts
      <4> QED
        BY <4>1, <4>2, <3>2, <2>4, <1>1, ListQueueFacts
    <3> QED
      BY <1>2, <3>1, <3>2
  <2> QED
    BY <2>1, <2>2, <2>5, <1>1, <1>2 DEF ListIsSequence
<1>6. SingleOwner' /\ HeldIsDetached'
  <2>1. c \notin ToSet(mq) /\ c \notin ToSet(pool)
    BY <1>0 DEF ListInv, SingleOwner
  <2>2. IsInjective(mq') /\ ToSet(mq') = ToSet(mq) \cup {c}
    BY <2>1, ListQueueFacts, AddToInjective, ToSetAfter DEF ListInv, SingleOwner
  <2> QED
    BY <2>1, <2>2 DEF ListInv, SingleOwner, HeldIsDetached, ListTypeOK
<1> QED
  BY <1>3, <1>4, <1>5, <1>6 DEF ListInv

LEMMA PushInv ==
  ASSUME ListInv, NEW c \in Cells, suscan_mq_push(c)
  PROVE  ListInv'
<1> USE DEF suscan_mq_push
<1>0. c \in held /\ c # NULL /\ next[c] = NULL /\ \A i \in 1..Len(mq) : mq[i] # c
  BY ListQueueFacts, MsgListAssumption DEF MsgListAssumption, ListInv, HeldIsDetached
<1>1. /\ mq' \in Seq(Cells) /\ Len(mq') = Len(mq) + 1 /\ mq'[Len(mq) + 1] = c
      /\ \A j \in 1..Len(mq) : mq'[j] = mq[j]
      /\ mq' # <<>>
  BY ListQueueFacts
<1>2. head' = mq'[1] /\ head' \in Cells
  <2>1. CASE mq = <<>>
    BY <2>1, <1>1, ListQueueFacts DEF ListInv, ListIsSequence
  <2>2. CASE mq # <<>>
    BY <2>2, <1>1, ListQueueFacts DEF ListInv, ListIsSequence
  <2> QED
    BY <2>1, <2>2
<1>3. CursorInList'
      /\ op' \in {"idle", "cleanup"} /\ this' \in Link /\ prev' \in Link
      /\ want' \in MsgTypes /\ pos' \in Nat \ {0}
  BY <1>1, <1>2, CleanupStart, ListQueueFacts DEF Link
<1>4. ListTypeOK'
  BY <1>1, <1>2, <1>3 DEF ListInv, ListTypeOK, Link
<1>5. ListIsSequence'
  <2>1. count' = Len(mq') /\ tail' = mq'[Len(mq')]
    BY <1>1 DEF ListInv, ListIsSequence, ListTypeOK
  <2>2. \A i \in 1..Len(mq') :
          next'[mq'[i]] = IF i = Len(mq') THEN NULL ELSE mq'[i + 1]
    <3>1. CASE mq = <<>>
      <4>1. next' = next /\ Len(mq) = 0
        BY <3>1, ListQueueFacts DEF ListInv, ListIsSequence
      <4> QED
        BY <4>1, <1>0, <1>1
    <3>2. CASE mq # <<>>
      <4>1. /\ tail = mq[Len(mq)] /\ tail # NULL /\ Len(mq) \in 1..Len(mq)
            /\ next' = [next EXCEPT ![tail] = c]
        BY <3>2, ListQueueFacts DEF ListInv, ListIsSequence
      <4>2. next'[mq[Len(mq)]] = c /\ next'[c] = NULL
        BY <4>1, <1>0, ListQueueFacts DEF ListInv, ListTypeOK
      <4>3. \A i \in 1..Len(mq) : i # Len(mq) => next'[mq[i]] = mq[i + 1]
        BY <4>1, ListQueueFacts DEF ListInv, ListTypeOK, ListIsSequence
      <4>4. \A i \in 1..Len(mq') : i \in 1..Len(mq) \/ i = Len(mq')
        BY <1>1, ListQueueFacts
      <4> QED
        BY <4>2, <4>3, <4>4, <1>1, ListQueueFacts
    <3> QED
      BY <3>1, <3>2
  <2> QED
    BY <2>1, <2>2, <1>1, <1>2 DEF ListIsSequence
<1>6. SingleOwner'
  <2>1. c \notin ToSet(mq) /\ c \notin ToSet(pool)
    BY <1>0 DEF ListInv, SingleOwner
  <2>2. IsInjective(mq') /\ ToSet(mq') = ToSet(mq) \cup {c}
    BY <2>1, ListQueueFacts, AddToInjective, ToSetAfter DEF ListInv, SingleOwner
  <2> QED
    BY <2>1, <2>2 DEF ListInv, SingleOwner
<1>7. HeldIsDetached'
  <2>1. tail # NULL => tail \notin held
    BY ListQueueFacts DEF ListInv, ListIsSequence
  <2> QED
    BY <2>1 DEF ListInv, HeldIsDetached, ListTypeOK
<1> QED
  BY <1>3, <1>4, <1>5, <1>6, <1>7 DEF ListInv

LEMMA ListPopInv ==
  ASSUME ListInv, suscan_mq_pop
  PROVE  ListInv'
<1>a. /\ op = "idle" /\ head # NULL /\ head' = next[head]
      /\ tail' = IF next[head] = NULL THEN NULL ELSE tail
      /\ next' = [next EXCEPT ![head] = NULL]
      /\ count' = count - 1 /\ held' = held \cup {head}
      /\ UNCHANGED <<type, pool, cursor>>
  BY DEF suscan_mq_pop
<1>0. mq # <<>> /\ head = mq[1] /\ 1 \in 1..Len(mq) /\ head \in Cells
  BY <1>a, ListQueueFacts DEF ListInv, ListIsSequence
<1>b. /\ Tail(mq) \in Seq(Cells) /\ Len(Tail(mq)) = Len(mq) - 1
      /\ \A j \in 1..(Len(mq) - 1) : Tail(mq)[j] = mq[j + 1]
  BY <1>0, ListQueueFacts, TailFacts
<1>c. mq' = Tail(mq)
  BY DEF suscan_mq_pop
<1>1. /\ mq' \in Seq(Cells) /\ Len(mq') = Len(mq) - 1
      /\ \A j \in 1..(Len(mq) - 1) : mq'[j] = mq[j + 1]
  BY <1>b, <1>c
<1>d. mq' = <<>> <=> Len(mq) = 1
  BY <1>1, ListQueueFacts
<1>2. next[head] = IF Len(mq) = 1 THEN NULL ELSE mq[2]
  BY <1>0, ListQueueFacts DEF ListInv, ListIsSequence
<1>3. next[head] \in Link /\ (next[head] = NULL <=> Len(mq) = 1)
  <2>1. next[head] \in Link
    BY <1>0 DEF ListInv, ListTypeOK
  <2>a. Len(mq) \in Nat
    BY ListQueueFacts
  <2>2. Len(mq) # 1 => 2 \in 1..Len(mq)
    <3>1. 1 \in 1..Len(mq)
      BY <1>0
    <3> QED
      BY <3>1, <2>a
  <2>b. \A i \in 1..Len(mq) : mq[i] # NULL
    BY ListQueueFacts
  <2>3. Len(mq) # 1 => mq[2] # NULL
    BY <2>2, <2>b
  <2> QED
    BY <1>2, <2>1, <2>3
<1>4. ListTypeOK'
  BY <1>a, <1>0, <1>1, <1>3, ListQueueFacts
     DEF ListInv, ListTypeOK, Link, cursor, ListIsSequence
<1>5. ListIsSequence'
  <2>1. count' = Len(mq')
    BY <1>a, <1>1 DEF ListInv, ListIsSequence, ListTypeOK
  <2>2. head' = IF mq' = <<>> THEN NULL ELSE mq'[1]
    BY <1>a, <1>0, <1>1, <1>d, <1>2, ListQueueFacts
  <2>3. tail' = IF mq' = <<>> THEN NULL ELSE mq'[Len(mq')]
    BY <1>a, <1>0, <1>1, <1>d, <1>3, ListQueueFacts DEF ListInv, ListIsSequence
  <2>4. \A i \in 1..Len(mq') :
          next'[mq'[i]] = IF i = Len(mq') THEN NULL ELSE mq'[i + 1]
    <3> TAKE i \in 1..Len(mq')
    <3>1. i + 1 \in 1..Len(mq) /\ i + 1 # 1 /\ mq'[i] = mq[i + 1]
      BY <1>1, ListQueueFacts
    <3>2. next'[mq'[i]] = next[mq[i + 1]]
      BY <3>1, <1>a, <1>0, ListQueueFacts DEF ListInv, ListTypeOK
    <3>3. next[mq[i + 1]] = IF i + 1 = Len(mq) THEN NULL ELSE mq[(i + 1) + 1]
      BY <3>1 DEF ListInv, ListIsSequence
    <3>4. i # Len(mq') => mq'[i + 1] = mq[(i + 1) + 1]
      BY <1>1, ListQueueFacts
    <3> QED
      BY <3>2, <3>3, <3>4, <1>1, ListQueueFacts
  <2> QED
    BY <2>1, <2>2, <2>3, <2>4 DEF ListIsSequence
<1>6. SingleOwner'
  <2>1. IsInjective(mq') /\ head \notin ToSet(mq') /\ ToSet(mq') \subseteq ToSet(mq)
    BY <1>0, <1>c, ListQueueFacts, RemoveFromInjective, ToSetAfter
       DEF ListInv, SingleOwner
  <2>2. head \in ToSet(mq)
    BY <1>0, ListQueueFacts, ToSetFacts
  <2> QED
    BY <1>a, <2>1, <2>2 DEF ListInv, SingleOwner
<1>7. HeldIsDetached' /\ CursorInList'
  BY <1>a, <1>0 DEF ListInv, HeldIsDetached, CursorInList, ListTypeOK, cursor
<1> QED
  BY <1>4, <1>5, <1>6, <1>7 DEF ListInv

LEMMA SearchStartInv ==
  ASSUME ListInv, NEW t \in MsgTypes, suscan_mq_pop_w_type(t)
  PROVE  ListInv'
<1> USE DEF suscan_mq_pop_w_type, list, cells
<1>1. CursorInList'
  BY ListQueueFacts DEF ListInv, ListIsSequence, CursorInList
<1>2. ListTypeOK'
  BY DEF ListInv, ListTypeOK, Link
<1> QED
  BY <1>1, <1>2 DEF ListInv, ListIsSequence, SingleOwner, HeldIsDetached

\* Where a running loop stands when its cursor is not NULL.
LEMMA CursorFacts ==
  ASSUME ListInv, op # "idle", this # NULL
  PROVE  /\ pos \in 1..Len(mq) /\ this = mq[pos] /\ this \in Cells
         /\ next[this] = IF pos = Len(mq) THEN NULL ELSE mq[pos + 1]
         /\ pos = 1 <=> prev = NULL
         /\ pos # 1 => pos - 1 \in 1..Len(mq) /\ prev = mq[pos - 1]
                       /\ prev \in Cells /\ next[prev] = this
<1>1. pos \in 1..Len(mq) /\ this = mq[pos]
  BY ListQueueFacts DEF ListInv, CursorInList
<1>2. this \in Cells /\ next[this] = IF pos = Len(mq) THEN NULL ELSE mq[pos + 1]
  BY <1>1, ListQueueFacts DEF ListInv, ListIsSequence
<1>3. CASE pos = 1
  BY <1>1, <1>2, <1>3 DEF ListInv, CursorInList
<1>4. CASE pos # 1
  <2>1. pos - 1 \in 1..Len(mq) /\ prev = mq[pos - 1] /\ pos - 1 # Len(mq)
    BY <1>1, <1>4, ListQueueFacts DEF ListInv, CursorInList
  <2>2. prev \in Cells /\ prev # NULL
    BY <2>1, ListQueueFacts
  <2>3. next[prev] = mq[(pos - 1) + 1] /\ (pos - 1) + 1 = pos
    BY <2>1, <1>1 DEF ListInv, ListIsSequence
  <2> QED
    BY <1>1, <1>2, <1>4, <2>1, <2>2, <2>3
<1> QED
  BY <1>3, <1>4

\* A loop moves on to the next node.
LEMMA AdvanceInv ==
  ASSUME ListInv, SearchNext \/ CleanupKeep
  PROVE  ListInv'
<1> USE DEF SearchNext, CleanupKeep, list, cells
<1>0. /\ pos \in 1..Len(mq) /\ this = mq[pos]
      /\ next[this] = IF pos = Len(mq) THEN NULL ELSE mq[pos + 1]
  BY CursorFacts
<1>1. CursorInList'
  <2>1. /\ pos' = pos + 1 /\ mq' = mq /\ Len(mq) \in Nat /\ type' = type
        /\ op' = op /\ want' = want
    BY ListQueueFacts
  <2>2. /\ pos' \in 1..(Len(mq) + 1)
        /\ this' = IF pos' <= Len(mq) THEN mq[pos'] ELSE NULL
        /\ prev' = mq[pos' - 1] /\ pos' # 1
    BY <1>0, <2>1
  <2>3. op = "search" => \A i \in 1..(pos' - 1) : type[mq[i]] # want
    <3> SUFFICES ASSUME op = "search", NEW i \in 1..(pos' - 1)
                 PROVE  type[mq[i]] # want
      OBVIOUS
    <3>1. i = pos \/ i \in 1..(pos - 1)
      BY <1>0, <2>1
    <3> QED
      BY <3>1, <1>0 DEF ListInv, CursorInList
  <2> QED
    BY <2>1, <2>2, <2>3 DEF CursorInList
<1>2. ListTypeOK'
  BY <1>0, ListQueueFacts DEF ListInv, ListTypeOK, Link
<1> QED
  BY <1>1, <1>2 DEF ListInv, ListIsSequence, SingleOwner, HeldIsDetached

\* A loop ends.
LEMMA ReturnInv ==
  ASSUME ListInv, SearchMissed \/ CleanupDone
  PROVE  ListInv'
  BY DEF SearchMissed, CleanupDone, Return, list, cells, ListInv, ListTypeOK, Link,
         ListIsSequence, SingleOwner, HeldIsDetached, CursorInList

-----------------------------------------------------------------------------
(* Unlinking the node under the cursor, common to both loops *)

LEMMA UnlinkQueue ==
  ASSUME ListInv, op # "idle", this # NULL, mq' = RemoveAt(mq, pos)
  PROVE  /\ mq' \in Seq(Cells) /\ Len(mq') = Len(mq) - 1
         /\ \A j \in 1..(Len(mq) - 1) : mq'[j] = IF j < pos THEN mq[j] ELSE mq[j + 1]
         /\ mq' = <<>> <=> Len(mq) = 1
         /\ IsInjective(mq') /\ this \notin ToSet(mq') /\ ToSet(mq') \subseteq ToSet(mq)
         /\ this \in ToSet(mq)
<1>1. pos \in 1..Len(mq) /\ this = mq[pos] /\ mq \in Seq(Cells) /\ Len(mq) \in Nat
  BY CursorFacts, ListQueueFacts
<1>2. /\ RemoveAt(mq, pos) \in Seq(Cells) /\ Len(RemoveAt(mq, pos)) = Len(mq) - 1
      /\ \A j \in 1..(Len(mq) - 1) :
           RemoveAt(mq, pos)[j] = IF j < pos THEN mq[j] ELSE mq[j + 1]
  BY <1>1, RemoveAtFacts
<1>3. mq' = <<>> <=> Len(mq') = 0
  BY <1>2
<1>4. IsInjective(mq)
  BY DEF ListInv, SingleOwner
<1>5. IsInjective(mq') /\ this \notin ToSet(mq')
  BY <1>1, <1>4, RemoveFromInjective
<1>6. ToSet(mq') \subseteq ToSet(mq) /\ this \in ToSet(mq)
  BY <1>1, ToSetAfter, ToSetFacts
<1> QED
  BY <1>1, <1>2, <1>3, <1>5, <1>6

LEMMA UnlinkList ==
  ASSUME ListInv, op # "idle", this # NULL, mq' = RemoveAt(mq, pos),
         head' = IF prev = NULL THEN next[this] ELSE head,
         tail' = IF pos = Len(mq) THEN prev ELSE tail,
         count' = count - 1,
         \A i \in 1..Len(mq) : i # pos =>
           next'[mq[i]] = IF mq[i] = prev THEN next[this] ELSE next[mq[i]]
  PROVE  ListIsSequence'
<1>0. /\ mq' \in Seq(Cells) /\ Len(mq') = Len(mq) - 1
      /\ \A j \in 1..(Len(mq) - 1) : mq'[j] = IF j < pos THEN mq[j] ELSE mq[j + 1]
      /\ mq' = <<>> <=> Len(mq) = 1
  BY UnlinkQueue
<1>1. /\ pos \in 1..Len(mq) /\ this = mq[pos]
      /\ next[this] = IF pos = Len(mq) THEN NULL ELSE mq[pos + 1]
      /\ pos = 1 <=> prev = NULL
      /\ pos # 1 => pos - 1 \in 1..Len(mq) /\ prev = mq[pos - 1]
  BY CursorFacts
<1>2. /\ Len(mq) \in Nat
      /\ \A i \in 1..Len(mq) : mq[i] \in Cells /\ mq[i] # NULL
      /\ \A i, j \in 1..Len(mq) : mq[i] = mq[j] => i = j
      /\ mq # <<>>
  BY <1>1, ListQueueFacts
<1>3. /\ count = Len(mq) /\ head = mq[1] /\ tail = mq[Len(mq)]
      /\ \A i \in 1..Len(mq) : next[mq[i]] = IF i = Len(mq) THEN NULL ELSE mq[i + 1]
  BY <1>2 DEF ListInv, ListIsSequence
<1>4. count' = Len(mq')
  BY <1>0, <1>3
<1>5. head' = IF mq' = <<>> THEN NULL ELSE mq'[1]
  <2>1. CASE pos = 1
    BY <2>1, <1>0, <1>1, <1>2
  <2>2. CASE pos # 1
    BY <2>2, <1>0, <1>1, <1>2, <1>3
  <2> QED
    BY <2>1, <2>2
<1>6. tail' = IF mq' = <<>> THEN NULL ELSE mq'[Len(mq')]
  <2>1. CASE pos = Len(mq)
    BY <2>1, <1>0, <1>1, <1>2
  <2>2. CASE pos # Len(mq)
    BY <2>2, <1>0, <1>1, <1>2, <1>3
  <2> QED
    BY <2>1, <2>2
<1>7. ASSUME NEW i \in 1..Len(mq')
      PROVE  next'[mq'[i]] = IF i = Len(mq') THEN NULL ELSE mq'[i + 1]
  <2>1. CASE i < pos /\ i # pos - 1
    <3>1. i \in 1..Len(mq) /\ i # pos /\ i # Len(mq') /\ i + 1 < pos
      BY <2>1, <1>0, <1>1, <1>2
    <3>2. mq[i] # prev /\ mq[i] # NULL
      BY <3>1, <2>1, <1>1, <1>2
    <3>a. Len(mq) \in Nat /\ pos \in 1..Len(mq)
      BY <1>1, <1>2
    <3>b. i \in 1..(Len(mq) - 1) /\ i + 1 \in 1..(Len(mq) - 1) /\ i # Len(mq)
      BY <3>1, <3>a
    <3>3. mq'[i] = mq[i] /\ mq'[i + 1] = mq[i + 1] /\ i # Len(mq)
      BY <3>1, <3>b, <2>1, <1>0
    <3> QED
      BY <3>1, <3>2, <3>3, <1>3
  <2>2. CASE i = pos - 1
    <3>1. i \in 1..Len(mq) /\ i # pos /\ prev = mq[i] /\ mq'[i] = mq[i]
      BY <2>2, <1>0, <1>1, <1>2
    <3>2. next'[mq'[i]] = IF pos = Len(mq) THEN NULL ELSE mq[pos + 1]
      BY <3>1, <1>1
    <3>3. pos # Len(mq) => mq'[i + 1] = mq[pos + 1]
      BY <2>2, <1>0, <1>1, <1>2
    <3>4. i = Len(mq') <=> pos = Len(mq)
      BY <2>2, <1>0, <1>1, <1>2
    <3> QED
      BY <3>2, <3>3, <3>4
  <2>3. CASE i >= pos
    <3>1. i + 1 \in 1..Len(mq) /\ i + 1 # pos /\ mq'[i] = mq[i + 1]
      BY <2>3, <1>0, <1>1, <1>2
    <3>2. mq[i + 1] # prev
      BY <3>1, <2>3, <1>1, <1>2
    <3>3. next'[mq'[i]] = IF i + 1 = Len(mq) THEN NULL ELSE mq[(i + 1) + 1]
      BY <3>1, <3>2, <1>3
    <3>4. i + 1 # Len(mq) => mq'[i + 1] = mq[(i + 1) + 1]
      <4>1. i + 1 # Len(mq) => i + 1 \in 1..(Len(mq) - 1) /\ ~(i + 1 < pos)
        BY <2>3, <3>1, <1>1, <1>2
      <4> QED
        BY <4>1, <1>0
    <3>5. i = Len(mq') <=> i + 1 = Len(mq)
      BY <1>0, <1>2
    <3> QED
      BY <3>3, <3>4, <3>5
  <2> QED
    BY <2>1, <2>2, <2>3, <1>0, <1>1, <1>2
<1> QED
  BY <1>4, <1>5, <1>6, <1>7 DEF ListIsSequence

LEMMA SearchUnlinkInv ==
  ASSUME ListInv, SearchUnlink
  PROVE  ListInv'
<1>a. /\ op = "search" /\ this # NULL
      /\ head' = IF prev = NULL THEN next[this] ELSE head
      /\ tail' = IF this = tail THEN prev ELSE tail
      /\ next' = [c \in Cells |-> IF c = this THEN NULL
                                  ELSE IF c = prev THEN next[this] ELSE next[c]]
      /\ count' = count - 1 /\ held' = held \cup {this}
      /\ mq' = RemoveAt(mq, pos)
      /\ op' = "idle" /\ this' = NULL /\ prev' = NULL /\ pos' = 1 /\ want' = want
      /\ type' = type /\ pool' = pool
  BY DEF SearchUnlink, Return
<1>0. op # "idle" /\ this # NULL
  BY <1>a
<1>1. /\ pos \in 1..Len(mq) /\ this = mq[pos] /\ this \in Cells
      /\ next[this] \in Link /\ prev \in Link
  BY <1>0, CursorFacts DEF ListInv, ListTypeOK
<1>2. /\ mq' \in Seq(Cells)
      /\ IsInjective(mq') /\ this \notin ToSet(mq') /\ ToSet(mq') \subseteq ToSet(mq)
      /\ this \in ToSet(mq)
  BY <1>a, <1>0, UnlinkQueue
<1>3. this = tail <=> pos = Len(mq)
  BY <1>1, ListQueueFacts DEF ListInv, ListIsSequence
<1>4. \A i \in 1..Len(mq) : i # pos =>
        next'[mq[i]] = IF mq[i] = prev THEN next[this] ELSE next[mq[i]]
  BY <1>a, <1>1, ListQueueFacts
<1>5. ListIsSequence'
  BY <1>a, <1>0, <1>3, <1>4, UnlinkList
<1>6. ListTypeOK'
  <2>1. count' \in Nat
    BY <1>a, <1>1, ListQueueFacts DEF ListInv, ListTypeOK, ListIsSequence
  <2>2. next' \in [Cells -> Link]
    BY <1>a, <1>1 DEF ListInv, ListTypeOK, Link
  <2> QED
    BY <1>a, <1>1, <1>2, <2>1, <2>2 DEF ListInv, ListTypeOK, Link
<1>7. SingleOwner'
  BY <1>a, <1>2 DEF ListInv, SingleOwner
<1>8. HeldIsDetached'
  <2>1. prev \notin held
    BY <1>0, CursorFacts, ListQueueFacts, MsgListAssumption
       DEF ListInv, ListTypeOK, MsgListAssumption
  <2>2. next'[this] = NULL /\ \A c \in held : next'[c] = NULL
    BY <1>a, <1>1, <2>1 DEF ListInv, HeldIsDetached, ListTypeOK
  <2> QED
    BY <1>a, <2>2 DEF HeldIsDetached
<1>9. CursorInList'
  BY <1>a DEF CursorInList
<1> QED
  BY <1>5, <1>6, <1>7, <1>8, <1>9 DEF ListInv

LEMMA CleanupDropInv ==
  ASSUME ListInv, CleanupDrop
  PROVE  ListInv'
<1>a. /\ op = "cleanup" /\ this # NULL
      /\ next' = IF prev # NULL THEN [next EXCEPT ![prev] = next[this]] ELSE next
      /\ head' = IF prev # NULL THEN head ELSE next[this]
      /\ tail' = IF next[this] = NULL THEN prev ELSE tail
      /\ suscan_mq_return_msg(this)
      /\ count' = count - 1 /\ mq' = RemoveAt(mq, pos) /\ this' = next[this]
      /\ UNCHANGED <<type, held, op, prev, want, pos>>
  BY DEF CleanupDrop
<1>0. op # "idle" /\ this # NULL
  BY <1>a
<1>1. /\ pos \in 1..Len(mq) /\ this = mq[pos] /\ this \in Cells
      /\ next[this] = IF pos = Len(mq) THEN NULL ELSE mq[pos + 1]
      /\ pos = 1 <=> prev = NULL
      /\ pos # 1 => pos - 1 \in 1..Len(mq) /\ prev = mq[pos - 1] /\ prev \in Cells
      /\ next[this] \in Link /\ prev \in Link
  BY <1>0, CursorFacts DEF ListInv, ListTypeOK
<1>2. /\ mq' \in Seq(Cells) /\ Len(mq') = Len(mq) - 1
      /\ \A j \in 1..(Len(mq) - 1) : mq'[j] = IF j < pos THEN mq[j] ELSE mq[j + 1]
      /\ IsInjective(mq') /\ this \notin ToSet(mq') /\ ToSet(mq') \subseteq ToSet(mq)
      /\ this \in ToSet(mq)
  BY <1>a, <1>0, UnlinkQueue
<1>b. Len(mq) \in Nat
  BY ListQueueFacts
<1>3. next[this] = NULL <=> pos = Len(mq)
  <2>1. pos # Len(mq) => pos + 1 \in 1..Len(mq)
    BY <1>1, <1>b
  <2> QED
    BY <1>1, <2>1, ListQueueFacts
<1>4. \A i \in 1..Len(mq) : i # pos =>
        next'[mq[i]] = IF mq[i] = prev THEN next[this] ELSE next[mq[i]]
  BY <1>a, <1>1, ListQueueFacts DEF ListInv, ListTypeOK
<1>5. ListIsSequence'
  BY <1>a, <1>0, <1>3, <1>4, UnlinkList
<1>6. this \notin ToSet(pool) /\ this \notin held
  BY <1>2 DEF ListInv, SingleOwner
<1>7. /\ pool' \in Seq(Cells) /\ IsInjective(pool')
      /\ ToSet(pool') \subseteq ToSet(pool) \cup {this}
  BY <1>a, <1>1, <1>6, ReturnFacts
<1>8. ListTypeOK'
  <2>1. count' \in Nat
    BY <1>a, <1>1, ListQueueFacts DEF ListInv, ListTypeOK, ListIsSequence
  <2>2. next' \in [Cells -> Link]
    BY <1>a, <1>1 DEF ListInv, ListTypeOK
  <2>3. head' \in Link /\ tail' \in Link /\ this' \in Link
    BY <1>a, <1>1 DEF ListInv, ListTypeOK
  <2> QED
    BY <1>a, <1>2, <1>7, <2>1, <2>2, <2>3 DEF ListInv, ListTypeOK
<1>9. SingleOwner'
  BY <1>a, <1>2, <1>6, <1>7 DEF ListInv, SingleOwner
<1>10. HeldIsDetached'
  <2>1. prev \notin held
    BY <1>0, CursorFacts, ListQueueFacts, MsgListAssumption
       DEF ListInv, ListTypeOK, MsgListAssumption
  <2> QED
    BY <1>a, <2>1, <1>1 DEF ListInv, HeldIsDetached, ListTypeOK
<1>11. CursorInList'
  <2>1. pos' \in 1..(Len(mq') + 1)
    BY <1>a, <1>1, <1>2, <1>b
  <2>2. this' = IF pos' <= Len(mq') THEN mq'[pos'] ELSE NULL
    BY <1>a, <1>1, <1>2, <1>b
  <2>3. prev' = IF pos' = 1 THEN NULL ELSE mq'[pos' - 1]
    BY <1>a, <1>1, <1>2, <1>b
  <2> QED
    BY <1>a, <2>1, <2>2, <2>3 DEF CursorInList
<1> QED
  BY <1>5, <1>8, <1>9, <1>10, <1>11 DEF ListInv

-----------------------------------------------------------------------------

LEMMA ListStepInv == ListInv /\ [ListNext]_list_vars => ListInv'
<1> SUFFICES ASSUME ListInv, [ListNext]_list_vars PROVE ListInv'
  OBVIOUS
<1>1. CASE UNCHANGED list_vars
  BY <1>1 DEF list_vars, list, cells, cursor, ListInv, ListTypeOK, ListIsSequence,
              SingleOwner, HeldIsDetached, CursorInList
<1>2. CASE ListNext
  BY <1>2, NewInv, DestroyInv, PushFrontInv, PushInv, ListPopInv, SearchStartInv,
     AdvanceInv, ReturnInv, SearchUnlinkInv, CleanupDropInv DEF ListNext
<1> QED
  BY <1>1, <1>2

\* The inductive invariant holds in every reachable state of mq.c's list.
THEOREM ListInvHolds == ListSpec => []ListInv
<1>1. ListInit => ListInv
  BY ListInitInv
<1>2. ListInv /\ [ListNext]_list_vars => ListInv'
  BY ListStepInv
<1> QED
  BY <1>1, <1>2, PTL DEF ListSpec

\* The fields of the queue, its cells and its loops keep their C types.
THEOREM ListTypes == ListSpec => []ListTypeOK
  BY ListInvHolds, PTL DEF ListInv

\* head, tail, count and the next pointers are at all times the sequence the
\* pushes, pops, typed removals and cleanups should have left.
THEOREM ListRepresentsSequence == ListSpec => []ListIsSequence
  BY ListInvHolds, PTL DEF ListInv

\* No message cell is ever in two places at once: queue, pool, a caller.
THEOREM CellsHaveOneOwner == ListSpec => []SingleOwner
  BY ListInvHolds, PTL DEF ListInv

=============================================================================
