---------------------------- MODULE Remote_proofs ----------------------------
(***************************************************************************)
(* For any users of the analyzer and any calls they make: the server gets  *)
(* what was asked, each call once, whole and in order, behind the answer   *)
(* to its authentication; and the destruction joins both threads, wherever *)
(* the connection was.                                                     *)
(*                                                                         *)
(* One call structure is shared by all the users and both threads: that it *)
(* is sent as it was asked needs its owner to be the one that has the      *)
(* mutex, and the queue to hold, in order, what was asked and is unsent.   *)
(* The second claim takes that the program waits for HALT before it        *)
(* destroys the analyzer (~EarlyDestroy).                                  *)
(***************************************************************************)
EXTENDS Remote, SeqLemmas

InCall == {"fill", "queue", "release", "d_fill", "d_queue", "d_release"}

\* Whoever is in a call has the mutex, and nobody else.
OwnerInv ==
  /\ \A u \in Users : user[u].at \in InCall <=> call_mutex = u
  /\ tx = "deliver" <=> call_mutex = "tx"
  /\ rx \in {"handle", "restore"} <=> call_mutex = "rx"

CallInv ==
  /\ \A u \in Users : user[u].at \in InCall \cup {"lock"} => user[u].want \in Wants
  /\ \A u \in Users : user[u].at \in {"queue", "d_queue"} => call = user[u].want
  /\ tx = "deliver" => call \in {AUTH_INFO(TRUE), AUTH_INFO(FALSE)}
  /\ rx = "handle" => call \in ServerCalls \cup {McCall}

Unsent == {"resolve", "multicast", "connect", "hello", "auth", "deliver"}
Sends == {"answer", "start", "mark", "read"}
Sent == IF to_peer = <<>> THEN 0 ELSE Len(to_peer) - 1

\* HALT_PDU is not in the first j places of the queue.
NoHalt(j) == \A i \in 1 .. j : pdu_queue[i] # HALT_PDU

SentInv ==
  /\ tx \in Unsent => to_peer = <<>>
  /\ tx \in Sends => to_peer # <<>>
  /\ to_peer # <<>> => to_peer[1].type = "AUTH_INFO"
  /\ \A k \in 2 .. Len(to_peer) : k - 1 \in 1 .. Len(asked) /\ to_peer[k] = asked[k - 1]

QueueInv ==
  tx \in Unsent \cup Sends =>
    /\ \A j \in 1 .. Len(pdu_queue) :
         NoHalt(j) => Sent + j \in 1 .. Len(asked) /\ pdu_queue[j] = asked[Sent + j]
    /\ NoHalt(Len(pdu_queue)) => Len(asked) = Sent + Len(pdu_queue)

ServerInv ==
  /\ tx \in {"resolve", "multicast", "connect", "hello"} => said \in 0..1 /\ Len(from_peer) = said
  /\ tx \in {"auth", "deliver"} => said = 1 /\ from_peer = <<>>
  /\ tx = "answer" => said \in 1..2 /\ Len(from_peer) = said - 1
  /\ tx = "start" => said = 2 /\ from_peer = <<>>
  /\ rx # "none" => said >= 2 /\ from_peer \in Seq(ServerCalls)

RxInv ==
  /\ tx \in Unsent \cup {"answer", "start"} => rx = "none" /\ ~rx_thread_init
  /\ tx = "mark" => rx # "none" /\ ~rx_thread_init
  /\ tx \in {"read", "done", "halt", "ended"} => (rx_thread_init <=> rx # "none")

HaltInv ==
  /\ ~running => tx \in {"halt", "ended"}
  /\ told \/ HALT \in ToSet(mq_out) => tx = "ended"
  /\ freed => tx = "ended" /\ user[Main].at = "gone"

DestroyInv ==
  ~EarlyDestroy =>
    /\ user[Main].at \in DestroyPlaces \ {"dtor", "join_rx", "halt_tx", "join_tx", "gone"} =>
         \/ user[Main].want = suscan_remote_analyzer_force_eos /\ (halt_requested => told)
         \/ user[Main].want = suscan_remote_analyzer_req_halt /\ user[Main].at # "d_halt"
    /\ user[Main].at \in {"dtor", "join_rx", "halt_tx", "join_tx", "gone"} => tx \in {"halt", "ended"}
    /\ user[Main].at \in {"halt_tx", "join_tx", "gone"} => rx \in {"none", "ended"}

Inv ==
  /\ TypeOK /\ OwnerInv /\ CallInv /\ SentInv /\ QueueInv /\ ServerInv /\ RxInv /\ HaltInv
  /\ DestroyInv

\* A sequence is one of its own elements.
LEMMA OwnElements ==
  ASSUME NEW S, NEW s \in Seq(S)
  PROVE  s \in Seq(ToSet(s))
<1>1. \A i \in 1 .. Len(s) : s[i] \in ToSet(s)
  BY ToSetFacts
<1> QED
  BY <1>1

LEMMA OwnerSteps ==
  ASSUME Next
  PROVE  \/ UNCHANGED <<user, tx, rx, call_mutex>>
         \/ \E u \in Users : UserStep(u)
         \/ ReqHalt \/ Destroy \/ DestroyRelease \/ DestroyReqHalt
         \/ suscan_analyzer_consume_mq_until_halt \/ suscan_remote_analyzer_dtor \/ JoinRx \/ HaltTx
         \/ Free
         \/ Connecting \/ Sending \/ Receiving
  BY DEF Next, MainStep, Server, suscan_analyzer_read, SayHello, SayAnswer, SayCall, Close, Say, users, threads, Info

LEMMA OwnerStep ==
  ASSUME TypeOK, OwnerInv, Next
  PROVE  OwnerInv'
<1>0. /\ Main \in Users /\ None \notin Users
      /\ "tx" \notin Users /\ "rx" \notin Users /\ "tx" # None /\ "rx" # None
      /\ user \in [Users -> [at : CallPlaces \cup DestroyPlaces, want : Wants \cup {NoCall}]]
      /\ \A u \in Users : u # "tx" /\ u # "rx" /\ u # None
  BY RemoteAssumption DEF TypeOK, UserTypes
<1> USE <1>0 DEF OwnerInv
<1>1. ASSUME NEW u \in Users, CallNext(u) \/ Acquire(u) PROVE OwnerInv'
  <2>1. PICK c : \/ UNCHANGED <<user, call_mutex>>
                 \/ /\ UNCHANGED call_mutex /\ user[u].at = "idle"
                    /\ user' = [user EXCEPT ![u] = [at |-> "lock", want |-> c]]
                 \/ /\ call_mutex = None /\ call_mutex' = u /\ user[u].at = "lock"
                    /\ user' = [user EXCEPT ![u] = [at |-> "fill", want |-> c]]
    BY <1>1 DEF CallNext, Acquire, Calling, suscan_remote_analyzer_acquire_call, Idle
  <2>2. UNCHANGED <<tx, rx>>
    BY <1>1 DEF CallNext, Acquire, threads
  <2> QED
    BY <2>1, <2>2 DEF InCall
<1>2. ASSUME NEW u \in Users, Fill(u) PROVE OwnerInv'
  BY <1>2 DEF Fill, threads, At, InCall
<1>3. ASSUME NEW u \in Users, Queue(u) PROVE OwnerInv'
  BY <1>3 DEF Queue, threads, At, InCall
<1>4. ASSUME NEW u \in Users, Release(u) PROVE OwnerInv'
  BY <1>4 DEF Release, threads, At, InCall, suscan_remote_analyzer_release_call
<1>5. ASSUME ReqHalt \/ Destroy \/ DestroyReqHalt PROVE OwnerInv'
  BY <1>5 DEF ReqHalt, Destroy, DestroyReqHalt, threads, Idle, InCall, Calling,
              suscan_remote_analyzer_acquire_call
<1>6. ASSUME DestroyRelease PROVE OwnerInv'
  BY <1>6 DEF DestroyRelease, suscan_remote_analyzer_release_call, At, threads, InCall
<1>7. ASSUME \/ suscan_analyzer_consume_mq_until_halt \/ suscan_remote_analyzer_dtor \/ JoinRx
             \/ HaltTx \/ Free
      PROVE OwnerInv'
  BY <1>7 DEF suscan_analyzer_consume_mq_until_halt, suscan_remote_analyzer_dtor, JoinRx, HaltTx,
              Free, At, threads, InCall
<1>8. ASSUME Connecting PROVE OwnerInv'
  BY <1>8 DEF Connecting, Resolve, suscan_remote_analyzer_open_multicast, Fail, TxTo,
     suscan_remote_analyzer_network_connect_cancellable, ReadHello, FillAuth,
     suscan_remote_analyzer_deliver_call, ReadAnswer, StartRx, MarkRx, users,
     suscan_remote_analyzer_release_call
<1>9. ASSUME Sending PROVE OwnerInv'
  BY <1>9 DEF Sending, suscan_remote_analyzer_tx_thread, TxDone, TxHalt, TxTo, users
<1>10. ASSUME Receiving PROVE OwnerInv'
  BY <1>10 DEF Receiving, ReceiveQueued, ReceiveCancelled, ReceiveCall, ReceiveDatagram,
     TakeSourceInfo, suscan_remote_analyzer_rx_thread, RxDone, users, suscan_remote_analyzer_release_call
<1>11. ASSUME UNCHANGED <<user, tx, rx, call_mutex>> PROVE OwnerInv'
  BY <1>11
<1> QED
  BY <1>1, <1>2, <1>3, <1>4, <1>5, <1>6, <1>7, <1>8, <1>9, <1>10, <1>11, OwnerSteps DEF UserStep

LEMMA UserTypesStep ==
  ASSUME TypeOK, Next
  PROVE  UserTypes'
<1>0. /\ Main \in Users 
      /\ suscan_remote_analyzer_force_eos \in Wants /\ suscan_remote_analyzer_req_halt \in Wants
      /\ UserTypes
  BY RemoteAssumption DEF Wants, TypeOK
<1> USE <1>0 DEF UserTypes, CallPlaces, DestroyPlaces
<1>1. ASSUME NEW u \in Users, CallNext(u) PROVE UserTypes'
  <2> DEFINE c == Head(program[u])
  <2>1. program[u] \in Seq(ToSet(program[u])) /\ program[u] # <<>> 
    BY <1>1 DEF CallNext
  <2>2. c \in ToSet(program[u]) /\ Tail(program[u]) \in Seq(ToSet(program[u]))
    BY <2>1, HeadFacts
  <2>3. Tail(program[u]) \in Seq(ToSet(Tail(program[u]))) /\ ToSet(Tail(program[u])) \subseteq ToSet(program[u])
    BY <2>1, <2>2, OwnElements, ToSetAfter
  <2>4. c.call \in Wants
    BY <2>2
  <2>5. program' = [program EXCEPT ![u] = Tail(program[u])]
    BY <1>1 DEF CallNext
  <2>6. /\ UNCHANGED call_mutex
        /\ UNCHANGED user \/ user' = [user EXCEPT ![u] = [at |-> "lock", want |-> c.call]]
    BY <1>1 DEF CallNext
  <2> HIDE DEF c
  <2>7. DOMAIN program' = Users /\ \A v \in Users : program'[v] = IF v = u THEN Tail(program[u]) ELSE program[v]
    BY <2>5
  <2>8. \A v \in Users : program'[v] \in Seq(ToSet(program'[v])) /\ \A d \in ToSet(program'[v]) : d.call \in Wants
    BY <2>3, <2>7
  <2>9. [at |-> "lock", want |-> c.call] \in [at : CallPlaces \cup DestroyPlaces, want : Wants \cup {NoCall}]
    BY <2>4
  <2>10. user' \in [Users -> [at : CallPlaces \cup DestroyPlaces, want : Wants \cup {NoCall}]]
    BY <2>6, <2>9
  <2>11. \A v \in Users \ {Main} : user'[v].at \in CallPlaces
    BY <2>6
  <2>12. call_mutex' \in Users \cup {"tx", "rx", None}
    BY <2>6
  <2> QED
    BY <2>7, <2>8, <2>10, <2>11, <2>12
<1>a. ASSUME NEW u \in Users, Acquire(u) PROVE UserTypes'
  <2>1. /\ user' = [user EXCEPT ![u] = [at |-> "fill", want |-> user[u].want]]
        /\ call_mutex' = u /\ UNCHANGED program
    BY <1>a DEF Acquire, Calling, suscan_remote_analyzer_acquire_call
  <2>2. [at |-> "fill", want |-> user[u].want] \in [at : CallPlaces \cup DestroyPlaces, want : Wants \cup {NoCall}]
    OBVIOUS
  <2> QED
    BY <2>1, <2>2
<1>2. ASSUME NEW u \in Users, Fill(u) PROVE UserTypes'
  BY <1>2 DEF Fill, At
<1>3. ASSUME NEW u \in Users, Queue(u) PROVE UserTypes'
  BY <1>3 DEF Queue, At
<1>4. ASSUME NEW u \in Users, Release(u) PROVE UserTypes'
  BY <1>4 DEF Release, At, suscan_remote_analyzer_release_call
<1>5. ASSUME ReqHalt \/ Destroy \/ DestroyReqHalt PROVE UserTypes'
  BY <1>5 DEF ReqHalt, Destroy, DestroyReqHalt, Calling, suscan_remote_analyzer_acquire_call
<1>6. ASSUME DestroyRelease PROVE UserTypes'
  BY <1>6 DEF DestroyRelease, suscan_remote_analyzer_release_call, At
<1>7. ASSUME \/ suscan_analyzer_consume_mq_until_halt \/ suscan_remote_analyzer_dtor \/ JoinRx
             \/ HaltTx \/ Free
      PROVE UserTypes'
  <2>1. /\ UNCHANGED <<program, call_mutex>>
        /\ \/ UNCHANGED user
           \/ \E at \in DestroyPlaces : user' = [user EXCEPT ![Main].at = at]
    <3>1. CASE suscan_analyzer_consume_mq_until_halt
      BY <3>1 DEF suscan_analyzer_consume_mq_until_halt, At
    <3>2. CASE suscan_remote_analyzer_dtor
      BY <3>2 DEF suscan_remote_analyzer_dtor, At
    <3>3. CASE JoinRx
      BY <3>3 DEF JoinRx, At
    <3>4. CASE HaltTx
      BY <3>4 DEF HaltTx, At
    <3>5. CASE Free
      BY <3>5 DEF Free, At
    <3> QED
      BY <1>7, <3>1, <3>2, <3>3, <3>4, <3>5
  <2>2. PICK at \in DestroyPlaces :
          UNCHANGED user \/ user' = [user EXCEPT ![Main] = [user[Main] EXCEPT !.at = at]]
    BY <2>1, <1>0 DEF DestroyPlaces
  <2>3. [user[Main] EXCEPT !.at = at] \in [at : CallPlaces \cup DestroyPlaces, want : Wants \cup {NoCall}]
    BY <2>2
  <2>4. user' \in [Users -> [at : CallPlaces \cup DestroyPlaces, want : Wants \cup {NoCall}]]
    BY <2>2, <2>3
  <2>5. \A v \in Users \ {Main} : user'[v].at \in CallPlaces
    BY <2>2
  <2> QED
    BY <2>1, <2>4, <2>5
<1>8. ASSUME UNCHANGED users, call_mutex' \in {"tx", "rx", None, call_mutex} PROVE UserTypes'
  BY <1>8 DEF users
<1>9. ASSUME \/ Connecting \/ Sending \/ Receiving \/ Server \/ suscan_analyzer_read
      PROVE  UNCHANGED users /\ call_mutex' \in {"tx", "rx", None, call_mutex}
  BY <1>9 DEF Connecting, Resolve, suscan_remote_analyzer_open_multicast, 
     suscan_remote_analyzer_network_connect_cancellable, ReadHello, FillAuth,
     suscan_remote_analyzer_deliver_call, ReadAnswer, StartRx, MarkRx, 
     suscan_remote_analyzer_release_call,
     Sending, suscan_remote_analyzer_tx_thread, TxDone, TxHalt,
     Receiving, ReceiveQueued, ReceiveCancelled, ReceiveCall, ReceiveDatagram,
     TakeSourceInfo, suscan_remote_analyzer_rx_thread, RxDone, Server, SayHello, SayAnswer, SayCall, Close, Say,
     suscan_analyzer_read
<1> QED
  BY <1>1, <1>a, <1>2, <1>3, <1>4, <1>5, <1>6, <1>7, <1>8, <1>9 DEF Next, UserStep, MainStep

LEMMA QueueSteps ==
  ASSUME Next
  PROVE  \/ UNCHANGED <<queues, to_peer, asked>>
         \/ \E u \in Users : Queue(u)
         \/ HaltTx \/ Free \/ suscan_remote_analyzer_deliver_call \/ suscan_remote_analyzer_tx_thread
         \/ ReceiveQueued \/ ReceiveDatagram \/ RxDone
<1> USE DEF queues, peer, hist
<1>1. ASSUME NEW u \in Users, UserStep(u) PROVE UNCHANGED <<queues, to_peer, asked>> \/ Queue(u)
  BY <1>1 DEF UserStep, CallNext, Acquire, Calling, Fill, Release
<1>2. ASSUME MainStep, ~HaltTx, ~Free PROVE UNCHANGED <<queues, to_peer, asked>>
  BY <1>2 DEF MainStep, ReqHalt, suscan_analyzer_read, Destroy, DestroyRelease, DestroyReqHalt,
              suscan_analyzer_consume_mq_until_halt, suscan_remote_analyzer_dtor, JoinRx
<1>3. ASSUME Connecting, ~suscan_remote_analyzer_deliver_call
      PROVE  UNCHANGED <<queues, to_peer, asked>>
  BY <1>3 DEF Connecting, Resolve, suscan_remote_analyzer_open_multicast, ReadHello, FillAuth,
              suscan_remote_analyzer_network_connect_cancellable, ReadAnswer, StartRx, MarkRx
<1>4. ASSUME TxDone \/ TxHalt \/ ReceiveCancelled \/ ReceiveCall
             \/ TakeSourceInfo \/ suscan_remote_analyzer_rx_thread
      PROVE  UNCHANGED <<queues, to_peer, asked>>
  BY <1>4 DEF TxDone, TxHalt, ReceiveCancelled, ReceiveCall, TakeSourceInfo, suscan_remote_analyzer_rx_thread
<1>5. ASSUME Server PROVE UNCHANGED <<queues, to_peer, asked>>
  BY <1>5 DEF Server, SayHello, SayAnswer, SayCall, Close, Say
<1> QED
  BY <1>1, <1>2, <1>3, <1>4, <1>5 DEF Next, Sending, Receiving

LEMMA QueueTypesStep ==
  ASSUME TypeOK, CallInv, Next
  PROVE  QueueTypes'
<1> DEFINE W == Wants \cup {HALT_PDU}
           A == Wants \cup {AUTH_INFO(TRUE), AUTH_INFO(FALSE)}
<1>0. /\ pdu_queue \in Seq(W) /\ call_queue \in Seq({McCall}) /\ to_peer \in Seq(A)
      /\ asked \in Seq(Wants) /\ HALT_PDU \in W /\ Wants \subseteq W /\ Wants \subseteq A
      /\ W \ {HALT_PDU} \subseteq A
  BY DEF TypeOK, QueueTypes
<1>1. /\ \A e \in W : Append(pdu_queue, e) \in Seq(W)
      /\ pdu_queue # <<>> => Head(pdu_queue) \in W /\ Tail(pdu_queue) \in Seq(W)
      /\ Append(call_queue, McCall) \in Seq({McCall})
      /\ call_queue # <<>> => Tail(call_queue) \in Seq({McCall})
      /\ \A e \in A : Append(to_peer, e) \in Seq(A)
      /\ \A e \in Wants : Append(asked, e) \in Seq(Wants)
  BY <1>0, AppendFacts, HeadFacts, TailFacts
<1> HIDE DEF W, A
<1>2. ASSUME UNCHANGED <<queues, to_peer, asked>> PROVE QueueTypes'
  BY <1>2 DEF TypeOK, QueueTypes, queues
<1>3. ASSUME NEW u \in Users, Queue(u) PROVE QueueTypes'
  <2>1. user[u].want \in Wants /\ call = user[u].want
    BY <1>3 DEF Queue, CallInv, InCall
  <2>2. /\ pdu_queue' = Append(pdu_queue, call) /\ asked' = Append(asked, user[u].want)
        /\ UNCHANGED <<call_queue, to_peer>>
    BY <1>3 DEF Queue, suscan_remote_analyzer_queue_call, peer
  <2>3. pdu_queue' \in Seq(W) /\ asked' \in Seq(Wants) /\ call_queue' \in Seq({McCall}) /\ to_peer' \in Seq(A)
    BY <2>1, <2>2, <1>0, <1>1
  <2> QED
    BY <2>3 DEF QueueTypes, W, A
<1>4. ASSUME HaltTx \/ RxDone PROVE QueueTypes'
  <2>1. pdu_queue' = Append(pdu_queue, HALT_PDU) /\ UNCHANGED <<call_queue, to_peer, asked>>
    BY <1>4 DEF HaltTx, RxDone, peer, hist
  <2>2. pdu_queue' \in Seq(W) /\ asked' \in Seq(Wants) /\ call_queue' \in Seq({McCall}) /\ to_peer' \in Seq(A)
    BY <2>1, <1>0, <1>1
  <2> QED
    BY <2>2 DEF QueueTypes, W, A
<1>5. ASSUME Free PROVE QueueTypes'
  <2>1. pdu_queue' = <<>> /\ call_queue' = <<>> /\ UNCHANGED <<to_peer, asked>>
    BY <1>5 DEF Free, peer, hist
  <2> QED
    BY <2>1 DEF QueueTypes, TypeOK
<1>6. ASSUME suscan_remote_analyzer_deliver_call PROVE QueueTypes'
  <2>1. call \in A
    BY <1>6 DEF CallInv, A, suscan_remote_analyzer_deliver_call
  <2>2. to_peer' = Append(to_peer, call) \/ UNCHANGED to_peer
    BY <1>6 DEF suscan_remote_analyzer_deliver_call
  <2>3. UNCHANGED <<pdu_queue, call_queue, asked>>
    BY <1>6 DEF suscan_remote_analyzer_deliver_call, queues, hist
  <2>4. pdu_queue' \in Seq(W) /\ asked' \in Seq(Wants) /\ call_queue' \in Seq({McCall}) /\ to_peer' \in Seq(A)
    BY <2>1, <2>2, <2>3, <1>0, <1>1
  <2> QED
    BY <2>4 DEF QueueTypes, W, A
<1>7. ASSUME suscan_remote_analyzer_tx_thread PROVE QueueTypes'
  <2>1. /\ pdu_queue' = Tail(pdu_queue) /\ pdu_queue # <<>>
        /\ \/ UNCHANGED to_peer
           \/ Head(pdu_queue) # HALT_PDU /\ to_peer' = Append(to_peer, Head(pdu_queue))
    BY <1>7 DEF suscan_remote_analyzer_tx_thread
  <2>2. UNCHANGED <<call_queue, asked>>
    BY <1>7 DEF suscan_remote_analyzer_tx_thread, hist
  <2>4. pdu_queue' \in Seq(W) /\ asked' \in Seq(Wants) /\ call_queue' \in Seq({McCall}) /\ to_peer' \in Seq(A)
    BY <2>1, <2>2, <1>0, <1>1
  <2> QED
    BY <2>4 DEF QueueTypes, W, A
<1>8. ASSUME ReceiveQueued \/ ReceiveDatagram PROVE QueueTypes'
  <2>1. UNCHANGED <<pdu_queue, to_peer, asked>>
    BY <1>8 DEF ReceiveQueued, ReceiveDatagram, peer, hist
  <2>2. \/ call_queue # <<>> /\ call_queue' = Tail(call_queue)
        \/ call_queue' = Append(call_queue, McCall)
        \/ UNCHANGED call_queue
    BY <1>8 DEF ReceiveQueued, ReceiveDatagram, on_mc_call, McCall
  <2>4. pdu_queue' \in Seq(W) /\ asked' \in Seq(Wants) /\ call_queue' \in Seq({McCall}) /\ to_peer' \in Seq(A)
    BY <2>1, <2>2, <1>0, <1>1
  <2> QED
    BY <2>4 DEF QueueTypes, W, A
<1> QED
  BY <1>2, <1>3, <1>4, <1>5, <1>6, <1>7, <1>8, QueueSteps

LEMMA ThreadTypesStep ==
  ASSUME ThreadTypes, Next
  PROVE  ThreadTypes'
<1> USE DEF ThreadTypes
<1>1. ASSUME NEW u \in Users, UserStep(u) PROVE ThreadTypes'
  BY ZenonT(40), <1>1 DEF UserStep, CallNext, Acquire, Fill, Queue, Release, threads, flags, hist
<1>2. ASSUME ReqHalt \/ Destroy \/ DestroyRelease \/ DestroyReqHalt PROVE ThreadTypes'
  BY ZenonT(40), <1>2 DEF ReqHalt, Destroy, DestroyRelease, DestroyReqHalt, threads, flags, hist
<1>3. ASSUME \/ suscan_analyzer_consume_mq_until_halt \/ suscan_remote_analyzer_dtor \/ JoinRx
             \/ HaltTx \/ Free \/ suscan_analyzer_read
      PROVE  ThreadTypes'
  BY ZenonT(40), <1>3 DEF suscan_analyzer_consume_mq_until_halt, suscan_remote_analyzer_dtor, JoinRx, HaltTx,
              Free, suscan_analyzer_read, threads, flags, hist
<1>4. ASSUME \/ Resolve \/ suscan_remote_analyzer_open_multicast \/ FillAuth \/ ReadHello
             \/ suscan_remote_analyzer_network_connect_cancellable
      PROVE  ThreadTypes'
  BY <1>4 DEF Resolve, suscan_remote_analyzer_open_multicast, FillAuth, ReadHello, Fail, TxTo,
              suscan_remote_analyzer_network_connect_cancellable, threads, flags, hist
<1>5. ASSUME \/ suscan_remote_analyzer_deliver_call \/ ReadAnswer \/ StartRx \/ MarkRx
      PROVE  ThreadTypes'
  BY ZenonT(40), <1>5 DEF suscan_remote_analyzer_deliver_call, ReadAnswer, StartRx, MarkRx, Fail, TxTo, flags,
              hist
<1>8. ASSUME Sending PROVE ThreadTypes'
  BY ZenonT(40), <1>8 DEF Sending, suscan_remote_analyzer_tx_thread, TxDone, TxHalt, TxTo, threads, flags, hist
<1>6. ASSUME Receiving PROVE ThreadTypes'
  BY ZenonT(40), <1>6 DEF Receiving, ReceiveQueued, ReceiveCancelled, ReceiveCall, ReceiveDatagram,
              TakeSourceInfo, suscan_remote_analyzer_rx_thread, RxDone, threads, flags, hist
<1>7. ASSUME Server PROVE ThreadTypes'
  BY <1>7 DEF Server, SayHello, SayAnswer, SayCall, Close, Say, threads, flags, hist
<1> QED
  BY <1>1, <1>2, <1>3, <1>4, <1>5, <1>6, <1>7, <1>8 DEF Next, MainStep, Connecting

LEMMA MessageSteps ==
  ASSUME Next
  PROVE  \/ UNCHANGED <<mq_out, from_peer, said, casts, peer_closed>>
         \/ suscan_analyzer_read \/ suscan_analyzer_consume_mq_until_halt
         \/ Resolve \/ suscan_remote_analyzer_network_connect_cancellable \/ ReadHello
         \/ suscan_remote_analyzer_deliver_call \/ ReadAnswer \/ TxHalt
         \/ ReceiveCall \/ ReceiveDatagram \/ suscan_remote_analyzer_rx_thread
         \/ Server
<1> USE DEF peer
<1>1. ASSUME NEW u \in Users, UserStep(u) PROVE UNCHANGED <<mq_out, peer>>
  BY <1>1 DEF UserStep, CallNext, Acquire, Fill, Queue, Release
<1>2. ASSUME MainStep, ~suscan_analyzer_read, ~suscan_analyzer_consume_mq_until_halt
      PROVE  UNCHANGED <<mq_out, peer>>
  BY <1>2 DEF MainStep, ReqHalt, Destroy, DestroyRelease, DestroyReqHalt,
              suscan_remote_analyzer_dtor, JoinRx, HaltTx, Free
<1>3. ASSUME suscan_remote_analyzer_open_multicast \/ FillAuth \/ StartRx \/ MarkRx
      PROVE  UNCHANGED <<mq_out, peer>>
  BY <1>3 DEF suscan_remote_analyzer_open_multicast, FillAuth, StartRx, MarkRx
<1>4. ASSUME suscan_remote_analyzer_tx_thread \/ TxDone PROVE UNCHANGED <<mq_out, from_peer, said, casts, peer_closed>>
  BY <1>4 DEF suscan_remote_analyzer_tx_thread, TxDone
<1>5. ASSUME ReceiveQueued \/ ReceiveCancelled \/ TakeSourceInfo \/ RxDone
      PROVE  UNCHANGED <<mq_out, peer>>
  BY <1>5 DEF ReceiveQueued, ReceiveCancelled, TakeSourceInfo, RxDone
<1> QED
  BY <1>1, <1>2, <1>3, <1>4, <1>5 DEF Next, Connecting, Sending, Receiving

\* What the program is told.
Told == {"info", "success", "failure", "message", "cast", "eos", HALT}

LEMMA HandledTypes ==
  ASSUME call \in ServerCalls \cup {McCall}, call.type = "MESSAGE"
  PROVE  call.msg \in {"message", "cast"}
  BY DEF ServerCalls, McCall, Info

LEMMA MessageTypesStep ==
  ASSUME TypeOK, CallInv, Next
  PROVE  MessageTypes'
<1> DEFINE F == Hellos \cup Answers \cup ServerCalls
<1>0. /\ mq_out \in Seq(Told) /\ from_peer \in Seq(F)
      /\ said \in Nat /\ casts \in Nat /\ peer_closed \in BOOLEAN
  BY DEF TypeOK, MessageTypes, Told
<1> SUFFICES /\ mq_out' \in Seq(Told)
             /\ from_peer' \in Seq(F)
             /\ said' \in Nat /\ casts' \in Nat /\ peer_closed' \in BOOLEAN
  BY DEF MessageTypes, Told
<1>1. /\ \A m \in Told : Append(mq_out, m) \in Seq(Told)
      /\ mq_out # <<>> => Tail(mq_out) \in Seq(Told)
      /\ mq_out \o <<"info", "success">> \in Seq(Told) /\ <<HALT>> \o mq_out \in Seq(Told)
  <2>1. <<"info", "success">> \in Seq(Told) /\ <<HALT>> \in Seq(Told)
    BY DEF Told
  <2>2. \A a, b \in Seq(Told) : a \o b \in Seq(Told)
    OBVIOUS
  <2> QED
    BY <1>0, <2>1, <2>2, AppendFacts, TailFacts
<1>2. /\ \A p \in F : Append(from_peer, p) \in Seq(F)
      /\ from_peer # <<>> => Tail(from_peer) \in Seq(F)
  BY <1>0, AppendFacts, TailFacts
<1>3. "failure" \in Told /\ "info" \in Told /\ "eos" \in Told /\ "message" \in Told /\ "cast" \in Told
  BY DEF Told
<1>4. Hellos \subseteq F /\ Answers \subseteq F /\ ServerCalls \subseteq F
  OBVIOUS
<1> HIDE DEF F
<1>5. ASSUME UNCHANGED <<from_peer, said, casts, peer_closed>>,
             \/ UNCHANGED mq_out
             \/ mq_out # <<>> /\ mq_out' = Tail(mq_out)
             \/ \E m \in Told : mq_out' = Append(mq_out, m)
             \/ mq_out' = <<HALT>> \o mq_out
      PROVE  mq_out' \in Seq(Told) /\ from_peer' \in Seq(F) /\ said' \in Nat /\ casts' \in Nat /\ peer_closed' \in BOOLEAN
  BY <1>0, <1>1, <1>5
<1>6. ASSUME \/ suscan_analyzer_read \/ suscan_analyzer_consume_mq_until_halt
             \/ Resolve \/ suscan_remote_analyzer_network_connect_cancellable 
             \/ suscan_remote_analyzer_deliver_call \/ TxHalt
      PROVE  /\ UNCHANGED <<from_peer, said, casts, peer_closed>>
             /\ \/ UNCHANGED mq_out
                \/ mq_out # <<>> /\ mq_out' = Tail(mq_out)
                \/ \E m \in Told : mq_out' = Append(mq_out, m)
                \/ mq_out' = <<HALT>> \o mq_out
  <2> USE DEF peer
  <2>1. CASE suscan_analyzer_read \/ suscan_analyzer_consume_mq_until_halt
    BY <2>1 DEF suscan_analyzer_read, suscan_analyzer_consume_mq_until_halt
  <2>2. CASE \/ Resolve \/ suscan_remote_analyzer_network_connect_cancellable
             \/ suscan_remote_analyzer_deliver_call
    BY <2>2, <1>3 DEF Resolve, suscan_remote_analyzer_network_connect_cancellable, Fail, Tell,
                      suscan_remote_analyzer_deliver_call
  <2>3. CASE TxHalt
    BY <2>3 DEF TxHalt
  <2> QED
    BY <1>6, <2>1, <2>2, <2>3
<1>7. ASSUME suscan_remote_analyzer_rx_thread
      PROVE  /\ UNCHANGED <<from_peer, said, casts, peer_closed>>
             /\ \/ UNCHANGED mq_out
                \/ \E m \in Told : mq_out' = Append(mq_out, m)
  <2>1. rx = "handle" /\ call.type = "MESSAGE" => call.msg \in Told
    BY <1>3, HandledTypes DEF CallInv
  <2> QED
    BY <1>7, <2>1, <1>3 DEF suscan_remote_analyzer_rx_thread, Tell, peer
<1>8. ASSUME ReadHello \/ ReadAnswer
      PROVE  mq_out' \in Seq(Told) /\ from_peer' \in Seq(F) /\ said' \in Nat /\ casts' \in Nat /\ peer_closed' \in BOOLEAN
  <2>1. /\ UNCHANGED <<said, casts, peer_closed>>
        /\ \/ UNCHANGED from_peer
           \/ from_peer # <<>> /\ from_peer' = Tail(from_peer)
    BY <1>8 DEF ReadHello, ReadAnswer
  <2>2. UNCHANGED mq_out \/ mq_out' = Append(mq_out, "failure") \/ mq_out' = mq_out \o <<"info", "success">>
    BY <1>8 DEF ReadHello, ReadAnswer, Fail, Tell
  <2> QED
    BY <2>1, <2>2, <1>0, <1>1, <1>2, <1>3
<1>9. ASSUME ReceiveCall \/ ReceiveDatagram \/ Server
      PROVE  mq_out' \in Seq(Told) /\ from_peer' \in Seq(F) /\ said' \in Nat /\ casts' \in Nat /\ peer_closed' \in BOOLEAN
  <2>1. UNCHANGED mq_out
    BY <1>9 DEF ReceiveCall, ReceiveDatagram, Server, SayHello, SayAnswer, SayCall, Close, Say
  <2>2. \/ UNCHANGED from_peer
        \/ from_peer # <<>> /\ from_peer' = Tail(from_peer)
        \/ \E p \in F : from_peer' = Append(from_peer, p)
    <3>1. CASE ReceiveCall
      BY <3>1 DEF ReceiveCall
    <3>2. CASE ReceiveDatagram \/ Close
      BY <3>2 DEF ReceiveDatagram, Close, peer
    <3>3. CASE SayHello \/ SayAnswer \/ SayCall
      BY <3>3, <1>4 DEF SayHello, SayAnswer, SayCall, Say, ServerCalls
    <3> QED
      BY <1>9, <3>1, <3>2, <3>3 DEF Server
  <2>3. said' \in Nat /\ casts' \in Nat /\ peer_closed' \in BOOLEAN
    <3>1. CASE ReceiveCall \/ ReceiveDatagram
      BY <3>1, <1>0 DEF ReceiveCall, ReceiveDatagram
    <3>2. CASE Server
      <4>1. CASE Close
        BY <4>1, <1>0 DEF Close
      <4>2. CASE SayHello \/ SayAnswer \/ SayCall
        <5>1. said' \in {1, 2, said + 1}
          BY <4>2 DEF SayHello, SayAnswer, SayCall
        <5>2. UNCHANGED <<casts, peer_closed>>
          BY <4>2 DEF SayHello, SayAnswer, SayCall, Say
        <5> QED
          BY <5>1, <5>2, <1>0
      <4> QED
        BY <3>2, <4>1, <4>2 DEF Server
    <3> QED
      BY <1>9, <3>1, <3>2
  <2> QED
    BY <2>1, <2>2, <2>3, <1>0, <1>2
<1> QED
  BY <1>5, <1>6, <1>7, <1>8, <1>9, MessageSteps

LEMMA CallSteps ==
  ASSUME Next
  PROVE  \/ UNCHANGED <<user, call, tx, rx>>
         \/ \E u \in Users : UserStep(u)
         \/ ReqHalt \/ Destroy \/ DestroyRelease \/ DestroyReqHalt
         \/ suscan_analyzer_consume_mq_until_halt \/ suscan_remote_analyzer_dtor \/ JoinRx \/ HaltTx
         \/ Free
         \/ Connecting \/ Sending \/ Receiving
  BY DEF Next, MainStep, Server, suscan_analyzer_read, SayHello, SayAnswer, SayCall, Close, Say, users, threads, Info

LEMMA CallInvStep ==
  ASSUME TypeOK, OwnerInv, CallInv, ServerInv, Next
  PROVE  CallInv'
<1>0. /\ Main \in Users /\ None \notin Users
      /\ "tx" \notin Users /\ "rx" \notin Users /\ "tx" # None /\ "rx" # None
      /\ user \in [Users -> [at : CallPlaces \cup DestroyPlaces, want : Wants \cup {NoCall}]]
      /\ \A u \in Users : u # "tx" /\ u # "rx" /\ u # None
  BY RemoteAssumption DEF TypeOK, UserTypes
<1>w. suscan_remote_analyzer_force_eos \in Wants /\ suscan_remote_analyzer_req_halt \in Wants
  BY DEF Wants
<1>a. \A u \in Users : user[u].at \in {"queue", "d_queue"} => user[u].at \in InCall
  BY DEF InCall
<1> DEFINE Free0 == /\ \A u \in Users : user[u].at \notin InCall
                    /\ tx # "deliver" /\ rx # "handle"
           Alone(u) == /\ \A v \in Users \ {u} : user[v].at \notin InCall
                       /\ tx # "deliver" /\ rx # "handle"
<1>b. /\ call_mutex = None => Free0
      /\ \A u \in Users : call_mutex = u => Alone(u)
      /\ call_mutex = "tx" => \A u \in Users : user[u].at \notin InCall
      /\ call_mutex = "tx" => rx # "handle"
      /\ call_mutex = "rx" => \A u \in Users : user[u].at \notin InCall
      /\ call_mutex = "rx" => tx # "deliver"
  BY <1>0 DEF OwnerInv
<1> USE <1>0 DEF CallInv
<1>1. ASSUME NEW u \in Users, CallNext(u) PROVE CallInv'
  <2> DEFINE c == Head(program[u])
  <2>1. c.call \in Wants
    BY <1>1, HeadFacts DEF TypeOK, UserTypes, CallNext
  <2>2. UNCHANGED user \/ user' = [user EXCEPT ![u] = [at |-> "lock", want |-> c.call]]
    BY <1>1 DEF CallNext
  <2>3. UNCHANGED <<tx, rx, call>>
    BY <1>1 DEF CallNext, threads
  <2> HIDE DEF c
  <2>4. /\ \A v \in Users : user'[v].at \in InCall \cup {"lock"} => user'[v].want \in Wants
        /\ \A v \in Users : user'[v].at \in InCall => user'[v] = user[v]
    BY <2>1, <2>2 DEF InCall
  <2>5. \A v \in Users : user'[v].at \in {"queue", "d_queue"} => user'[v] = user[v]
    BY <2>4 DEF InCall
  <2> QED
    BY <2>3, <2>4, <2>5
<1>c. ASSUME NEW u \in Users, Acquire(u) PROVE CallInv'
  <2>1. Free0 /\ user' = [user EXCEPT ![u] = [at |-> "fill", want |-> user[u].want]]
    BY <1>c, <1>b DEF Acquire, Calling, suscan_remote_analyzer_acquire_call
  <2>2. UNCHANGED <<tx, rx>> /\ user[u].want \in Wants
    BY <1>c DEF Acquire, threads
  <2> QED
    BY <2>1, <2>2, <1>a DEF InCall
<1>2. ASSUME NEW u \in Users, Fill(u) PROVE CallInv'
  <2>1. Alone(u)
    BY <1>2, <1>b DEF OwnerInv, Fill, InCall
  <2>2. /\ UNCHANGED <<tx, rx>> /\ call' = user[u].want /\ user[u].at \in InCall
        /\ \E at \in {"queue", "d_queue"} : user' = [user EXCEPT ![u].at = at]
    BY <1>2 DEF Fill, At, threads, InCall
  <2>3. user'[u].want = user[u].want /\ \A v \in Users \ {u} : user'[v] = user[v]
    BY <2>2
  <2> QED
    BY <2>1, <2>2, <2>3, <1>a
<1>3. ASSUME NEW u \in Users, Queue(u) PROVE CallInv'
  <2>1. /\ UNCHANGED <<call, tx, rx>> /\ user[u].at \in InCall
        /\ \E at \in {"release", "d_release"} : user' = [user EXCEPT ![u].at = at]
    BY <1>3 DEF Queue, At, threads, InCall
  <2> QED
    BY <2>1
<1>4. ASSUME NEW u \in Users, Release(u) PROVE CallInv'
  <2>1. Alone(u)
    BY <1>4, <1>b DEF OwnerInv, Release, InCall
  <2> QED
    BY ZenonT(40), <1>4, <2>1, <1>a DEF Release, threads, At, InCall
<1>5. ASSUME ReqHalt \/ Destroy \/ DestroyReqHalt PROVE CallInv'
  <2>1. /\ Free0 /\ UNCHANGED <<tx, rx>>
        /\ \E at \in {"fill", "d_fill"}, w \in Wants : user' = [user EXCEPT ![Main] = [at |-> at, want |-> w]]
    BY <1>5, <1>b, <1>w DEF ReqHalt, Destroy, DestroyReqHalt, threads, Calling,
              suscan_remote_analyzer_acquire_call
  <2>2. /\ user'[Main].at \in {"fill", "d_fill"} /\ user'[Main].want \in Wants
        /\ \A v \in Users \ {Main} : user'[v] = user[v]
    BY <2>1
  <2> QED
    BY <2>1, <2>2, <1>a DEF InCall
<1>6. ASSUME DestroyRelease PROVE CallInv'
  <2>1. Alone(Main)
    BY <1>6, <1>b DEF OwnerInv, DestroyRelease, InCall
  <2>2. UNCHANGED <<tx, rx>> /\ \E at \in {"d_wait", "d_halt", "dtor"} : user' = [user EXCEPT ![Main].at = at]
    BY <1>6 DEF DestroyRelease, At, threads
  <2> QED
    BY ZenonT(40), <2>1, <2>2, <1>a DEF InCall
<1>7. ASSUME \/ suscan_analyzer_consume_mq_until_halt \/ suscan_remote_analyzer_dtor \/ JoinRx
             \/ HaltTx \/ Free
      PROVE CallInv'
  <2>1. /\ UNCHANGED <<call, tx, rx>>
        /\ \/ UNCHANGED user
           \/ \E at \in {"dtor", "join_rx", "halt_tx", "join_tx", "gone"} : user' = [user EXCEPT ![Main].at = at]
    BY <1>7 DEF suscan_analyzer_consume_mq_until_halt, suscan_remote_analyzer_dtor, JoinRx, HaltTx,
              Free, At, threads
  <2> QED
    BY ZenonT(40), <2>1 DEF InCall
<1>8. ASSUME FillAuth PROVE CallInv'
  <2>1. Free0 /\ UNCHANGED <<user, rx>> /\ call' \in {AUTH_INFO(TRUE), AUTH_INFO(FALSE)}
    BY <1>8, <1>b DEF FillAuth, users
  <2> QED
    BY <2>1, <1>a
<1>9. ASSUME suscan_remote_analyzer_deliver_call PROVE CallInv'
  <2>1. UNCHANGED <<user, rx>> /\ tx' # "deliver" /\ call_mutex = "tx"
    BY <1>9 DEF suscan_remote_analyzer_deliver_call, OwnerInv, Fail, TxTo, users
  <2> QED
    BY <2>1, <1>a, <1>b
<1>10. ASSUME Connecting, ~FillAuth, ~suscan_remote_analyzer_deliver_call PROVE CallInv'
  <2>1. UNCHANGED <<user, call>> /\ tx' # "deliver" /\ (rx' = "handle" => rx = "handle")
    BY <1>10 DEF Connecting, Resolve, suscan_remote_analyzer_open_multicast, Fail, TxTo,
     suscan_remote_analyzer_network_connect_cancellable, ReadHello, ReadAnswer, StartRx, MarkRx,
     users
  <2> QED
    BY <2>1
<1>11. ASSUME Sending PROVE CallInv'
  <2>1. UNCHANGED <<user, call, rx>> /\ (tx' = "deliver" => tx = "deliver")
    BY <1>11 DEF Sending, suscan_remote_analyzer_tx_thread, TxDone, TxHalt, TxTo, users
  <2> QED
    BY <2>1
<1>12. ASSUME ReceiveQueued \/ ReceiveCall PROVE CallInv'
  <2>1. /\ UNCHANGED <<user, tx>>
        /\ \/ UNCHANGED call /\ rx' # "handle"
           \/ Free0 /\ call' \in ServerCalls \cup {McCall}
    <3>1. call_queue # <<>> => Head(call_queue) \in {McCall}
      BY HeadFacts DEF TypeOK, QueueTypes
    <3>2. rx # "none" /\ from_peer # <<>> => Head(from_peer) \in ServerCalls
      BY HeadFacts DEF ServerInv
    <3> QED
      BY <1>12, <1>b, <3>1, <3>2 DEF ReceiveQueued, ReceiveCall, users
  <2> QED
    BY <2>1, <1>a
<1>13. ASSUME suscan_remote_analyzer_rx_thread PROVE CallInv'
  <2>1. UNCHANGED <<user, tx>> /\ rx' # "handle" /\ call_mutex = "rx"
    BY <1>13 DEF suscan_remote_analyzer_rx_thread, OwnerInv, users
  <2> QED
    BY <2>1, <1>a, <1>b
<1>14. ASSUME ReceiveCancelled \/ ReceiveDatagram \/ TakeSourceInfo \/ RxDone PROVE CallInv'
  <2>1. UNCHANGED <<user, call, tx>> /\ rx' # "handle"
    BY <1>14 DEF ReceiveCancelled, ReceiveDatagram, TakeSourceInfo, RxDone, users
  <2> QED
    BY <2>1
<1>15. ASSUME UNCHANGED <<user, call, tx, rx>> PROVE CallInv'
  BY <1>15
<1> QED
  BY <1>1, <1>c, <1>2, <1>3, <1>4, <1>5, <1>6, <1>7, <1>8, <1>9, <1>10, <1>11, <1>12, <1>13, <1>14,
     <1>15, CallSteps DEF UserStep, Receiving

LEMMA TxSteps ==
  ASSUME Next
  PROVE  UNCHANGED <<tx, rx, rx_thread_init>> \/ Connecting \/ Sending \/ Receiving
<1> USE DEF threads
<1>1. ASSUME NEW u \in Users, UserStep(u) PROVE UNCHANGED <<tx, rx, rx_thread_init>>
  BY <1>1 DEF UserStep, CallNext, Acquire, Fill, Queue, Release
<1>2. ASSUME MainStep PROVE UNCHANGED <<tx, rx, rx_thread_init>>
  BY <1>2 DEF MainStep, ReqHalt, suscan_analyzer_read, Destroy, DestroyRelease, DestroyReqHalt,
              suscan_analyzer_consume_mq_until_halt, suscan_remote_analyzer_dtor, JoinRx, HaltTx,
              Free
<1>3. ASSUME Server PROVE UNCHANGED <<tx, rx, rx_thread_init>>
  BY <1>3 DEF Server, SayHello, SayAnswer, SayCall, Close, Say
<1> QED
  BY <1>1, <1>2, <1>3 DEF Next

\* A connection only goes forward.
LEMMA TxForward ==
  ASSUME Next
  PROVE  /\ tx' \in Unsent => tx \in Unsent
         /\ tx' \in Sends => tx \in Sends \/ suscan_remote_analyzer_deliver_call
         /\ tx \in {"halt", "ended"} => tx' \in {"halt", "ended"}
         /\ tx = "ended" => tx' = "ended"
<1> USE DEF Unsent, Sends
<1>1. ASSUME UNCHANGED tx
      PROVE  /\ tx' \in Unsent => tx \in Unsent
             /\ tx' \in Sends => tx \in Sends \/ suscan_remote_analyzer_deliver_call
             /\ tx \in {"halt", "ended"} => tx' \in {"halt", "ended"}
             /\ tx = "ended" => tx' = "ended"
  BY <1>1
<1>2. ASSUME Connecting
      PROVE  /\ tx' \in Unsent => tx \in Unsent
             /\ tx' \in Sends => tx \in Sends \/ suscan_remote_analyzer_deliver_call
             /\ tx \in {"halt", "ended"} => tx' \in {"halt", "ended"}
             /\ tx = "ended" => tx' = "ended"
  BY <1>2 DEF Connecting, Resolve, suscan_remote_analyzer_open_multicast, Fail, TxTo,
     suscan_remote_analyzer_network_connect_cancellable, ReadHello, FillAuth,
     suscan_remote_analyzer_deliver_call, ReadAnswer, StartRx, MarkRx
<1>3. ASSUME Sending
      PROVE  /\ tx' \in Unsent => tx \in Unsent
             /\ tx' \in Sends => tx \in Sends \/ suscan_remote_analyzer_deliver_call
             /\ tx \in {"halt", "ended"} => tx' \in {"halt", "ended"}
             /\ tx = "ended" => tx' = "ended"
  BY <1>3 DEF Sending, suscan_remote_analyzer_tx_thread, TxDone, TxHalt, TxTo
<1>4. ASSUME Receiving PROVE UNCHANGED tx
  BY <1>4 DEF Receiving, ReceiveQueued, ReceiveCancelled, ReceiveCall, ReceiveDatagram,
     TakeSourceInfo, suscan_remote_analyzer_rx_thread, RxDone
<1> QED
  BY <1>1, <1>2, <1>3, <1>4, TxSteps

LEMMA SentInvStep ==
  ASSUME TypeOK, CallInv, SentInv, QueueInv, Next
  PROVE  SentInv'
<1> DEFINE A == Wants \cup {AUTH_INFO(TRUE), AUTH_INFO(FALSE)}
           W == Wants \cup {HALT_PDU}
<1>0. to_peer \in Seq(A) /\ asked \in Seq(Wants) /\ pdu_queue \in Seq(W)
  BY DEF TypeOK, QueueTypes
<1>a. \A e \in W : e # HALT_PDU => e \in A
  OBVIOUS
<1> HIDE DEF A, W
<1>1. ASSUME UNCHANGED <<to_peer, asked>>, ~suscan_remote_analyzer_deliver_call PROVE SentInv'
  BY <1>1, TxForward DEF SentInv
<1>2. ASSUME NEW u \in Users, Queue(u) PROVE SentInv'
  <2>1. /\ UNCHANGED to_peer /\ asked' = Append(asked, user[u].want) /\ user[u].want \in Wants
        /\ ~suscan_remote_analyzer_deliver_call
    BY <1>2 DEF Queue, suscan_remote_analyzer_queue_call, peer, CallInv, InCall,
                suscan_remote_analyzer_deliver_call, hist, threads, TxTo, Fail
  <2>2. Len(asked') = Len(asked) + 1 /\ \A i \in 1 .. Len(asked) : asked'[i] = asked[i]
    BY <2>1, <1>0, AppendFacts
  <2> QED
    BY <2>1, <2>2, <1>0, TxForward DEF SentInv
<1>3. ASSUME suscan_remote_analyzer_deliver_call PROVE SentInv'
  <2>1. /\ to_peer = <<>> /\ UNCHANGED asked /\ call.type = "AUTH_INFO" /\ call \in A
    BY <1>3 DEF suscan_remote_analyzer_deliver_call, SentInv, Unsent, CallInv, AUTH_INFO, hist, A
  <2>2. \/ to_peer' = Append(to_peer, call) /\ tx' = "answer"
        \/ UNCHANGED to_peer /\ tx' = "done"
    BY <1>3 DEF suscan_remote_analyzer_deliver_call, Fail, TxTo
  <2>3. Append(to_peer, call) = <<call>> /\ Len(<<call>>) = 1 /\ <<call>>[1] = call /\ <<call>> # <<>>
    BY <2>1
  <2>4. CASE to_peer' = <<call>> /\ tx' = "answer"
    <3>1. \A k \in 2 .. Len(to_peer') : FALSE
      BY <2>4, <2>3
    <3>2. to_peer' # <<>> /\ to_peer'[1] = call
      BY <2>4, <2>3
    <3> QED
      BY <2>1, <2>4, <3>1, <3>2 DEF SentInv, Unsent
  <2>5. CASE to_peer' = <<>> /\ tx' = "done"
    BY <2>5 DEF SentInv, Sends
  <2> QED
    BY <2>1, <2>2, <2>3, <2>4, <2>5
<1>4. ASSUME suscan_remote_analyzer_tx_thread PROVE SentInv'
  <2>1. /\ tx = "read" /\ pdu_queue # <<>> /\ UNCHANGED asked
        /\ \/ UNCHANGED to_peer
           \/ /\ Head(pdu_queue) # HALT_PDU
              /\ to_peer' = Append(to_peer, Head(pdu_queue)) /\ tx' = tx
    BY <1>4 DEF suscan_remote_analyzer_tx_thread, hist
  <2>2. ~suscan_remote_analyzer_deliver_call
    BY <2>1 DEF suscan_remote_analyzer_deliver_call
  <2>3. CASE UNCHANGED to_peer
    BY <2>1, <2>2, <2>3, <1>1
  <2>4. CASE /\ Head(pdu_queue) # HALT_PDU
             /\ to_peer' = Append(to_peer, Head(pdu_queue)) /\ tx' = tx
    <3>1. Head(pdu_queue) = pdu_queue[1] /\ Head(pdu_queue) \in A /\ 1 \in 1 .. Len(pdu_queue)
      BY <2>1, <2>4, <1>0, <1>a, HeadFacts, TailFacts
    <3>2. to_peer # <<>> /\ Sent = Len(to_peer) - 1 /\ NoHalt(1)
      BY <2>1, <2>4, <3>1 DEF SentInv, Sends, Sent, NoHalt
    <3>3. Sent + 1 \in 1 .. Len(asked) /\ pdu_queue[1] = asked[Sent + 1]
      BY <2>1, <3>1, <3>2 DEF QueueInv, Sends
    <3>4. /\ Len(to_peer') = Len(to_peer) + 1 /\ to_peer'[Len(to_peer) + 1] = pdu_queue[1]
          /\ \A i \in 1 .. Len(to_peer) : to_peer'[i] = to_peer[i]
          /\ Len(to_peer) \in Nat /\ Len(to_peer) > 0 /\ to_peer' # <<>>
      BY <2>4, <3>1, <3>2, <1>0, AppendFacts
    <3>5. \A k \in 2 .. Len(to_peer') :
            k - 1 \in 1 .. Len(asked') /\ to_peer'[k] = asked'[k - 1]
      <4>1. TAKE k \in 2 .. Len(to_peer')
      <4>2. CASE k = Len(to_peer) + 1
        BY <4>2, <3>2, <3>3, <3>4, <2>1
      <4>3. CASE k \in 2 .. Len(to_peer)
        BY <4>3, <3>4, <2>1 DEF SentInv
      <4> QED
        BY <4>2, <4>3, <3>4
    <3>6. to_peer'[1].type = "AUTH_INFO"
      BY <3>2, <3>4 DEF SentInv
    <3> QED
      BY <3>4, <3>5, <3>6, <2>1, <2>4 DEF SentInv, Unsent
  <2> QED
    BY <2>1, <2>3, <2>4
<1>5. ASSUME \/ HaltTx \/ Free \/ ReceiveQueued \/ ReceiveDatagram \/ RxDone
      PROVE  UNCHANGED <<to_peer, asked>> 
  BY <1>5 DEF HaltTx, Free, ReceiveQueued, ReceiveDatagram, RxDone, peer, hist
<1> QED
  BY <1>1, <1>2, <1>3, <1>4, <1>5, QueueSteps DEF queues

LEMMA QueueInvStep ==
  ASSUME TypeOK, CallInv, SentInv, QueueInv, Next
  PROVE  QueueInv'
<1> DEFINE A == Wants \cup {AUTH_INFO(TRUE), AUTH_INFO(FALSE)}
           W == Wants \cup {HALT_PDU}
           S == Unsent \cup Sends
<1>0. to_peer \in Seq(A) /\ asked \in Seq(Wants) /\ pdu_queue \in Seq(W) /\ HALT_PDU \in W
  BY DEF TypeOK, QueueTypes
<1>a. /\ Len(to_peer) \in Nat /\ Len(asked) \in Nat /\ Len(pdu_queue) \in Nat
      /\ to_peer # <<>> => Len(to_peer) > 0
  BY <1>0
<1>b. Sent \in Nat
  BY <1>a DEF Sent
<1>c. \A e \in W : e # HALT_PDU => e \in A
  OBVIOUS
<1> HIDE DEF A, W
<1>1. ASSUME UNCHANGED <<to_peer, asked, pdu_queue>>, ~suscan_remote_analyzer_deliver_call
      PROVE  QueueInv'
  BY <1>1, TxForward DEF QueueInv, Sent, NoHalt
<1>2. ASSUME NEW u \in Users, Queue(u) PROVE QueueInv'
  <2>1. /\ UNCHANGED <<to_peer, tx>>
        /\ asked' = Append(asked, call) /\ pdu_queue' = Append(pdu_queue, call)
        /\ call \in Wants
    BY <1>2 DEF Queue, suscan_remote_analyzer_queue_call, peer, CallInv, InCall, threads
  <2>2. /\ Len(asked') = Len(asked) + 1 /\ \A i \in 1 .. Len(asked) : asked'[i] = asked[i]
        /\ asked'[Len(asked) + 1] = call
        /\ Len(pdu_queue') = Len(pdu_queue) + 1
        /\ \A i \in 1 .. Len(pdu_queue) : pdu_queue'[i] = pdu_queue[i]
        /\ pdu_queue'[Len(pdu_queue) + 1] = call
    BY <2>1, <1>0, AppendFacts DEF W
  <2>3. Sent' = Sent /\ \A j \in 1 .. Len(pdu_queue') : NoHalt(j)' =>
                          \A i \in 1 .. j : pdu_queue'[i] # HALT_PDU
    BY <2>1 DEF Sent, NoHalt
  <2>4. ASSUME tx \in S, NEW j \in 1 .. Len(pdu_queue'), NoHalt(j)'
        PROVE  Sent + j \in 1 .. Len(asked') /\ pdu_queue'[j] = asked'[Sent + j]
    <3>1. CASE j = Len(pdu_queue) + 1
      <4>1. NoHalt(Len(pdu_queue))
        BY <2>2, <2>3, <2>4, <3>1, <1>a DEF NoHalt
      <4> QED
        BY <4>1, <2>2, <2>4, <3>1, <1>a, <1>b DEF QueueInv
    <3>2. CASE j \in 1 .. Len(pdu_queue)
      <4>1. NoHalt(j)
        BY <2>2, <2>3, <2>4, <3>2, <1>a DEF NoHalt
      <4> QED
        BY <4>1, <2>2, <2>4, <3>2, <1>a, <1>b DEF QueueInv
    <3> QED
      BY <2>2, <3>1, <3>2, <1>a
  <2>5. ASSUME tx \in S, NoHalt(Len(pdu_queue))'
        PROVE  Len(asked') = Sent + Len(pdu_queue')
    <3>1. NoHalt(Len(pdu_queue))
      BY <2>2, <2>3, <2>5, <1>a DEF NoHalt
    <3>2. Len(asked) = Sent + Len(pdu_queue)
      BY <3>1, <2>5 DEF QueueInv
    <3> QED
      BY <3>2, <2>2, <1>a, <1>b
  <2> QED
    BY <2>1, <2>3, <2>4, <2>5 DEF QueueInv, NoHalt
<1>3. ASSUME HaltTx \/ RxDone PROVE QueueInv'
  <2>1. UNCHANGED <<to_peer, asked, tx>> /\ pdu_queue' = Append(pdu_queue, HALT_PDU)
    BY <1>3 DEF HaltTx, RxDone, peer, hist, threads
  <2>2. /\ Len(pdu_queue') = Len(pdu_queue) + 1
        /\ \A i \in 1 .. Len(pdu_queue) : pdu_queue'[i] = pdu_queue[i]
        /\ pdu_queue'[Len(pdu_queue) + 1] = HALT_PDU
    BY <2>1, <1>0, AppendFacts
  <2>3. ~NoHalt(Len(pdu_queue))'
    BY <2>2, <1>a DEF NoHalt
  <2>4. ASSUME tx \in S, NEW j \in 1 .. Len(pdu_queue'), NoHalt(j)'
        PROVE  Sent + j \in 1 .. Len(asked') /\ pdu_queue'[j] = asked'[Sent + j]
    <3>1. j \in 1 .. Len(pdu_queue) /\ NoHalt(j)
      BY <2>2, <2>4, <1>a DEF NoHalt
    <3> QED
      BY <3>1, <2>1, <2>2, <2>4 DEF QueueInv
  <2>5. Sent' = Sent
    BY <2>1 DEF Sent
  <2> QED
    BY <2>1, <2>3, <2>4, <2>5 DEF QueueInv, NoHalt
<1>4. ASSUME Free PROVE QueueInv'
  BY <1>4 DEF Free, threads, QueueInv, Unsent, Sends
<1>5. ASSUME suscan_remote_analyzer_deliver_call PROVE QueueInv'
  <2>1. /\ to_peer = <<>> /\ UNCHANGED <<asked, pdu_queue>> /\ call \in A /\ tx \in S
    BY <1>5 DEF suscan_remote_analyzer_deliver_call, SentInv, Unsent, CallInv, hist, queues, A
  <2>2. \/ to_peer' = Append(to_peer, call)
        \/ UNCHANGED to_peer
    BY <1>5 DEF suscan_remote_analyzer_deliver_call, Fail, TxTo
  <2>3. Append(to_peer, call) = <<call>> /\ Len(<<call>>) = 1
    BY <2>1
  <2>4. Sent' = Sent
    BY <2>1, <2>2, <2>3 DEF Sent
  <2> QED
    BY <2>1, <2>4 DEF QueueInv, NoHalt
<1>6. ASSUME suscan_remote_analyzer_tx_thread PROVE QueueInv'
  <2>1. /\ tx = "read" /\ pdu_queue # <<>> /\ UNCHANGED asked
        /\ pdu_queue' = Tail(pdu_queue)
        /\ \/ tx' = "done"
           \/ /\ Head(pdu_queue) # HALT_PDU
              /\ to_peer' = Append(to_peer, Head(pdu_queue)) /\ tx' = tx
    BY <1>6 DEF suscan_remote_analyzer_tx_thread, hist, TxTo
  <2>3. CASE tx' = "done"
    BY <2>3 DEF QueueInv, Unsent, Sends
  <2>4. CASE /\ Head(pdu_queue) # HALT_PDU
             /\ to_peer' = Append(to_peer, Head(pdu_queue)) /\ tx' = tx
    <3>1. /\ Head(pdu_queue) = pdu_queue[1] /\ Head(pdu_queue) \in A
          /\ Len(pdu_queue') = Len(pdu_queue) - 1 /\ Len(pdu_queue) > 0
          /\ \A j \in 1 .. Len(pdu_queue') : pdu_queue'[j] = pdu_queue[j + 1]
      BY <2>1, <2>4, <1>0, <1>c, HeadFacts, TailFacts
    <3>2. Sent' = Sent + 1
      <4>1. to_peer # <<>>
        BY <2>1 DEF SentInv, Sends
      <4>2. Len(to_peer') = Len(to_peer) + 1 /\ to_peer' # <<>>
        BY <2>4, <3>1, <1>0, AppendFacts
      <4> QED
        BY <4>1, <4>2, <1>a DEF Sent
    <3>3. \A j \in 0 .. Len(pdu_queue') : NoHalt(j)' => NoHalt(j + 1)
      <4>1. SUFFICES ASSUME NEW j \in 0 .. Len(pdu_queue'), NoHalt(j)', NEW i \in 1 .. (j + 1)
                     PROVE  pdu_queue[i] # HALT_PDU
        BY DEF NoHalt
      <4>2. CASE i = 1
        BY <4>2, <2>4, <3>1
      <4>3. CASE i # 1
        <5>1. i - 1 \in 1 .. j /\ i - 1 \in 1 .. Len(pdu_queue')
          BY <4>3, <3>1, <1>a
        <5>2. pdu_queue'[i - 1] # HALT_PDU /\ pdu_queue'[i - 1] = pdu_queue[i - 1 + 1]
          BY <5>1, <4>1, <3>1 DEF NoHalt
        <5> QED
          BY <5>2
      <4> QED
        BY <4>2, <4>3
    <3>4. ASSUME NEW j \in 1 .. Len(pdu_queue'), NoHalt(j)'
          PROVE  Sent' + j \in 1 .. Len(asked') /\ pdu_queue'[j] = asked'[Sent' + j]
      <4>1. NoHalt(j + 1) /\ j + 1 \in 1 .. Len(pdu_queue)
        BY <3>1, <3>3, <3>4, <1>a
      <4>2. Sent + (j + 1) \in 1 .. Len(asked) /\ pdu_queue[j + 1] = asked[Sent + (j + 1)]
        BY <4>1, <2>1 DEF QueueInv, Sends
      <4> QED
        BY <4>2, <3>1, <3>2, <2>1, <1>b
    <3>5. ASSUME NoHalt(Len(pdu_queue))' PROVE Len(asked') = Sent' + Len(pdu_queue')
      <4>1. NoHalt(Len(pdu_queue))
        BY <3>1, <3>3, <3>5, <1>a
      <4>2. Len(asked) = Sent + Len(pdu_queue)
        BY <4>1, <2>1 DEF QueueInv, Sends
      <4> QED
        BY <4>2, <3>1, <3>2, <2>1, <1>a, <1>b
    <3> QED
      BY <3>4, <3>5 DEF QueueInv, NoHalt
  <2> QED
    BY <2>1, <2>3, <2>4
<1>7. ASSUME ReceiveQueued \/ ReceiveDatagram
      PROVE  UNCHANGED <<to_peer, asked, pdu_queue>> /\ ~suscan_remote_analyzer_deliver_call
  BY <1>7 DEF ReceiveQueued, ReceiveDatagram, peer, hist, suscan_remote_analyzer_deliver_call, Fail,
              TxTo
<1> QED
  BY <1>1, <1>2, <1>3, <1>4, <1>5, <1>6, <1>7, QueueSteps DEF queues

LEMMA RxInvStep ==
  ASSUME RxInv, Next
  PROVE  RxInv'
<1> USE DEF RxInv, Unsent
<1>1. ASSUME UNCHANGED <<tx, rx, rx_thread_init>> PROVE RxInv'
  BY <1>1
<1>2. ASSUME Connecting PROVE RxInv'
  BY <1>2 DEF Connecting, Resolve, suscan_remote_analyzer_open_multicast, Fail, TxTo,
     suscan_remote_analyzer_network_connect_cancellable, ReadHello, FillAuth,
     suscan_remote_analyzer_deliver_call, ReadAnswer, StartRx, MarkRx, threads
<1>3. ASSUME Sending PROVE RxInv'
  BY <1>3 DEF Sending, suscan_remote_analyzer_tx_thread, TxDone, TxHalt, TxTo
<1>4. ASSUME Receiving PROVE RxInv'
  <2>1. UNCHANGED <<tx, rx_thread_init>> /\ rx # "none" /\ rx' # "none"
    BY <1>4 DEF Receiving, ReceiveQueued, ReceiveCancelled, ReceiveCall, ReceiveDatagram,
       TakeSourceInfo, suscan_remote_analyzer_rx_thread, RxDone, threads
  <2> QED
    BY <2>1
<1> QED
  BY <1>1, <1>2, <1>3, <1>4, TxSteps

LEMMA ServerSteps ==
  ASSUME Next
  PROVE  \/ UNCHANGED <<tx, rx, from_peer, said>>
         \/ Connecting \/ Sending \/ Receiving \/ SayHello \/ SayAnswer \/ SayCall
<1> USE DEF threads, peer
<1>1. ASSUME NEW u \in Users, UserStep(u) PROVE UNCHANGED <<tx, rx, from_peer, said>>
  BY <1>1 DEF UserStep, CallNext, Acquire, Fill, Queue, Release
<1>2. ASSUME MainStep PROVE UNCHANGED <<tx, rx, from_peer, said>>
  BY <1>2 DEF MainStep, ReqHalt, suscan_analyzer_read, Destroy, DestroyRelease, DestroyReqHalt,
              suscan_analyzer_consume_mq_until_halt, suscan_remote_analyzer_dtor, JoinRx, HaltTx,
              Free
<1>3. ASSUME Close PROVE UNCHANGED <<tx, rx, from_peer, said>>
  BY <1>3 DEF Close
<1> QED
  BY <1>1, <1>2, <1>3 DEF Next, Server

LEMMA ServerInvStep ==
  ASSUME TypeOK, SentInv, ServerInv, RxInv, Next
  PROVE  ServerInv'
<1> DEFINE F == Hellos \cup Answers \cup ServerCalls
<1>0. from_peer \in Seq(F) /\ said \in Nat /\ Len(from_peer) \in Nat
  BY DEF TypeOK, MessageTypes
<1>a. /\ \A p \in F : Len(Append(from_peer, p)) = Len(from_peer) + 1
      /\ from_peer # <<>> => Len(Tail(from_peer)) = Len(from_peer) - 1 /\ Len(from_peer) > 0 /\ Tail(from_peer) \in Seq(F)
      /\ \A s \in Seq(F) : Len(s) = 0 <=> s = <<>>
  BY <1>0, AppendFacts, TailFacts
<1>b. from_peer \in Seq(ServerCalls) =>
        /\ \A p \in ServerCalls : Append(from_peer, p) \in Seq(ServerCalls)
        /\ from_peer # <<>> => Tail(from_peer) \in Seq(ServerCalls)
  BY AppendFacts, TailFacts
<1>c. <<>> \in Seq(ServerCalls) /\ <<>> \in Seq(F) /\ Hellos \subseteq F /\ Answers \subseteq F
  OBVIOUS
<1> HIDE DEF F
<1> USE DEF ServerInv
<1>1. ASSUME UNCHANGED <<tx, rx, from_peer, said>> PROVE ServerInv'
  BY <1>1
<1>2. ASSUME \/ Resolve \/ suscan_remote_analyzer_open_multicast \/ FillAuth \/ MarkRx
             \/ suscan_remote_analyzer_network_connect_cancellable
             \/ suscan_remote_analyzer_deliver_call
      PROVE  ServerInv'
  <2>1. UNCHANGED <<rx, from_peer, said>>
    BY <1>2 DEF Resolve, suscan_remote_analyzer_open_multicast, FillAuth, MarkRx, peer,
       suscan_remote_analyzer_network_connect_cancellable, suscan_remote_analyzer_deliver_call
  <2>2. \/ tx' \in {"done", "read"} \/ tx' = tx
        \/ tx = "deliver" /\ tx' = "answer"
        \/ tx = "auth" /\ tx' = "deliver"
        \/ tx \in {"resolve", "multicast", "connect"} /\ tx' \in {"multicast", "connect", "hello"}
    BY <1>2 DEF Resolve, suscan_remote_analyzer_open_multicast, FillAuth, MarkRx, Fail, TxTo,
       suscan_remote_analyzer_network_connect_cancellable, suscan_remote_analyzer_deliver_call
  <2> QED
    BY <2>1, <2>2, <1>0, <1>a, <1>c
<1>3. ASSUME ReadHello PROVE ServerInv'
  <2>1. UNCHANGED <<rx, said>> /\ tx = "hello" /\ rx = "none"
    BY <1>3 DEF ReadHello, RxInv, Unsent
  <2>2. \/ tx' = "done"
        \/ tx' = "auth" /\ from_peer # <<>> /\ from_peer' = Tail(from_peer)
    BY <1>3 DEF ReadHello, Fail, TxTo
  <2> QED
    BY <2>1, <2>2, <1>0, <1>a
<1>4. ASSUME ReadAnswer PROVE ServerInv'
  <2>1. UNCHANGED <<rx, said>> /\ tx = "answer" /\ rx = "none"
    BY <1>4 DEF ReadAnswer, RxInv, Unsent
  <2>2. \/ tx' = "done"
        \/ tx' = "start" /\ from_peer # <<>> /\ from_peer' = Tail(from_peer)
    BY <1>4 DEF ReadAnswer, Fail, TxTo
  <2> QED
    BY <2>1, <2>2, <1>0, <1>a
<1>5. ASSUME StartRx PROVE ServerInv'
  BY <1>5, <1>c DEF StartRx, TxTo, peer
<1>6. ASSUME Sending PROVE ServerInv'
  <2>1. UNCHANGED <<rx, from_peer, said>> /\ tx' \in {"read", "done", "halt", "ended"}
    BY <1>6 DEF Sending, suscan_remote_analyzer_tx_thread, TxDone, TxHalt, TxTo, peer
  <2> QED
    BY <2>1
<1>7. ASSUME Receiving PROVE ServerInv'
  <2>1. /\ UNCHANGED <<tx, said>> /\ rx # "none" /\ rx' # "none"
        /\ \/ UNCHANGED from_peer
           \/ from_peer # <<>> /\ from_peer' = Tail(from_peer)
    BY <1>7 DEF Receiving, ReceiveQueued, ReceiveCancelled, ReceiveCall, ReceiveDatagram,
       TakeSourceInfo, suscan_remote_analyzer_rx_thread, RxDone, threads, peer
  <2> QED
    BY <2>1, <1>b DEF RxInv, Unsent
<1>8. ASSUME SayHello PROVE ServerInv'
  <2>1. /\ said = 0 /\ said' = 1 /\ UNCHANGED <<tx, rx>> /\ tx \in {"connect", "hello"}
        /\ \E p \in F : from_peer' = Append(from_peer, p)
    BY <1>8, <1>c DEF SayHello, Say, threads
  <2> QED
    BY <2>1, <1>0, <1>a DEF RxInv, Unsent
<1>9. ASSUME SayAnswer PROVE ServerInv'
  <2>1. /\ said = 1 /\ said' = 2 /\ UNCHANGED <<tx, rx>> /\ tx \notin Unsent
        /\ \E p \in F : from_peer' = Append(from_peer, p)
    BY <1>9, <1>c DEF SayAnswer, Say, threads, SentInv
  <2> QED
    BY <2>1, <1>0, <1>a DEF Unsent
<1>10. ASSUME SayCall PROVE ServerInv'
  <2>1. /\ said' = said + 1 /\ rx # "none" /\ UNCHANGED <<tx, rx>>
        /\ \E p \in ServerCalls : from_peer' = Append(from_peer, p)
    BY <1>10 DEF SayCall, Say, threads, ServerCalls
  <2> QED
    BY <2>1, <1>0, <1>b DEF RxInv, Unsent
<1> QED
  BY <1>1, <1>2, <1>3, <1>4, <1>5, <1>6, <1>7, <1>8, <1>9, <1>10, ServerSteps DEF Connecting

\* Where the main thread goes once nothing calls any more.
LEMMA MainForward ==
  ASSUME TypeOK, Next
  PROVE  user[Main].at = "gone" => user'[Main].at = "gone"
<1>0. Main \in Users /\ DOMAIN user = Users
  BY RemoteAssumption DEF TypeOK, UserTypes
<1> USE <1>0
<1>1. ASSUME NEW u \in Users, UserStep(u), user[Main].at = "gone" PROVE user'[Main] = user[Main]
  <2>1. CASE CallNext(u) \/ Acquire(u)
    BY <2>1, <1>1 DEF CallNext, Acquire, Idle, Calling
  <2>2. CASE Fill(u)
    BY <2>2, <1>1 DEF Fill, At
  <2>3. CASE Queue(u)
    BY <2>3, <1>1 DEF Queue, At
  <2>4. CASE Release(u)
    BY <2>4, <1>1 DEF Release, At
  <2> QED
    BY <1>1, <2>1, <2>2, <2>3, <2>4 DEF UserStep
<1>2. ASSUME MainStep, user[Main].at = "gone" PROVE UNCHANGED user
  BY <1>2 DEF MainStep, ReqHalt, suscan_analyzer_read, Destroy, DestroyRelease, DestroyReqHalt,
              suscan_analyzer_consume_mq_until_halt, suscan_remote_analyzer_dtor, JoinRx, HaltTx,
              Free, Idle, users
<1>3. ASSUME Connecting \/ Sending PROVE UNCHANGED user
  BY <1>3 DEF Connecting, Resolve, suscan_remote_analyzer_open_multicast, ReadHello, FillAuth,
     suscan_remote_analyzer_network_connect_cancellable, suscan_remote_analyzer_deliver_call,
     ReadAnswer, StartRx, MarkRx, Sending, suscan_remote_analyzer_tx_thread, TxDone, TxHalt, users
<1>4. ASSUME Receiving \/ Server PROVE UNCHANGED user
  BY <1>4 DEF Receiving, ReceiveQueued, ReceiveCancelled, ReceiveCall, ReceiveDatagram,
     TakeSourceInfo, suscan_remote_analyzer_rx_thread, RxDone, users, Server, SayHello, SayAnswer, SayCall, Close, Say
<1> QED
  BY <1>1, <1>2, <1>3, <1>4 DEF Next

LEMMA HaltSteps ==
  ASSUME Next
  PROVE  \/ UNCHANGED <<running, told, mq_out, freed>>
         \/ UNCHANGED <<running, told, freed>>
            /\ \/ /\ mq_out # <<>> /\ mq_out' = Tail(mq_out)
               \/ \E m : m # HALT /\ m \in Told /\ mq_out' = Append(mq_out, m)
               \/ mq_out' = mq_out \o <<"info", "success">>
         \/ suscan_analyzer_read \/ TxDone \/ TxHalt \/ Free
         \/ suscan_remote_analyzer_rx_thread
<1> USE DEF flags, hist
<1>1. ASSUME NEW u \in Users, UserStep(u) PROVE UNCHANGED <<running, told, mq_out, freed>>
  BY <1>1 DEF UserStep, CallNext, Acquire, Fill, Queue, Release
<1>2. ASSUME MainStep, ~suscan_analyzer_read, ~Free
      PROVE  /\ UNCHANGED <<running, told, freed>>
             /\ \/ UNCHANGED mq_out
                \/ mq_out # <<>> /\ mq_out' = Tail(mq_out)
  BY <1>2 DEF MainStep, ReqHalt, Destroy, DestroyRelease, DestroyReqHalt,
              suscan_analyzer_consume_mq_until_halt, suscan_remote_analyzer_dtor, JoinRx, HaltTx
<1>3. ASSUME Connecting
      PROVE  /\ UNCHANGED <<running, told, freed>>
             /\ \/ UNCHANGED mq_out
                \/ mq_out' = Append(mq_out, "failure")
                \/ mq_out' = mq_out \o <<"info", "success">>
  <2>1. CASE \/ Resolve \/ suscan_remote_analyzer_open_multicast \/ ReadHello \/ FillAuth
             \/ suscan_remote_analyzer_network_connect_cancellable
    BY <2>1 DEF Resolve, suscan_remote_analyzer_open_multicast, ReadHello, FillAuth,
       suscan_remote_analyzer_network_connect_cancellable, Fail, Tell
  <2>2. CASE \/ suscan_remote_analyzer_deliver_call \/ ReadAnswer \/ StartRx \/ MarkRx
    BY <2>2 DEF suscan_remote_analyzer_deliver_call, ReadAnswer, StartRx, MarkRx, Fail, Tell
  <2> QED
    BY <1>3, <2>1, <2>2 DEF Connecting
<1>4. ASSUME \/ suscan_remote_analyzer_tx_thread \/ ReceiveQueued \/ ReceiveCancelled
             \/ ReceiveCall \/ ReceiveDatagram \/ TakeSourceInfo \/ RxDone \/ Server
      PROVE  UNCHANGED <<running, told, mq_out, freed>>
  BY <1>4 DEF suscan_remote_analyzer_tx_thread, ReceiveQueued, ReceiveCancelled,
     ReceiveCall, ReceiveDatagram, TakeSourceInfo, RxDone, Server, SayHello, SayAnswer, SayCall, Close, Say
<1>5. "failure" # HALT /\ "failure" \in Told
  BY DEF HALT, Told
<1> QED
  BY <1>1, <1>2, <1>3, <1>4, <1>5 DEF Next, Sending, Receiving

LEMMA HaltInvStep ==
  ASSUME TypeOK, CallInv, HaltInv, Next
  PROVE  HaltInv'
<1>0. mq_out \in Seq(Told) /\ "info" \in Told /\ "eos" \in Told /\ "message" \in Told /\ "cast" \in Told
      /\ "failure" \in Told /\ HALT \in Told
  BY DEF TypeOK, MessageTypes, Told
<1>a. /\ \A m \in Told : ToSet(Append(mq_out, m)) = ToSet(mq_out) \cup {m}
      /\ mq_out # <<>> => Head(mq_out) \in ToSet(mq_out) /\ ToSet(Tail(mq_out)) \subseteq ToSet(mq_out)
  BY <1>0, ToSetAfter, HeadFacts
<1>b. HALT \in ToSet(mq_out \o <<"info", "success">>) => HALT \in ToSet(mq_out)
  <2>1. mq_out \o <<"info", "success">> = Append(Append(mq_out, "info"), "success")
    BY <1>0
  <2>2. Append(mq_out, "info") \in Seq(Told) /\ "success" \in Told
    BY <1>0 DEF Told
  <2>3. ToSet(mq_out \o <<"info", "success">>) = ToSet(mq_out) \cup {"info"} \cup {"success"}
    <3>1. ToSet(Append(mq_out, "info")) = ToSet(mq_out) \cup {"info"}
      BY <1>0, <1>a
    <3>2. ToSet(Append(Append(mq_out, "info"), "success"))
            = ToSet(Append(mq_out, "info")) \cup {"success"}
      BY <2>2, ToSetAfter
    <3> QED
      BY <2>1, <3>1, <3>2
  <2> QED
    BY <2>3 DEF HALT
<1>c. /\ tx = "ended" => tx' = "ended"
      /\ tx \in {"halt", "ended"} => tx' \in {"halt", "ended"}
      /\ user[Main].at = "gone" => user'[Main].at = "gone"
  BY TxForward, MainForward
<1> USE DEF HaltInv
<1>1. ASSUME UNCHANGED <<running, told, freed>>, HALT \in ToSet(mq_out') => HALT \in ToSet(mq_out)
      PROVE  HaltInv'
  BY <1>1, <1>c
<1>2. ASSUME suscan_analyzer_read PROVE HaltInv'
  <2>1. /\ UNCHANGED <<running, freed>> /\ mq_out # <<>> /\ mq_out' = Tail(mq_out)
        /\ told' => told \/ Head(mq_out) = HALT
    BY <1>2 DEF suscan_analyzer_read, flags
  <2> QED
    BY <2>1, <1>a, <1>c
<1>3. ASSUME TxDone PROVE HaltInv'
  BY <1>3, <1>c DEF TxDone, TxTo, hist
<1>4. ASSUME TxHalt PROVE HaltInv'
  BY <1>4, <1>c DEF TxHalt, TxTo, flags, hist
<1>5. ASSUME Free PROVE HaltInv'
  <2>1. tx = "ended" /\ user' = [user EXCEPT ![Main].at = "gone"] /\ UNCHANGED running
    BY <1>5 DEF Free, At, flags
  <2>2. user'[Main].at = "gone"
    BY <2>1, RemoteAssumption DEF TypeOK, UserTypes
  <2> QED
    BY <2>1, <2>2, <1>c
<1>6. ASSUME suscan_remote_analyzer_rx_thread PROVE HaltInv'
  <2>1. rx = "handle" /\ call.type = "MESSAGE" => call.msg \in {"message", "cast"}
    BY HandledTypes DEF CallInv
  <2>2. /\ UNCHANGED <<running, told, freed>>
        /\ UNCHANGED mq_out \/ \E m \in {"info", "message", "cast", "eos"} : mq_out' = Append(mq_out, m)
    BY <1>6, <2>1 DEF suscan_remote_analyzer_rx_thread, Tell, hist
  <2> QED
    BY <2>2, <1>0, <1>a, <1>1 DEF HALT
<1>7. ASSUME UNCHANGED <<running, told, freed>>,
             \/ /\ mq_out # <<>> /\ mq_out' = Tail(mq_out)
             \/ \E m : m # HALT /\ m \in Told /\ mq_out' = Append(mq_out, m)
             \/ mq_out' = mq_out \o <<"info", "success">>
      PROVE  HaltInv'
  BY <1>7, <1>a, <1>b, <1>1
<1>8. ASSUME UNCHANGED <<running, told, mq_out, freed>> PROVE HaltInv'
  BY <1>8, <1>1
<1> QED
  BY <1>2, <1>3, <1>4, <1>5, <1>6, <1>7, <1>8, HaltSteps

\* The places the main thread passes once it destroys the analyzer, and
\* where the threads must be.
LEMMA DestroySteps ==
  ASSUME Next
  PROVE  \/ UNCHANGED user /\ (halt_requested' => halt_requested) /\ (told => told')
         \/ \E u \in Users : UserStep(u)
         \/ ReqHalt \/ Destroy \/ DestroyRelease \/ DestroyReqHalt
         \/ suscan_analyzer_consume_mq_until_halt \/ suscan_remote_analyzer_dtor \/ JoinRx \/ HaltTx
         \/ Free
<1> USE DEF users, flags, hist
<1>1. ASSUME Connecting \/ Sending PROVE UNCHANGED <<user, halt_requested, told>>
  BY <1>1 DEF Connecting, Resolve, suscan_remote_analyzer_open_multicast, ReadHello, FillAuth,
     suscan_remote_analyzer_network_connect_cancellable, suscan_remote_analyzer_deliver_call,
     ReadAnswer, StartRx, MarkRx, Sending, suscan_remote_analyzer_tx_thread, TxDone, TxHalt
<1>2. ASSUME Receiving PROVE UNCHANGED <<user, halt_requested, told>>
  BY <1>2 DEF Receiving, ReceiveQueued, ReceiveCancelled, ReceiveCall, ReceiveDatagram,
     TakeSourceInfo, suscan_remote_analyzer_rx_thread, RxDone
<1>3. ASSUME Server PROVE UNCHANGED <<user, halt_requested, told>>
  BY <1>3 DEF Server, SayHello, SayAnswer, SayCall, Close, Say
<1>4. ASSUME suscan_analyzer_read PROVE UNCHANGED <<user, halt_requested>> /\ (told => told')
  BY <1>4 DEF suscan_analyzer_read
<1> QED
  BY <1>1, <1>2, <1>3, <1>4 DEF Next, MainStep

\* A reception thread that is not there, or has ended, does not come back.
LEMMA RxForward ==
  ASSUME Next, tx \in {"halt", "ended"}, rx \in {"none", "ended"}
  PROVE  rx' \in {"none", "ended"}
<1>1. ASSUME Connecting PROVE FALSE
  BY <1>1 DEF Connecting, Resolve, suscan_remote_analyzer_open_multicast, ReadHello, FillAuth,
     suscan_remote_analyzer_network_connect_cancellable, suscan_remote_analyzer_deliver_call,
     ReadAnswer, StartRx, MarkRx
<1>2. ASSUME Sending PROVE UNCHANGED rx
  BY <1>2 DEF Sending, suscan_remote_analyzer_tx_thread, TxDone, TxHalt
<1>3. ASSUME Receiving PROVE FALSE
  BY <1>3 DEF Receiving, ReceiveQueued, ReceiveCancelled, ReceiveCall, ReceiveDatagram,
     TakeSourceInfo, suscan_remote_analyzer_rx_thread, RxDone
<1> QED
  BY <1>1, <1>2, <1>3, TxSteps

LEMMA DestroyInvStep ==
  ASSUME TypeOK, CallInv, RxInv, HaltInv, DestroyInv, Next
  PROVE  DestroyInv'
<1> DEFINE Before == {"d_fill", "d_queue", "d_release", "d_wait", "d_halt"}
           After == {"dtor", "join_rx", "halt_tx", "join_tx", "gone"}
           Joined == {"halt_tx", "join_tx", "gone"}
           DI == /\ user[Main].at \in Before =>
                      \/ /\ user[Main].want = suscan_remote_analyzer_force_eos
                         /\ halt_requested => told
                      \/ /\ user[Main].want = suscan_remote_analyzer_req_halt
                         /\ user[Main].at # "d_halt"
                 /\ user[Main].at \in After => tx \in {"halt", "ended"}
                 /\ user[Main].at \in Joined => rx \in {"none", "ended"}
<1>0. DestroyPlaces \ {"dtor", "join_rx", "halt_tx", "join_tx", "gone"} = Before
  BY DEF DestroyPlaces
<1> SUFFICES ASSUME ~EarlyDestroy PROVE DI'
  BY <1>0 DEF DestroyInv
<1>a. DI
  BY <1>0 DEF DestroyInv
<1>b. Main \in Users /\ DOMAIN user = Users
      /\ user \in [Users -> [at : CallPlaces \cup DestroyPlaces, want : Wants \cup {NoCall}]]
  BY RemoteAssumption DEF TypeOK, UserTypes
<1>c. /\ tx \in {"halt", "ended"} => tx' \in {"halt", "ended"}
      /\ tx \in {"halt", "ended"} /\ rx \in {"none", "ended"} => rx' \in {"none", "ended"}
  BY TxForward, RxForward
<1>d. Joined \subseteq After
  OBVIOUS
<1>e. suscan_remote_analyzer_force_eos # suscan_remote_analyzer_req_halt
  BY DEF suscan_remote_analyzer_force_eos, suscan_remote_analyzer_req_halt
<1>f. mq_out # <<>> => Head(mq_out) \in ToSet(mq_out)
  BY HeadFacts DEF TypeOK, MessageTypes
<1> USE <1>b
<1>1. ASSUME user'[Main] = user[Main], halt_requested' => halt_requested, told => told'
      PROVE  DI'
  BY <1>1, <1>a, <1>c, <1>d
<1>2. ASSUME user'[Main].at \in CallPlaces PROVE DI'
  BY <1>2 DEF CallPlaces
<1>3. ASSUME NEW u \in Users, UserStep(u) PROVE DI'
  <2>1. UNCHANGED <<halt_requested, told>>
    BY <1>3 DEF UserStep, CallNext, Acquire, Fill, Queue, Release, flags, hist
  <2>2. CASE u # Main
    <3>1. user'[Main] = user[Main]
      BY <1>3, <2>2 DEF UserStep, CallNext, Acquire, Fill, Queue, Release, At, Calling
    <3> QED
      BY <3>1, <2>1, <1>1
  <2>3. CASE u = Main
    <3>1. CASE CallNext(u) \/ Acquire(u)
      <4>1. UNCHANGED user \/ user'[Main].at \in {"lock", "fill"}
        <5>1. PICK c : \/ UNCHANGED user
                       \/ user' = [user EXCEPT ![Main] = [at |-> "lock", want |-> c]]
                       \/ user' = [user EXCEPT ![Main] = [at |-> "fill", want |-> c]]
          BY <3>1, <2>3 DEF CallNext, Acquire, Calling
        <5> QED
          BY <5>1
      <4> QED
        BY <4>1, <2>1, <1>1, <1>2 DEF CallPlaces
    <3>2. CASE Release(u)
      <4>1. user'[Main].at = "idle"
        BY <3>2, <2>3 DEF Release, At
      <4> QED
        BY <4>1, <1>2 DEF CallPlaces
    <3>3. CASE Fill(u) \/ Queue(u)
      <4>1. /\ user'[Main].want = user[Main].want
            /\ \/ user'[Main].at \in {"queue", "release"}
               \/ user[Main].at \in {"d_fill", "d_queue"} /\ user'[Main].at \in {"d_queue", "d_release"}
        BY <3>3, <2>3 DEF Fill, Queue, At
      <4> QED
        BY <4>1, <2>1, <1>a
    <3> QED
      BY <1>3, <2>3, <3>1, <3>2, <3>3 DEF UserStep
  <2> QED
    BY <2>2, <2>3
<1>4. ASSUME ReqHalt PROVE DI'
  <2>1. user'[Main].at = "fill"
    BY <1>4 DEF ReqHalt, Calling
  <2> QED
    BY <2>1, <1>2 DEF CallPlaces
<1>5. ASSUME Destroy PROVE DI'
  BY <1>5 DEF Destroy, flags, hist
<1>6. ASSUME DestroyReqHalt PROVE DI'
  BY <1>6 DEF DestroyReqHalt
<1>7. ASSUME DestroyRelease PROVE DI'
  <2>1. UNCHANGED <<tx, rx, halt_requested, told>> /\ user[Main].at \in Before
    BY <1>7 DEF DestroyRelease, threads, flags, hist
  <2>2. /\ user'[Main].want = user[Main].want
        /\ \/ user[Main].want = suscan_remote_analyzer_req_halt /\ user'[Main].at = "d_wait"
           \/ /\ user[Main].want # suscan_remote_analyzer_req_halt
              /\ ~halt_requested /\ user'[Main].at = "d_halt"
           \/ /\ user[Main].want # suscan_remote_analyzer_req_halt
              /\ ~running \/ halt_requested
              /\ user'[Main].at = "dtor"
    BY <1>7 DEF DestroyRelease, At
  <2> QED
    BY <2>1, <2>2, <1>a, <1>e DEF HaltInv
<1>8. ASSUME suscan_analyzer_consume_mq_until_halt PROVE DI'
  <2>1. UNCHANGED <<tx, rx, halt_requested, told>>
    BY <1>8 DEF suscan_analyzer_consume_mq_until_halt, threads, flags, hist
  <2>2. \/ UNCHANGED user
        \/ user'[Main].at = "dtor" /\ HALT \in ToSet(mq_out)
    BY <1>8, <1>f DEF suscan_analyzer_consume_mq_until_halt, At
  <2> QED
    BY <2>1, <2>2, <1>1 DEF HaltInv
<1>9. ASSUME suscan_remote_analyzer_dtor PROVE DI'
  <2>1. /\ UNCHANGED <<tx, rx, halt_requested, told>> /\ user[Main].at = "dtor"
        /\ \/ user'[Main].at = "join_rx"
           \/ user'[Main].at = "halt_tx" /\ ~rx_thread_init
    BY <1>9 DEF suscan_remote_analyzer_dtor, At, flags, hist
  <2>2. tx \in {"halt", "ended"}
    BY <2>1, <1>a
  <2> QED
    BY <2>1, <2>2 DEF RxInv
<1>10. ASSUME JoinRx PROVE DI'
  BY <1>10, <1>a DEF JoinRx, At, threads
<1>11. ASSUME HaltTx \/ Free PROVE DI'
  BY <1>11, <1>a DEF HaltTx, Free, At, threads
<1> QED
  BY <1>1, <1>3, <1>4, <1>5, <1>6, <1>7, <1>8, <1>9, <1>10, <1>11, DestroySteps

LEMMA InitInv ==
  ASSUME Init
  PROVE  Inv
<1> USE DEF Init
<1>0. Main \in Users /\ "tx" # None /\ "rx" # None /\ None \notin Users /\ program \in Programs
  BY RemoteAssumption
<1>1. UserTypes
  <2>1. DOMAIN program = Users
    BY <1>0, RemoteAssumption
  <2>2. \A u \in Users : program[u] \in Seq(ToSet(program[u]))
    BY <1>0, RemoteAssumption
  <2>3. \A u \in Users : \A c \in ToSet(program[u]) : c.call \in Wants
    BY <1>0 DEF Wants
  <2>4. user \in [Users -> [at : CallPlaces \cup DestroyPlaces, want : Wants \cup {NoCall}]]
    BY DEF CallPlaces
  <2>5. \A u \in Users \ {Main} : user[u].at \in CallPlaces
    BY DEF CallPlaces
  <2> QED
    BY <2>1, <2>2, <2>3, <2>4, <2>5 DEF UserTypes
<1>2. QueueTypes
  BY DEF QueueTypes
<1>3. ThreadTypes
  BY DEF ThreadTypes
<1>4. MessageTypes
  <2>1. mq_out \in Seq({"info", "success", "failure", "message", "cast", "eos", HALT})
    OBVIOUS
  <2>2. from_peer \in Seq(Hellos \cup Answers \cup ServerCalls)
    OBVIOUS
  <2> QED
    BY <2>1, <2>2 DEF MessageTypes
<1>5. OwnerInv /\ CallInv
  BY <1>0 DEF OwnerInv, CallInv, InCall
<1>6. SentInv /\ QueueInv
  BY DEF SentInv, QueueInv, Unsent, Sends, Sent, NoHalt
<1>7. ServerInv /\ RxInv
  BY DEF ServerInv, RxInv, Unsent
<1>8. HaltInv /\ DestroyInv
  BY <1>0 DEF HaltInv, DestroyInv, DestroyPlaces, HALT, ToSet
<1> QED
  BY <1>1, <1>2, <1>3, <1>4, <1>5, <1>6, <1>7, <1>8 DEF Inv, TypeOK

LEMMA StepInv ==
  ASSUME Inv, [Next]_vars
  PROVE  Inv'
<1>1. CASE Next
  BY <1>1, UserTypesStep, QueueTypesStep, ThreadTypesStep, MessageTypesStep, OwnerStep, CallInvStep,
     SentInvStep, QueueInvStep, ServerInvStep, RxInvStep, HaltInvStep, DestroyInvStep
     DEF Inv, TypeOK
<1>2. CASE UNCHANGED vars
  <2> USE <1>2 DEF Inv, vars, users, queues, threads, flags, peer, hist
  <2>1. TypeOK'
    BY DEF TypeOK, UserTypes, QueueTypes, ThreadTypes, MessageTypes
  <2>2. OwnerInv' /\ CallInv' /\ SentInv' /\ ServerInv' /\ RxInv' /\ HaltInv' /\ DestroyInv'
    <3>1. OwnerInv' /\ CallInv'
      BY DEF OwnerInv, CallInv
    <3>2. SentInv'
      BY DEF SentInv
    <3>3. ServerInv'
      BY DEF ServerInv
    <3>4. RxInv'
      BY DEF RxInv
    <3>5. HaltInv'
      BY DEF HaltInv
    <3>6. DestroyInv'
      BY DEF DestroyInv
    <3> QED
      BY <3>1, <3>2, <3>3, <3>4, <3>5, <3>6
  <2>3. QueueInv'
    BY DEF QueueInv, Sent, NoHalt
  <2> QED
    BY <2>1, <2>2, <2>3
<1> QED
  BY <1>1, <1>2

LEMMA InvHolds == Spec => []Inv
<1> QED
  BY InitInv, StepInv, PTL DEF Spec

\* The fields, the queues, the calls and the places of the threads keep proper
\* values.
THEOREM TypeCorrect == Spec => []TypeOK
<1>1. Inv => TypeOK
  BY DEF Inv
<1> QED
  BY <1>1, InvHolds, PTL

\* The calls reach the server as they were made: each once, whole, in order.
THEOREM CallsSentAsAsked == Spec => []SentAsAsked
<1>1. ASSUME Inv PROVE SentAsAsked
  <2> SUFFICES ASSUME to_peer # <<>> PROVE IsPrefix(Tail(to_peer), asked)
    BY <1>1 DEF SentAsAsked, Inv, SentInv
  <2> DEFINE A == Wants \cup {AUTH_INFO(TRUE), AUTH_INFO(FALSE)}
             s == Tail(to_peer)
  <2>0. to_peer \in Seq(A) /\ asked \in Seq(Wants)
    BY <1>1 DEF Inv, TypeOK, QueueTypes
  <2>1. /\ s \in Seq(A) /\ Len(s) = Len(to_peer) - 1 /\ Len(to_peer) \in Nat /\ Len(to_peer) > 0
        /\ \A j \in 1 .. Len(s) : s[j] = to_peer[j + 1]
    BY <2>0, TailFacts
  <2> HIDE DEF A, s
  <2>2. \A k \in 2 .. Len(to_peer) : k - 1 \in 1 .. Len(asked) /\ to_peer[k] = asked[k - 1]
    BY <1>1 DEF Inv, SentInv
  <2>3. \A j \in 1 .. Len(s) : j + 1 \in 2 .. Len(to_peer) /\ (j + 1) - 1 = j
    BY <2>1
  <2>4. \A j \in 1 .. Len(s) : j \in 1 .. Len(asked) /\ s[j] = asked[j]
    BY <2>1, <2>2, <2>3
  <2>5. Len(s) \in Nat /\ Len(asked) \in Nat /\ Len(s) <= Len(asked)
    BY <2>0, <2>1, <2>4
  <2>6. IsPrefix(s, asked)
    BY <2>0, <2>1, <2>4, <2>5 DEF IsPrefix
  <2> QED
    BY <2>6 DEF s
<1> QED
  BY <1>1, InvHolds, PTL

\* The destruction joins both threads first, wherever the connection was.
THEOREM ThreadsJoined == ASSUME ~EarlyDestroy PROVE Spec => []NoThreadLeft
<1>1. Inv => NoThreadLeft
  BY DEF Inv, NoThreadLeft, HaltInv, DestroyInv
<1> QED
  BY <1>1, InvHolds, PTL
=============================================================================
