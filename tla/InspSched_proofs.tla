-------------------------- MODULE InspSched_proofs --------------------------
(***************************************************************************)
(* For any workers, inspectors, infos and failed allocations: every task   *)
(* info is in one place, no inspector has two tasks at once, and the       *)
(* tuner's buffer is given back when no task points into it.               *)
(*                                                                         *)
(* The second part is about the loop that the workers run, and the owner   *)
(* that halts them.                                                        *)
(***************************************************************************)
EXTENDS InspSched, Worker, SeqLemmas

\* Where the source worker and the workers are, and what they hold.
HoldsInv ==
  /\ info # None <=> src = "queue"
  /\ \A w \in Workers : worker[w] = "task" <=> task[w] # None

InQueue(w, i) == i \in ToSet(queue[w])

\* What InfoAccounted says, of one queue, one info and two workers at a time.
InfoInv ==
  /\ free_list \cap alloc_list = {}
  /\ \A w \in Workers : Once(queue[w], BARRIER)
  /\ \A v, w \in Workers : \A i \in Infos : InQueue(v, i) /\ InQueue(w, i) => v = w
  /\ \A v, w \in Workers : task[v] = task[w] => v = w \/ task[v] = None
  /\ \A v, w \in Workers : \A i \in Infos : task[v] = i => ~InQueue(w, i)
  /\ \A w \in Workers : \A i \in Infos : info = i => ~InQueue(w, i) /\ task[w] # i
  /\ src \notin {"destroy", "gone"} =>
       \A i \in Infos : i \in alloc_list <=>
         i = info \/ \E w \in Workers : task[w] = i \/ InQueue(w, i)

\* A worker that has its barrier: it waits there with nothing queued, or the
\* barrier is the last message of its queue.
Barred(w) ==
  IF worker[w] = "barrier"
    THEN queue[w] = <<>>
    ELSE /\ queue[w] # <<>>
         /\ \A k \in 1 .. Len(queue[w]) : queue[w][k] = BARRIER <=> k = Len(queue[w])

Unbarred(w) == worker[w] # "barrier" /\ ~InQueue(w, BARRIER)

HasBarrier(w) == src = "barrier" \/ (src = "sync" /\ w < index)

BarrierInv ==
  ~broken => \A w \in Workers : IF HasBarrier(w) THEN Barred(w) ELSE Unbarred(w)

\* Between two blocks there is nothing to do.
QuietInv ==
  ~broken /\ src \in {"ack", "idle", "destroy", "gone"} =>
    \A w \in Workers : queue[w] = <<>> /\ task[w] = None

\* The inspectors that have a task have had their turn in this block.
TurnInv ==
  ~broken =>
    /\ OneTaskPerInspector
    /\ \A i \in alloc_list : inspector[i] \notin todo
    /\ src = "calloc" =>
         /\ insp \in Inspectors \ todo
         /\ \A i \in alloc_list : inspector[i] # insp

Inv ==
  /\ TypeOK /\ HoldsInv /\ InfoInv
  /\ BarrierInv /\ QuietInv /\ TurnInv

-----------------------------------------------------------------------------
(* Queues of workers *)

LEMMA QueueTypes ==
  ASSUME TypeOK, NEW w \in Workers
  PROVE  /\ queue[w] \in Seq(Infos \cup {BARRIER})
         /\ ToSet(queue[w]) \subseteq Infos \cup {BARRIER}
         /\ Queued(w) = ToSet(queue[w]) \ {BARRIER}
<1>1. queue[w] \in Seq(Infos \cup {BARRIER})
  BY DEF TypeOK
<1>2. /\ \A e : e \in ToSet(queue[w]) <=> \E k \in 1 .. Len(queue[w]) : queue[w][k] = e
      /\ ToSet(queue[w]) \subseteq Infos \cup {BARRIER}
  BY <1>1, ToSetFacts
<1> QED
  BY <1>1, <1>2 DEF Queued

\* Pushing at the end of a queue, and popping its first message.
LEMMA PushFacts ==
  ASSUME TypeOK, NEW w \in Workers, NEW e \in Infos \cup {BARRIER},
         queue' = [queue EXCEPT ![w] = Append(@, e)]
  PROVE  /\ queue' \in [Workers -> Seq(Infos \cup {BARRIER})]
         /\ \A v \in Workers : v # w => queue'[v] = queue[v]
         /\ \A v \in Workers : \A i : InQueue(v, i)' <=> InQueue(v, i) \/ (v = w /\ i = e)
         /\ ~InQueue(w, e) /\ Once(queue[w], BARRIER) => Once(queue'[w], BARRIER)
<1>1. /\ queue[w] \in Seq(Infos \cup {BARRIER})
      /\ queue'[w] = Append(queue[w], e)
      /\ \A v \in Workers : v # w => queue'[v] = queue[v]
      /\ queue' \in [Workers -> Seq(Infos \cup {BARRIER})]
  BY DEF TypeOK
<1>2. ToSet(queue'[w]) = ToSet(queue[w]) \cup {e}
  BY <1>1, ToSetAfter
<1>3. ~InQueue(w, e) /\ Once(queue[w], BARRIER) => Once(queue'[w], BARRIER)
  BY <1>1, OnceAdd DEF InQueue
<1> QED
  BY <1>1, <1>2, <1>3 DEF InQueue

LEMMA PopFacts ==
  ASSUME TypeOK, NEW w \in Workers, queue[w] # <<>>, Once(queue[w], BARRIER),
         queue' = [queue EXCEPT ![w] = Tail(@)]
  PROVE  /\ queue' \in [Workers -> Seq(Infos \cup {BARRIER})]
         /\ queue'[w] = Tail(queue[w])
         /\ \A v \in Workers : v # w => queue'[v] = queue[v]
         /\ InQueue(w, Head(queue[w])) /\ Head(queue[w]) \in Infos \cup {BARRIER}
         /\ \A i : InQueue(w, i) <=> InQueue(w, i)' \/ i = Head(queue[w])
         /\ \A v \in Workers \ {w} : \A i : InQueue(v, i)' <=> InQueue(v, i)
         /\ Once(queue'[w], BARRIER)
         /\ Head(queue[w]) # BARRIER => Head(queue[w]) \notin ToSet(queue'[w])
<1>1. /\ queue[w] \in Seq(Infos \cup {BARRIER})
      /\ queue'[w] = Tail(queue[w])
      /\ \A v \in Workers : v # w => queue'[v] = queue[v]
      /\ queue' \in [Workers -> Seq(Infos \cup {BARRIER})]
  <2>1. queue[w] \in Seq(Infos \cup {BARRIER})
    BY DEF TypeOK
  <2>2. Tail(queue[w]) \in Seq(Infos \cup {BARRIER})
    BY <2>1, TailFacts
  <2> QED
    BY <2>1, <2>2 DEF TypeOK
<1>2. /\ Head(queue[w]) \in Infos \cup {BARRIER}
      /\ Head(queue[w]) \in ToSet(queue[w])
      /\ \A e : e \in ToSet(queue[w]) <=> e \in ToSet(queue'[w]) \/ e = Head(queue[w])
  BY <1>1, HeadFacts
<1>3. /\ Once(queue'[w], BARRIER)
      /\ Head(queue[w]) = BARRIER \/ Head(queue[w]) \notin ToSet(queue'[w])
  BY <1>1, OnceTail
<1>4. \A i : InQueue(w, i) <=> InQueue(w, i)' \/ i = Head(queue[w])
  BY <1>2 DEF InQueue
<1>5. \A v \in Workers \ {w} : \A i : InQueue(v, i)' <=> InQueue(v, i)
  BY <1>1 DEF InQueue
<1>6. Head(queue[w]) # BARRIER => Head(queue[w]) \notin ToSet(queue'[w])
  BY <1>3 DEF InQueue
<1>7. InQueue(w, Head(queue[w]))
  BY <1>2 DEF InQueue
<1> QED
  BY <1>1, <1>2, <1>3, <1>4, <1>5, <1>6, <1>7

LEMMA EmptyQueue ==
  ASSUME NEW w \in Workers, queue[w] = <<>>
  PROVE  \A i : ~InQueue(w, i)
  BY DEF InQueue, ToSet

-----------------------------------------------------------------------------
(* The initial state *)

LEMMA InitInv == Init => Inv
<1> SUFFICES ASSUME Init PROVE Inv
  OBVIOUS
<1> USE InspSchedAssumption DEF InspSchedAssumption
<1>1. TypeOK
  BY DEF Init, TypeOK, Workers, Sites
<1>2. HoldsInv
  BY DEF Init, HoldsInv
<1>3. \A w \in Workers : \A i : ~InQueue(w, i)
  BY EmptyQueue DEF Init
<1>4. \A w \in Workers : Once(queue[w], BARRIER)
  BY DEF Init, Once
<1>5. InfoInv
  BY <1>3, <1>4 DEF Init, InfoInv
<1>6. BarrierInv /\ QuietInv
  BY <1>3 DEF Init, BarrierInv, QuietInv, HasBarrier, Unbarred
<1>7. TurnInv
  BY DEF Init, TurnInv, OneTaskPerInspector
<1> QED
  BY <1>1, <1>2, <1>5, <1>6, <1>7 DEF Inv

-----------------------------------------------------------------------------
(* Steps that leave queues and workers as they are *)

\* The parts of the invariant that say nothing of where the source worker is.
LEMMA PoolFrame ==
  ASSUME InfoInv, UNCHANGED <<lists, pool, info>>,
         src' \in {"destroy", "gone"} \/ src \notin {"destroy", "gone"}
  PROVE  InfoInv'
  BY DEF InfoInv, InQueue, lists, pool

\* ... and those that say how far the source worker is with the barriers.
LEMMA BarrierFrame ==
  ASSUME BarrierInv, UNCHANGED pool, broken' = broken,
         ~broken => \A w \in Workers : HasBarrier(w)' <=> HasBarrier(w)
  PROVE  BarrierInv'
  BY DEF BarrierInv, InQueue, pool, Barred, Unbarred

\* The source worker waits for nobody in these places.
LEMMA NoBarrier ==
  ASSUME src \notin {"sync", "barrier"}, src' \notin {"sync", "barrier"}
  PROVE  \A w \in Workers : HasBarrier(w)' <=> HasBarrier(w)
  BY DEF HasBarrier

\* A block begins, an inspector misses it, a block ends, or the scheduler is to
\* be destroyed.
LEMMA MoveInv ==
  ASSUME Inv,
         \/ \E S \in SUBSET Inspectors : NewBlock(S)
         \/ AcquireFails \/ AckData \/ BeginDestroy
  PROVE  Inv'
<1> USE DEF Inv
<1>1. /\ UNCHANGED <<lists, pool, info, broken>>
      /\ src \in {"idle", "calloc", "ack"}
      /\ src' \in {"idle", "feed", "destroy"}
      /\ src' \in {"idle", "destroy"} => src \in {"idle", "ack"}
      /\ src = "idle" \/ todo' = todo
  BY DEF NewBlock, AcquireFails, AckData, BeginDestroy, feeding, faults
<1>2. TypeOK'
  BY InspSchedAssumption, SMTT(30)
  DEF InspSchedAssumption, TypeOK, Sites, Workers, MayFail, Heap, NewBlock, AcquireFails,
      AckData, BeginDestroy, feeding, lists, pool, faults
<1>3. HoldsInv'
  BY <1>1 DEF HoldsInv, pool
<1>4. InfoInv'
  BY <1>1, PoolFrame
<1>5. BarrierInv'
  BY <1>1, NoBarrier, BarrierFrame
<1>6. QuietInv'
  BY <1>1 DEF QuietInv, pool
<1>7. src = "idle" /\ ~broken => alloc_list = {}
  BY EmptyQueue, InspSchedAssumption
  DEF InfoInv, HoldsInv, QuietInv, TypeOK, InspSchedAssumption
<1>8. TurnInv'
  BY <1>1, <1>7 DEF TurnInv, OneTaskPerInspector, lists
<1> QED
  BY <1>2, <1>3, <1>4, <1>5, <1>6, <1>8

-----------------------------------------------------------------------------
(* The source worker: a task for each channel *)

\* A task info is handed out: nobody else has it.
LEMMA HandOut ==
  ASSUME Inv, NEW i \in Infos, i \notin alloc_list, info = None,
         src \notin {"destroy", "gone"}, info' = i,
         alloc_list' = alloc_list \cup {i},
         free_list' \subseteq free_list, i \notin free_list', UNCHANGED pool
  PROVE  InfoInv'
<1> USE DEF Inv
<1>1. /\ info # i
      /\ \A w \in Workers : task[w] # i /\ ~InQueue(w, i)
  BY DEF InfoInv
<1>2. \A w \in Workers : \A j : InQueue(w, j)' <=> InQueue(w, j)
  BY DEF InQueue, pool
<1>3. task' = task /\ queue' = queue
  BY DEF pool
<1>4. \A j \in Infos : j # None
  BY InspSchedAssumption DEF InspSchedAssumption
<1>5. ASSUME NEW j \in Infos
      PROVE  j \in alloc_list' <=>
               j = info' \/ \E w \in Workers : task'[w] = j \/ InQueue(w, j)'
  <2>1. j \in alloc_list <=> \E w \in Workers : task[w] = j \/ InQueue(w, j)
    BY <1>4 DEF InfoInv
  <2> QED
    BY <1>2, <1>3, <2>1
<1>6. free_list' \cap alloc_list' = {}
  BY DEF InfoInv
<1>7. \A w \in Workers : \A j \in Infos : info' = j => ~InQueue(w, j)' /\ task'[w] # j
  BY <1>1, <1>2, <1>3
<1>8. /\ \A w \in Workers : Once(queue'[w], BARRIER)
      /\ \A v, w \in Workers : task'[v] = task'[w] => v = w \/ task'[v] = None
  BY <1>3 DEF InfoInv
<1>9. /\ \A v, w \in Workers : \A j \in Infos : InQueue(v, j)' /\ InQueue(w, j)' => v = w
      /\ \A v, w \in Workers : \A j \in Infos : task'[v] = j => ~InQueue(w, j)'
  BY <1>2, <1>3 DEF InfoInv
<1> QED
  BY <1>5, <1>6, <1>7, <1>8, <1>9 DEF InfoInv

LEMMA AcquireInv ==
  ASSUME Inv, NEW n \in Inspectors, suscan_inspsched_acquire_task_info(n)
  PROVE  Inv'
<1> USE DEF Inv, suscan_inspsched_acquire_task_info
<1>1. TypeOK'
  BY DEF TypeOK, Sites, Workers, lists, pool, faults
<1>2. /\ src = "feed" /\ src' \in {"calloc", "queue"}
      /\ UNCHANGED <<pool, broken>>
  BY DEF faults
<1>3. BarrierInv'
  BY <1>2, NoBarrier, BarrierFrame
<1>4. QuietInv'
  BY <1>2 DEF QuietInv
<1>5. CASE free_list = {}
  <2>1. src' = "calloc" /\ UNCHANGED <<info, lists>> /\ todo' = todo \ {n} /\ insp' = n
    BY <1>5
  <2>2. InfoInv'
    BY <1>2, <2>1, PoolFrame
  <2>3. HoldsInv'
    BY <1>2, <2>1 DEF HoldsInv, pool
  <2>4. TurnInv'
    BY <1>2, <2>1 DEF TurnInv, OneTaskPerInspector, lists, TypeOK
  <2> QED
    BY <1>1, <1>3, <1>4, <2>2, <2>3, <2>4
<1>6. CASE free_list # {}
  <2>1. PICK i \in free_list :
          /\ src' = "queue" /\ info' = i
          /\ free_list' = free_list \ {i}
          /\ alloc_list' = alloc_list \cup {i}
          /\ inspector' = [inspector EXCEPT ![i] = n]
    BY <1>6
  <2>2. i \in Infos /\ i # None /\ i \notin alloc_list /\ info = None
    BY <1>2, InspSchedAssumption DEF TypeOK, InfoInv, HoldsInv, InspSchedAssumption
  <2>4. InfoInv'
    BY <1>2, <2>1, <2>2, HandOut
  <2>5. HoldsInv'
    BY <1>2, <2>1, <2>2 DEF HoldsInv, pool
  <2>6. TurnInv'
    <3>1. ~broken => \A j \in alloc_list : inspector[j] # n /\ inspector'[j] = inspector[j]
      BY <2>1, <2>2 DEF TurnInv, TypeOK
    <3>2. inspector'[i] = n
      BY <2>1, <2>2 DEF TypeOK
    <3> QED
      BY <1>2, <2>1, <2>2, <3>1, <3>2 DEF TurnInv, OneTaskPerInspector
  <2> QED
    BY <1>1, <1>3, <1>4, <2>4, <2>5, <2>6
<1> QED
  BY <1>5, <1>6

LEMMA NewInfoInv ==
  ASSUME Inv, suscan_inspector_task_info_new
  PROVE  Inv'
<1> USE DEF Inv
<1> DEFINE i == info'
<1>1. /\ src = "calloc" /\ src' = "queue" /\ i \in Heap
      /\ alloc_list' = alloc_list \cup {i} /\ free_list' = free_list
      /\ inspector' = [inspector EXCEPT ![i] = insp]
      /\ todo' = todo /\ UNCHANGED <<insp, last_worker, index, pool, faults>>
  BY DEF suscan_inspector_task_info_new
<1> HIDE DEF i
<1>2. i \in Infos /\ i # None /\ i \notin alloc_list /\ i \notin free_list /\ info = None
  BY <1>1, InspSchedAssumption DEF TypeOK, HoldsInv, Heap, InspSchedAssumption
<1>3. TypeOK'
  BY <1>1, <1>2 DEF TypeOK, Sites, Workers, pool, faults, i
<1>4. BarrierInv' /\ QuietInv'
  BY <1>1, NoBarrier, BarrierFrame DEF QuietInv, faults
<1>6. InfoInv'
  BY <1>1, <1>2, HandOut DEF i
<1>7. HoldsInv'
  BY <1>1, <1>2 DEF HoldsInv, pool, i
<1>8. TurnInv'
  <2>1. ~broken => \A j \in alloc_list : inspector[j] # insp /\ inspector'[j] = inspector[j]
    BY <1>1, <1>2 DEF TurnInv, TypeOK
  <2>2. inspector'[i] = insp
    BY <1>1, <1>2 DEF TypeOK
  <2> QED
    BY <1>1, <1>2, <2>1, <2>2 DEF TurnInv, OneTaskPerInspector, faults
<1> QED
  BY <1>3, <1>4, <1>6, <1>7, <1>8

LEMMA QueueTaskInv ==
  ASSUME Inv, suscan_inspsched_queue_task
  PROVE  Inv'
<1> USE DEF Inv
<1> DEFINE w == last_worker
<1>1. /\ src = "queue" /\ src' = "feed" /\ info' = None
      /\ queue' = [queue EXCEPT ![w] = Append(@, info)]
      /\ UNCHANGED <<todo, insp, lists, index, worker, task, faults>>
      /\ w \in Workers /\ info \in Infos /\ info # None
  BY DEF suscan_inspsched_queue_task, TypeOK, HoldsInv
<1> HIDE DEF w
<1>2. ~InQueue(w, info)
  BY <1>1 DEF InfoInv
<1>3. /\ queue' \in [Workers -> Seq(Infos \cup {BARRIER})]
      /\ \A v \in Workers : v # w => queue'[v] = queue[v]
      /\ \A v \in Workers : \A i : InQueue(v, i)' <=> InQueue(v, i) \/ (v = w /\ i = info)
      /\ Once(queue'[w], BARRIER)
  BY <1>1, <1>2, PushFacts DEF InfoInv
<1>4. TypeOK'
  <2>1. last_worker' \in Workers
    BY InspSchedAssumption
    DEF suscan_inspsched_queue_task, TypeOK, Workers, InspSchedAssumption
  <2> QED
    BY <1>1, <1>3, <2>1 DEF TypeOK, Sites, lists, faults
<1>5. HoldsInv'
  BY <1>1 DEF HoldsInv
<1>6. BarrierInv'
  BY <1>1, <1>3, InspSchedAssumption
  DEF BarrierInv, HasBarrier, Unbarred, faults, InspSchedAssumption
<1>7. QuietInv' /\ TurnInv'
  BY <1>1 DEF QuietInv, TurnInv, OneTaskPerInspector, lists, faults
<1>8. InfoInv'
  <2>1. /\ \A v \in Workers : Once(queue'[v], BARRIER)
        /\ \A v \in Workers : ~InQueue(v, info) /\ task[v] # info
    BY <1>1, <1>3 DEF InfoInv
  <2>2. \A i \in Infos : i # None
    BY InspSchedAssumption DEF InspSchedAssumption
  <2> QED
    BY <1>1, <1>3, <2>1, <2>2 DEF InfoInv, lists
<1> QED
  BY <1>4, <1>5, <1>6, <1>7, <1>8

\* The info goes back to the free list.
LEMMA QueueFailsInv ==
  ASSUME Inv, QueueFails
  PROVE  Inv'
<1> USE DEF Inv
<1>1. /\ src = "queue" /\ src' = "feed" /\ info' = None
      /\ alloc_list' = alloc_list \ {info} /\ free_list' = free_list \cup {info}
      /\ UNCHANGED <<todo, insp, inspector, pool, broken>>
      /\ info \in Infos /\ info # None
  BY DEF QueueFails, TypeOK, HoldsInv
<1>2. TypeOK'
  BY <1>1, InspSchedAssumption
  DEF QueueFails, MayFail, TypeOK, Sites, Workers, pool, InspSchedAssumption
<1>3. HoldsInv'
  BY <1>1 DEF HoldsInv, pool
<1>4. BarrierInv' /\ QuietInv'
  BY <1>1, NoBarrier, BarrierFrame DEF QuietInv
<1>5. TurnInv'
  BY <1>1 DEF TurnInv, OneTaskPerInspector
<1>6. InfoInv'
  <2>1. \A i \in Infos : i # None
    BY InspSchedAssumption DEF InspSchedAssumption
  <2> QED
    BY <1>1, <2>1 DEF InfoInv, InQueue, pool
<1> QED
  BY <1>2, <1>3, <1>4, <1>5, <1>6

-----------------------------------------------------------------------------
(* The source worker: the barrier *)

\* A barrier behind tasks, and what is left of such a queue when it is popped.
LastOnly(s) == s # <<>> /\ \A k \in 1 .. Len(s) : s[k] = BARRIER <=> k = Len(s)

LEMMA AppendBarrier ==
  ASSUME NEW s \in Seq(Infos \cup {BARRIER}), BARRIER \notin ToSet(s)
  PROVE  LastOnly(Append(s, BARRIER))
<1> DEFINE r == Append(s, BARRIER)
<1>1. /\ Len(r) = Len(s) + 1 /\ r[Len(s) + 1] = BARRIER /\ Len(s) \in Nat /\ r # <<>>
      /\ \A j \in 1 .. Len(s) : r[j] = s[j]
  BY AppendFacts
<1> HIDE DEF r
<1>2. \A j \in 1 .. Len(s) : s[j] # BARRIER
  BY ToSetFacts
<1>3. \A k \in 1 .. Len(r) : k = Len(r) \/ k \in 1 .. Len(s)
  BY <1>1
<1>4. LastOnly(r)
  BY <1>1, <1>2, <1>3 DEF LastOnly
<1> QED
  BY <1>4 DEF r

LEMMA TailOfBarred ==
  ASSUME NEW s \in Seq(Infos \cup {BARRIER}), LastOnly(s)
  PROVE  IF Head(s) = BARRIER THEN Tail(s) = <<>> ELSE LastOnly(Tail(s))
<1> DEFINE r == Tail(s)
<1>1. /\ r \in Seq(Infos \cup {BARRIER})
      /\ Len(r) = Len(s) - 1 /\ Len(s) > 0 /\ Len(s) \in Nat
      /\ \A j \in 1 .. (Len(s) - 1) : r[j] = s[j + 1]
  BY TailFacts DEF LastOnly
<1>2. Head(s) = s[1] /\ 1 \in 1 .. Len(s)
  BY <1>1
<1>3. Head(s) = BARRIER <=> Len(s) = 1
  BY <1>2 DEF LastOnly
<1> HIDE DEF r
<1>4. CASE Len(s) = 1
  <2>1. Len(r) = 0
    BY <1>1, <1>4
  <2>2. r = <<>>
    BY <1>1, <2>1
  <2> QED
    BY <1>3, <1>4, <2>2 DEF r
<1>5. CASE Len(s) # 1
  <2>1. Len(r) # 0
    BY <1>1, <1>5
  <2>2. r # <<>>
    BY <2>1
  <2>3. ASSUME NEW k \in 1 .. Len(r)
        PROVE  r[k] = BARRIER <=> k = Len(r)
    <3>1. r[k] = s[k + 1] /\ k + 1 \in 1 .. Len(s)
      BY <1>1
    <3>2. s[k + 1] = BARRIER <=> k + 1 = Len(s)
      BY <3>1 DEF LastOnly
    <3> QED
      BY <1>1, <3>1, <3>2
  <2>4. LastOnly(r)
    BY <2>2, <2>3 DEF LastOnly
  <2> QED
    BY <1>3, <1>5, <2>4 DEF r
<1> QED
  BY <1>4, <1>5

\* All is fed, or the barriers are all queued, or one of them cannot be.
LEMMA SyncMoveInv ==
  ASSUME Inv, Fed \/ WaitForWorkers \/ PushBarrierFails
  PROVE  Inv'
<1> USE DEF Inv
<1>1. /\ UNCHANGED <<lists, pool, info, todo>>
      /\ src \in {"feed", "sync"} /\ src' \in {"sync", "barrier", "ack"}
  BY DEF Fed, WaitForWorkers, PushBarrierFails, feeding
<1>2. TypeOK'
  <2>1. index' \in 0 .. WorkerCount
    BY InspSchedAssumption
    DEF InspSchedAssumption, TypeOK, Fed, WaitForWorkers, PushBarrierFails
  <2>2. broken' \in BOOLEAN
    BY DEF TypeOK, Fed, WaitForWorkers, PushBarrierFails, faults
  <2>3. failures' = failures \/ MayFail
    BY DEF Fed, WaitForWorkers, PushBarrierFails, faults
  <2>4. failures' \in 0 .. MaxFailures
    BY <2>3, InspSchedAssumption DEF InspSchedAssumption, TypeOK, MayFail
  <2>5. UNCHANGED <<insp, last_worker>>
    BY DEF Fed, WaitForWorkers, PushBarrierFails, feeding
  <2> QED
    BY <1>1, <2>1, <2>2, <2>4, <2>5 DEF TypeOK, Sites, lists, pool
<1>3. HoldsInv' /\ InfoInv'
  BY <1>1, PoolFrame DEF HoldsInv, pool
<1>4. CASE Fed
  <2>1. src = "feed" /\ src' = "sync" /\ index' = 0 /\ broken' = broken
    BY <1>4 DEF Fed, faults
  <2>2. \A w \in Workers : HasBarrier(w)' <=> HasBarrier(w)
    BY <2>1, InspSchedAssumption DEF HasBarrier, Workers, InspSchedAssumption
  <2> QED
    BY <1>1, <1>2, <1>3, <2>1, <2>2, BarrierFrame
    DEF QuietInv, TurnInv, OneTaskPerInspector, lists
<1>5. CASE WaitForWorkers
  <2>1. /\ src = "sync" /\ src' = "barrier" /\ index = WorkerCount
        /\ index' = index /\ broken' = broken
    BY <1>5 DEF WaitForWorkers, faults
  <2>2. \A w \in Workers : HasBarrier(w)' <=> HasBarrier(w)
    BY <2>1, InspSchedAssumption DEF HasBarrier, Workers, InspSchedAssumption
  <2> QED
    BY <1>1, <1>2, <1>3, <2>1, <2>2, BarrierFrame
    DEF QuietInv, TurnInv, OneTaskPerInspector, lists
<1>6. CASE PushBarrierFails
  BY <1>2, <1>3, <1>6 DEF PushBarrierFails, BarrierInv, QuietInv, TurnInv
<1> QED
  BY <1>4, <1>5, <1>6

LEMMA PushBarrierInv ==
  ASSUME Inv, PushBarrier
  PROVE  Inv'
<1> USE DEF Inv
<1>1. /\ src = "sync" /\ src' = "sync" /\ index < WorkerCount /\ index' = index + 1
      /\ queue' = [queue EXCEPT ![index] = Append(@, BARRIER)]
      /\ UNCHANGED <<feeding, lists, worker, task, faults>>
      /\ index \in Workers
  BY InspSchedAssumption DEF PushBarrier, TypeOK, Workers, InspSchedAssumption
<1>2. /\ queue' \in [Workers -> Seq(Infos \cup {BARRIER})]
      /\ \A v \in Workers : v # index => queue'[v] = queue[v]
      /\ \A v \in Workers : \A i :
           InQueue(v, i)' <=> InQueue(v, i) \/ (v = index /\ i = BARRIER)
  BY <1>1, PushFacts
<1>3. TypeOK' /\ HoldsInv'
  BY <1>1, <1>2, InspSchedAssumption
  DEF TypeOK, HoldsInv, Sites, Workers, feeding, lists, faults, InspSchedAssumption
<1>4. QuietInv' /\ TurnInv'
  BY <1>1 DEF QuietInv, TurnInv, OneTaskPerInspector, feeding, lists, faults
<1>5. Once(queue'[index], BARRIER)
  <2>1. queue[index] \in Seq(Infos \cup {BARRIER}) /\ Once(queue[index], BARRIER)
    BY <1>1 DEF TypeOK, InfoInv
  <2>2. queue'[index] = Append(queue[index], BARRIER)
    BY <1>1 DEF TypeOK
  <2> QED
    BY <2>1, <2>2, OnceAppend
<1>6. InfoInv'
  <2>1. \A v \in Workers : \A i \in Infos : InQueue(v, i)' <=> InQueue(v, i)
    BY <1>2, InspSchedAssumption DEF InspSchedAssumption
  <2>2. \A v \in Workers : Once(queue'[v], BARRIER)
    BY <1>2, <1>5 DEF InfoInv
  <2>3. UNCHANGED <<info, task, free_list, alloc_list>>
    BY <1>1 DEF feeding, lists
  <2>4. \A i \in Infos : i \in alloc_list' <=>
          i = info' \/ \E w \in Workers : task'[w] = i \/ InQueue(w, i)'
    BY <1>1, <2>1, <2>3 DEF InfoInv
  <2>5. /\ \A v, w \in Workers : \A i \in Infos : InQueue(v, i)' /\ InQueue(w, i)' => v = w
        /\ \A v, w \in Workers : \A i \in Infos : task'[v] = i => ~InQueue(w, i)'
        /\ \A w \in Workers : \A i \in Infos :
             info' = i => ~InQueue(w, i)' /\ task'[w] # i
    BY <2>1, <2>3 DEF InfoInv
  <2>6. /\ free_list' \cap alloc_list' = {}
        /\ \A v, w \in Workers : task'[v] = task'[w] => v = w \/ task'[v] = None
    BY <2>3 DEF InfoInv
  <2> QED
    BY <2>2, <2>4, <2>5, <2>6 DEF InfoInv
<1>7. BarrierInv'
  <2>1. SUFFICES ASSUME ~broken, NEW w \in Workers
                 PROVE  IF HasBarrier(w)' THEN Barred(w)' ELSE Unbarred(w)'
    BY <1>1 DEF BarrierInv, faults
  <2>2. CASE w = index
    <3>1. HasBarrier(w)' /\ ~HasBarrier(w)
      BY <1>1, <2>2 DEF HasBarrier, Workers
    <3>2. worker[w] # "barrier" /\ BARRIER \notin ToSet(queue[w])
      BY <2>1, <3>1 DEF BarrierInv, Unbarred, InQueue
    <3>3. queue[w] \in Seq(Infos \cup {BARRIER}) /\ queue'[w] = Append(queue[w], BARRIER)
      BY <1>1, <2>2 DEF TypeOK
    <3>4. LastOnly(queue'[w])
      BY <3>2, <3>3, AppendBarrier
    <3> QED
      BY <1>1, <3>1, <3>2, <3>4 DEF Barred, LastOnly
  <2>3. CASE w # index
    <3>1. HasBarrier(w)' <=> HasBarrier(w)
      BY <1>1, <2>3 DEF HasBarrier, Workers
    <3>2. queue'[w] = queue[w] /\ worker'[w] = worker[w]
      BY <1>1, <1>2, <2>3
    <3> QED
      BY <2>1, <3>1, <3>2 DEF BarrierInv, Barred, Unbarred, InQueue
  <2> QED
    BY <2>2, <2>3
<1> QED
  BY <1>3, <1>4, <1>6, <1>7

\* Everybody is at the barrier, and goes on.
LEMMA BarrierWaitInv ==
  ASSUME Inv, pthread_barrier_wait
  PROVE  Inv'
<1> USE DEF Inv
<1>1. /\ src = "barrier" /\ src' = "ack" /\ \A w \in Workers : worker[w] = "barrier"
      /\ worker' = [w \in Workers |-> "ready"]
      /\ UNCHANGED <<feeding, lists, index, queue, task, faults>>
  BY DEF pthread_barrier_wait
<1>2. UNCHANGED <<info, todo, insp, last_worker, free_list, alloc_list, inspector,
                  failures, broken>>
  BY <1>1 DEF feeding, lists, faults
<1>3. TypeOK'
  BY <1>1, <1>2 DEF TypeOK, Sites
<1>4. \A w \in Workers : task[w] = None
  BY <1>1 DEF HoldsInv
<1>5. HoldsInv'
  BY <1>1, <1>2, <1>4 DEF HoldsInv
<1>6. InfoInv'
  BY <1>1, <1>2 DEF InfoInv, InQueue
<1>7. ~broken => \A w \in Workers : queue[w] = <<>>
  BY <1>1 DEF BarrierInv, HasBarrier, Barred
<1>8. QuietInv'
  BY <1>1, <1>2, <1>4, <1>7 DEF QuietInv
<1>9. BarrierInv'
  <2>1. ~broken => \A w \in Workers : ~InQueue(w, BARRIER)
    BY <1>7, EmptyQueue
  <2> QED
    BY <1>1, <1>2, <2>1 DEF BarrierInv, HasBarrier, Unbarred, InQueue
<1>10. TurnInv'
  BY <1>1, <1>2 DEF TurnInv, OneTaskPerInspector
<1> QED
  BY <1>3, <1>5, <1>6, <1>8, <1>9, <1>10

-----------------------------------------------------------------------------
(* The end of the scheduler *)

LEMMA HaltWorkerInv ==
  ASSUME Inv, HaltWorker
  PROVE  Inv'
<1> USE DEF Inv
<1>1. /\ src = "destroy" /\ src' = src /\ worker[index] = "ready" /\ index' = index + 1
      /\ worker' = [worker EXCEPT ![index] = "halted"]
      /\ queue' = [queue EXCEPT ![index] = <<>>]
      /\ index \in Workers
      /\ UNCHANGED <<feeding, lists, task, faults>>
  BY InspSchedAssumption DEF HaltWorker, TypeOK, Workers, InspSchedAssumption
<1>2. UNCHANGED <<info, todo, insp, last_worker, free_list, alloc_list, inspector,
                  failures, broken>>
  BY <1>1 DEF feeding, lists, faults
<1>3. /\ \A w \in Workers : queue'[w] = IF w = index THEN <<>> ELSE queue[w]
      /\ \A w \in Workers : worker'[w] = IF w = index THEN "halted" ELSE worker[w]
  BY <1>1 DEF TypeOK
<1>4. \A w \in Workers : \A i : InQueue(w, i)' => InQueue(w, i)
  BY <1>3 DEF InQueue, ToSet
<1>5. \A w \in Workers : Once(queue'[w], BARRIER)
  BY <1>3 DEF InfoInv, Once
<1>6. TypeOK'
  BY <1>1, <1>2, InspSchedAssumption DEF TypeOK, Sites, Workers, InspSchedAssumption
<1>7. HoldsInv'
  BY <1>1, <1>2, <1>3 DEF HoldsInv
<1>8. InfoInv'
  BY <1>1, <1>2, <1>4, <1>5 DEF InfoInv
<1>9. BarrierInv'
  BY <1>1, <1>2, <1>3, <1>4 DEF BarrierInv, HasBarrier, Unbarred
<1>10. QuietInv'
  BY <1>1, <1>2, <1>3 DEF QuietInv
<1>11. TurnInv'
  BY <1>1, <1>2 DEF TurnInv, OneTaskPerInspector
<1> QED
  BY <1>6, <1>7, <1>8, <1>9, <1>10, <1>11

LEMMA DestroyInv ==
  ASSUME Inv, suscan_inspsched_destroy
  PROVE  Inv'
<1> USE DEF Inv
<1>1. /\ src = "destroy" /\ src' = "gone" /\ free_list' = {} /\ alloc_list' = {}
      /\ UNCHANGED <<feeding, inspector, index, pool, faults>>
  BY DEF suscan_inspsched_destroy
<1>2. UNCHANGED <<info, todo, insp, last_worker, queue, worker, task, failures, broken>>
  BY <1>1 DEF feeding, pool, faults
<1>3. TypeOK'
  BY <1>1, <1>2 DEF TypeOK, Sites
<1>4. HoldsInv' /\ InfoInv'
  BY <1>1, <1>2 DEF HoldsInv, InfoInv, InQueue
<1>5. BarrierInv' /\ QuietInv'
  BY <1>1, <1>2, NoBarrier, BarrierFrame DEF QuietInv, pool
<1>6. TurnInv'
  BY <1>1 DEF TurnInv, OneTaskPerInspector
<1> QED
  BY <1>3, <1>4, <1>5, <1>6

-----------------------------------------------------------------------------
(* The workers *)

\* A worker with its barrier has nothing queued behind it.
LEMMA BarredParts ==
  ASSUME NEW w \in Workers, Barred(w), worker[w] # "barrier"
  PROVE  LastOnly(queue[w])
  BY DEF Barred, LastOnly

LEMMA TakeTaskInv ==
  ASSUME Inv, NEW w \in Workers, TakeTask(w)
  PROVE  Inv'
<1> USE DEF Inv
<1> DEFINE i == Head(queue[w])
<1>1. /\ worker[w] = "ready" /\ queue[w] # <<>> /\ i # BARRIER
      /\ queue' = [queue EXCEPT ![w] = Tail(@)]
      /\ worker' = [worker EXCEPT ![w] = "task"]
      /\ task' = [task EXCEPT ![w] = i]
      /\ UNCHANGED <<src, feeding, lists, index, faults>>
      /\ Once(queue[w], BARRIER)
  BY DEF TakeTask, InfoInv
<1>2. /\ queue' \in [Workers -> Seq(Infos \cup {BARRIER})]
      /\ queue'[w] = Tail(queue[w])
      /\ \A v \in Workers : v # w => queue'[v] = queue[v]
      /\ InQueue(w, i) /\ i \in Infos \cup {BARRIER}
      /\ \A j : InQueue(w, j) <=> InQueue(w, j)' \/ j = i
      /\ \A v \in Workers \ {w} : \A j : InQueue(v, j)' <=> InQueue(v, j)
      /\ Once(queue'[w], BARRIER)
      /\ i # BARRIER => i \notin ToSet(queue'[w])
  BY <1>1, PopFacts
<1> HIDE DEF i
<1>3. UNCHANGED <<info, todo, insp, last_worker, free_list, alloc_list, inspector,
                  failures, broken>>
  BY <1>1 DEF feeding, lists, faults
<1>4. /\ \A v \in Workers : task'[v] = IF v = w THEN i ELSE task[v]
      /\ \A v \in Workers : worker'[v] = IF v = w THEN "task" ELSE worker[v]
      /\ i \in Infos /\ i # None
  BY <1>1, <1>2, InspSchedAssumption DEF TypeOK, InspSchedAssumption
<1>5. TypeOK'
  BY <1>1, <1>2, <1>3, <1>4 DEF TypeOK
<1>6. HoldsInv'
  BY <1>1, <1>3, <1>4 DEF HoldsInv
<1>7. InfoInv'
  <2>1. \A v \in Workers : i \notin ToSet(queue'[v])
    <3>1. \A v \in Workers : v # w => i \notin ToSet(queue[v])
      BY <1>2, <1>4 DEF InfoInv, InQueue
    <3> QED
      BY <1>1, <1>2, <3>1
  <2>2. \A v \in Workers : task[v] # i
    BY <1>2, <1>4 DEF InfoInv
  <2>3. info # i
    BY <1>2, <1>4 DEF InfoInv
  <2>4. \A v \in Workers : \A j \in Infos : j # i => (InQueue(v, j)' <=> InQueue(v, j))
    BY <1>2
  <2>5. \A v \in Workers : Once(queue'[v], BARRIER)
    BY <1>2 DEF InfoInv
  <2>6. \A u, v \in Workers : \A j \in Infos : InQueue(u, j)' /\ InQueue(v, j)' => u = v
    BY <2>1, <2>4 DEF InfoInv, InQueue
  <2>7. \A u, v \in Workers : task'[u] = task'[v] => u = v \/ task'[u] = None
    BY <1>4, <2>2 DEF InfoInv
  <2>8. \A u, v \in Workers : \A j \in Infos : task'[u] = j => ~InQueue(v, j)'
    <3>1. \A v \in Workers : \A j \in Infos : j # i => (InQueue(v, j)' => InQueue(v, j))
      BY <2>4
    <3> SUFFICES ASSUME NEW u \in Workers, NEW v \in Workers, NEW j \in Infos, task'[u] = j
                 PROVE  ~InQueue(v, j)'
      OBVIOUS
    <3>3. CASE j = i
      BY <2>1, <3>3 DEF InQueue
    <3>4. CASE j # i
      BY <1>4, <3>1, <3>4 DEF InfoInv
    <3> QED
      BY <3>3, <3>4
  <2>9. \A v \in Workers : \A j \in Infos : info' = j => ~InQueue(v, j)' /\ task'[v] # j
    BY <1>3, <1>4, <2>3, <2>4 DEF InfoInv
  <2>10. ASSUME src \notin {"destroy", "gone"}, NEW j \in Infos
         PROVE  j \in alloc_list <=>
                  j = info \/ \E v \in Workers : task'[v] = j \/ InQueue(v, j)'
    <3>1. j \in alloc_list <=> j = info \/ \E v \in Workers : task[v] = j \/ InQueue(v, j)
      BY <2>10 DEF InfoInv
    <3>2. CASE j = i
      BY <1>2, <1>4, <3>1, <3>2
    <3>3. CASE j # i
      <4>1. worker[w] # "task" /\ task[w] = None /\ j # None
        BY <1>1, InspSchedAssumption DEF HoldsInv, InspSchedAssumption
      <4>2. \A v \in Workers : task'[v] = j <=> task[v] = j
        BY <1>4, <3>3, <4>1
      <4> QED
        BY <2>4, <3>1, <3>3, <4>2
    <3> QED
      BY <3>2, <3>3
  <2>11. free_list' \cap alloc_list' = {}
    BY <1>3 DEF InfoInv
  <2> QED
    BY <1>1, <1>3, <2>5, <2>6, <2>7, <2>8, <2>9, <2>10, <2>11 DEF InfoInv
<1>8. BarrierInv'
  <2>1. SUFFICES ASSUME ~broken, NEW v \in Workers
                 PROVE  IF HasBarrier(v) THEN Barred(v)' ELSE Unbarred(v)'
    BY <1>1, <1>3 DEF BarrierInv, HasBarrier
  <2>2. IF HasBarrier(v) THEN Barred(v) ELSE Unbarred(v)
    BY <2>1 DEF BarrierInv
  <2>3. CASE v # w
    <3>1. queue'[v] = queue[v] /\ worker'[v] = worker[v]
      BY <1>2, <1>4, <2>3
    <3> QED
      BY <2>2, <3>1 DEF Barred, Unbarred, InQueue
  <2>4. CASE v = w /\ HasBarrier(w)
    <3>1. LastOnly(queue[w]) /\ queue[w] \in Seq(Infos \cup {BARRIER})
      BY <1>1, <2>2, <2>4, BarredParts DEF TypeOK
    <3>2. LastOnly(Tail(queue[w]))
      BY <1>1, <3>1, TailOfBarred DEF i
    <3> QED
      BY <1>2, <1>4, <2>4, <3>2 DEF Barred, LastOnly
  <2>5. CASE v = w /\ ~HasBarrier(w)
    <3>1. ~InQueue(w, BARRIER)
      BY <2>2, <2>5 DEF Unbarred
    <3> QED
      BY <1>2, <1>4, <2>5, <3>1 DEF Unbarred
  <2> QED
    BY <2>3, <2>4, <2>5
<1>9. QuietInv'
  BY <1>1, <1>3 DEF QuietInv
<1>10. TurnInv'
  BY <1>1, <1>3 DEF TurnInv, OneTaskPerInspector
<1> QED
  BY <1>5, <1>6, <1>7, <1>8, <1>9, <1>10

LEMMA ReturnTaskInv ==
  ASSUME Inv, NEW w \in Workers, suscan_inspsched_return_task_info(w)
  PROVE  Inv'
<1> USE DEF Inv
<1> DEFINE i == task[w]
<1>1. /\ worker[w] = "task"
      /\ alloc_list' = alloc_list \ {i} /\ free_list' = free_list \cup {i}
      /\ worker' = [worker EXCEPT ![w] = "ready"]
      /\ task' = [task EXCEPT ![w] = None]
      /\ UNCHANGED <<src, feeding, inspector, index, queue, faults>>
  BY DEF suscan_inspsched_return_task_info
<1>2. i \in Infos /\ i # None
  BY <1>1 DEF HoldsInv, TypeOK
<1>3. UNCHANGED <<info, todo, insp, last_worker, inspector, failures, broken>>
  BY <1>1 DEF feeding, faults
<1>4. /\ \A v \in Workers : task'[v] = IF v = w THEN None ELSE task[v]
      /\ \A v \in Workers : worker'[v] = IF v = w THEN "ready" ELSE worker[v]
  BY <1>1 DEF TypeOK
<1>5. \A v \in Workers : task[v] = i <=> v = w
  BY <1>2 DEF InfoInv
<1>6. info # i /\ \A v \in Workers : ~(i \in ToSet(queue[v]))
  BY <1>2 DEF InfoInv, InQueue
<1> HIDE DEF i
<1>7. TypeOK'
  BY <1>1, <1>2, <1>3 DEF TypeOK
<1>8. HoldsInv'
  BY <1>1, <1>3, <1>4 DEF HoldsInv
<1>9. \A v \in Workers : \A j : InQueue(v, j)' <=> InQueue(v, j)
  BY <1>1 DEF InQueue
<1>10. \A j \in Infos : j # None
  BY InspSchedAssumption DEF InspSchedAssumption
<1>11. InfoInv'
  <2>1. free_list' \cap alloc_list' = {}
    BY <1>1 DEF InfoInv
  <2>2. /\ \A v \in Workers : Once(queue'[v], BARRIER)
        /\ \A u, v \in Workers : \A j \in Infos : InQueue(u, j)' /\ InQueue(v, j)' => u = v
    BY <1>1, <1>9 DEF InfoInv
  <2>3. \A u, v \in Workers : task'[u] = task'[v] => u = v \/ task'[u] = None
    BY <1>4 DEF InfoInv
  <2>4. \A u, v \in Workers : \A j \in Infos : task'[u] = j => ~InQueue(v, j)'
    BY <1>4, <1>9, <1>10 DEF InfoInv
  <2>5. \A v \in Workers : \A j \in Infos : info' = j => ~InQueue(v, j)' /\ task'[v] # j
    BY <1>3, <1>4, <1>9, <1>10 DEF InfoInv
  <2>6. ASSUME src \notin {"destroy", "gone"}, NEW j \in Infos
        PROVE  j \in alloc_list' <=>
                 j = info \/ \E v \in Workers : task'[v] = j \/ InQueue(v, j)'
    <3>1. j \in alloc_list <=> j = info \/ \E v \in Workers : task[v] = j \/ InQueue(v, j)
      BY <2>6 DEF InfoInv
    <3>2. CASE j = i
      <4>1. \A v \in Workers : task'[v] # i /\ ~InQueue(v, j)'
        BY <1>2, <1>4, <1>5, <1>6, <1>9, <3>2 DEF InQueue
      <4> QED
        BY <1>1, <1>6, <3>2, <4>1
    <3>3. CASE j # i
      <4>1. \A v \in Workers : task'[v] = j <=> task[v] = j
        BY <1>4, <1>5, <1>10, <3>3
      <4> QED
        BY <1>1, <1>9, <3>1, <3>3, <4>1
    <3> QED
      BY <3>2, <3>3
  <2> QED
    BY <1>1, <1>3, <2>1, <2>2, <2>3, <2>4, <2>5, <2>6 DEF InfoInv
<1>12. BarrierInv'
  <2>1. \A v \in Workers : worker'[v] = "barrier" <=> worker[v] = "barrier"
    BY <1>1, <1>4
  <2> QED
    BY <1>1, <1>3, <2>1 DEF BarrierInv, HasBarrier, Barred, Unbarred, InQueue
<1>13. QuietInv'
  BY <1>1, <1>2, <1>3 DEF QuietInv, i
<1>14. TurnInv'
  BY <1>1, <1>3 DEF TurnInv, OneTaskPerInspector
<1> QED
  BY <1>7, <1>8, <1>11, <1>12, <1>13, <1>14

LEMMA BarrierCbInv ==
  ASSUME Inv, NEW w \in Workers, suscan_inpsched_barrier_cb(w)
  PROVE  Inv'
<1> USE DEF Inv
<1>1. /\ worker[w] = "ready" /\ queue[w] # <<>> /\ Head(queue[w]) = BARRIER
      /\ queue' = [queue EXCEPT ![w] = Tail(@)]
      /\ worker' = [worker EXCEPT ![w] = "barrier"]
      /\ UNCHANGED <<src, feeding, lists, index, task, faults>>
      /\ Once(queue[w], BARRIER)
  BY DEF suscan_inpsched_barrier_cb, InfoInv
<1>2. /\ queue' \in [Workers -> Seq(Infos \cup {BARRIER})]
      /\ queue'[w] = Tail(queue[w])
      /\ \A v \in Workers : v # w => queue'[v] = queue[v]
      /\ InQueue(w, BARRIER)
      /\ \A j : InQueue(w, j) <=> InQueue(w, j)' \/ j = BARRIER
      /\ \A v \in Workers \ {w} : \A j : InQueue(v, j)' <=> InQueue(v, j)
      /\ Once(queue'[w], BARRIER)
  BY <1>1, PopFacts
<1>3. UNCHANGED <<info, todo, insp, last_worker, free_list, alloc_list, inspector,
                  failures, broken>>
  BY <1>1 DEF feeding, lists, faults
<1>4. \A v \in Workers : worker'[v] = IF v = w THEN "barrier" ELSE worker[v]
  BY <1>1 DEF TypeOK
<1>5. TypeOK'
  BY <1>1, <1>2, <1>3 DEF TypeOK
<1>6. HoldsInv'
  BY <1>1, <1>3, <1>4 DEF HoldsInv
<1>7. InfoInv'
  <2>1. \A v \in Workers : \A j \in Infos : InQueue(v, j)' <=> InQueue(v, j)
    BY <1>2, InspSchedAssumption DEF InspSchedAssumption
  <2>2. \A v \in Workers : Once(queue'[v], BARRIER)
    BY <1>2 DEF InfoInv
  <2>3. src \notin {"destroy", "gone"} =>
          \A i \in Infos : i \in alloc_list' <=>
            i = info' \/ \E v \in Workers : task'[v] = i \/ InQueue(v, i)'
    BY <1>1, <1>3, <2>1 DEF InfoInv
  <2>4. /\ \A u, v \in Workers : \A i \in Infos : InQueue(u, i)' /\ InQueue(v, i)' => u = v
        /\ \A u, v \in Workers : \A i \in Infos : task'[u] = i => ~InQueue(v, i)'
        /\ \A v \in Workers : \A i \in Infos :
             info' = i => ~InQueue(v, i)' /\ task'[v] # i
    BY <1>1, <1>3, <2>1 DEF InfoInv
  <2>5. /\ free_list' \cap alloc_list' = {}
        /\ \A u, v \in Workers : task'[u] = task'[v] => u = v \/ task'[u] = None
    BY <1>1, <1>3 DEF InfoInv
  <2> QED
    BY <1>1, <2>2, <2>3, <2>4, <2>5 DEF InfoInv
<1>8. BarrierInv'
  <2>1. SUFFICES ASSUME ~broken, NEW v \in Workers
                 PROVE  IF HasBarrier(v) THEN Barred(v)' ELSE Unbarred(v)'
    BY <1>1, <1>3 DEF BarrierInv, HasBarrier
  <2>2. IF HasBarrier(v) THEN Barred(v) ELSE Unbarred(v)
    BY <2>1 DEF BarrierInv
  <2>3. CASE v # w
    <3>1. queue'[v] = queue[v] /\ worker'[v] = worker[v]
      BY <1>2, <1>4, <2>3
    <3> QED
      BY <2>2, <3>1 DEF Barred, Unbarred, InQueue
  <2>4. CASE v = w
    <3>1. HasBarrier(w)
      BY <1>2, <2>2, <2>4 DEF Unbarred
    <3>2. LastOnly(queue[w]) /\ queue[w] \in Seq(Infos \cup {BARRIER})
      BY <1>1, <2>2, <2>4, <3>1, BarredParts DEF TypeOK
    <3>3. Tail(queue[w]) = <<>>
      BY <1>1, <3>2, TailOfBarred
    <3> QED
      BY <1>2, <1>4, <2>4, <3>1, <3>3 DEF Barred
  <2> QED
    BY <2>3, <2>4
<1>9. QuietInv'
  BY <1>1, <1>3 DEF QuietInv
<1>10. TurnInv'
  BY <1>1, <1>3 DEF TurnInv, OneTaskPerInspector
<1> QED
  BY <1>5, <1>6, <1>7, <1>8, <1>9, <1>10

-----------------------------------------------------------------------------
(* The theorems *)

LEMMA StutterInv ==
  ASSUME Inv, UNCHANGED vars
  PROVE  Inv'
<1>1. UNCHANGED <<src, todo, insp, info, free_list, alloc_list, inspector, last_worker,
                  index, queue, worker, task, failures, broken>>
  BY DEF vars
<1> QED
  BY <1>1
  DEF Inv, TypeOK, HoldsInv, InfoInv, BarrierInv, QuietInv, TurnInv, OneTaskPerInspector,
      InQueue, HasBarrier, Barred, Unbarred

LEMMA StepInv == Inv /\ [Next]_vars => Inv'
<1> SUFFICES ASSUME Inv, [Next]_vars PROVE Inv'
  OBVIOUS
<1>1. CASE \E S \in SUBSET Inspectors : NewBlock(S)
  BY <1>1, MoveInv
<1>2. CASE BeginDestroy
  BY <1>2, MoveInv
<1>3. CASE SourceSteps
  BY <1>3, AcquireInv, NewInfoInv, MoveInv, QueueTaskInv, QueueFailsInv, SyncMoveInv,
     PushBarrierInv, BarrierWaitInv, HaltWorkerInv, DestroyInv
  DEF SourceSteps
<1>4. CASE \E w \in Workers : WorkerSteps(w)
  BY <1>4, TakeTaskInv, ReturnTaskInv, BarrierCbInv DEF WorkerSteps
<1>5. CASE UNCHANGED vars
  BY <1>5, StutterInv
<1> QED
  BY <1>1, <1>2, <1>3, <1>4, <1>5 DEF Next

\* Every step of the source worker, the workers and the destructor keeps Inv.
THEOREM InvHolds == Spec => []Inv
  BY InitInv, StepInv, PTL DEF Spec

\* The scheduler's fields, queues and threads keep proper values: the worker that
\* suscan_inspsched_queue_task chooses exists, the queues hold infos and barriers.
THEOREM TypeCorrect == Spec => []TypeOK
<1>1. Inv => TypeOK
  BY DEF Inv
<1> QED
  BY <1>1, InvHolds, PTL

\* When the source worker acknowledges a block to the tuner, no task of it is
\* queued or running: suscan_inspsched_sync waits for all of them.
THEOREM BufferGivenBackInTime == Spec => []BlockComplete
<1>1. Inv => BlockComplete
  <2> SUFFICES ASSUME Inv, src \in {"ack", "idle", "destroy", "gone"}, ~broken
               PROVE  Pending \cup Running = {}
    BY DEF BlockComplete
  <2>1. \A w \in Workers : queue[w] = <<>> /\ task[w] = None
    BY DEF Inv, QuietInv
  <2>2. \A w \in Workers : Queued(w) = {}
    BY <2>1, QueueTypes, EmptyQueue DEF Inv, InQueue
  <2> QED
    BY <2>1, <2>2 DEF Pending, Running
<1> QED
  BY <1>1, InvHolds, PTL

\* A task info is in one place: the free list, one queue, one worker or the hands
\* of the source worker, and the alloc list is those in use, whatever fails.
THEOREM InfosAccounted == Spec => []InfoAccounted
<1>1. Inv => InfoAccounted
  <2> SUFFICES ASSUME Inv PROVE InfoAccounted
    OBVIOUS
  <2> USE DEF Inv
  <2>1. \A w \in Workers : \A i :
          i \in Queued(w) <=> i \in Infos /\ InQueue(w, i)
    <3> SUFFICES ASSUME NEW w \in Workers, NEW i
                 PROVE  i \in Queued(w) <=> i \in Infos /\ InQueue(w, i)
      OBVIOUS
    <3>1. /\ ToSet(queue[w]) \subseteq Infos \cup {BARRIER}
          /\ Queued(w) = ToSet(queue[w]) \ {BARRIER}
      BY QueueTypes
    <3> QED
      BY <3>1, InspSchedAssumption DEF InQueue, InspSchedAssumption
  <2>2. \A i : i \in Pending <=> i \in Infos /\ \E w \in Workers : InQueue(w, i)
    BY <2>1 DEF Pending
  <2>3. \A i : i \in Running <=> i \in Infos /\ \E w \in Workers : task[w] = i
    BY InspSchedAssumption DEF Running, TypeOK, InspSchedAssumption
  <2>4. info \in Infos \/ info = None
    BY DEF TypeOK
  <2>5. None \notin Infos
    BY InspSchedAssumption DEF InspSchedAssumption
  <2>6. free_list \cap alloc_list = {}
    BY DEF InfoInv
  <2>7. src \notin {"destroy", "gone"} =>
          alloc_list = Pending \cup Running \cup ({info} \ {None})
    <3> SUFFICES ASSUME src \notin {"destroy", "gone"}, NEW i
                 PROVE  i \in alloc_list <=> i \in Pending \cup Running \cup ({info} \ {None})
      OBVIOUS
    <3>1. i \in alloc_list => i \in Infos
      BY DEF TypeOK
    <3>2. i \in Infos =>
            (i \in alloc_list <=> i = info \/ \E w \in Workers : task[w] = i \/ InQueue(w, i))
      BY DEF InfoInv
    <3> QED
      BY <2>2, <2>3, <2>4, <2>5, <3>1, <3>2
  <2>8. info \notin Pending \cup Running
    BY <2>2, <2>3 DEF InfoInv
  <2>9. Pending \cap Running = {}
    BY <2>2, <2>3 DEF InfoInv
  <2>10. \A v, w \in Workers : task[v] = task[w] => v = w \/ task[v] = None
    BY DEF InfoInv
  <2>11. ASSUME NEW v \in Workers, NEW w \in Workers,
                NEW j \in 1 .. Len(queue[v]), NEW k \in 1 .. Len(queue[w]),
                queue[v][j] = queue[w][k], queue[v][j] # BARRIER
         PROVE  v = w /\ j = k
    <3>1. /\ queue[v] \in Seq(Infos \cup {BARRIER}) /\ queue[w] \in Seq(Infos \cup {BARRIER})
      BY QueueTypes
    <3>2. InQueue(v, queue[v][j]) /\ InQueue(w, queue[v][j]) /\ queue[v][j] \in Infos
      BY <2>11, <3>1, ToSetFacts DEF InQueue
    <3>3. v = w
      BY <3>2 DEF InfoInv
    <3>4. Once(queue[v], BARRIER)
      BY DEF InfoInv
    <3> QED
      BY <2>11, <3>3, <3>4 DEF Once
  <2> QED
    BY <2>6, <2>7, <2>8, <2>9, <2>10, <2>11 DEF InfoAccounted
<1> QED
  BY <1>1, InvHolds, PTL

\* No inspector has two tasks at once, so that its sampler buffer, which has no
\* lock, is used by one worker: blocks do not overlap.
THEOREM SamplerUnshared == Spec => []OneTaskPerInspector
<1>1. Inv => OneTaskPerInspector
  BY DEF Inv, TurnInv, OneTaskPerInspector
<1> QED
  BY <1>1, InvHolds, PTL

-----------------------------------------------------------------------------
(***************************************************************************)
(* The loop of the workers and the owner that halts them (Worker.tla), for *)
(* any workers and callbacks: a worker is freed after its thread ended and *)
(* with nothing queued, its answer means it is halted, it starts at most   *)
(* one more callback once asked to halt, and every callback is in one      *)
(* place and freed once.                                                   *)
(***************************************************************************)
\* How the state, the thread and the owner's call of a worker hang together.
WorkerInv(w) ==
  /\ pc[w] = "none" <=> state[w] = "none"
  /\ pc[w] \in {"ack", "exited"} <=> state[w] = "halted"
  /\ pc[w] \in {"done", "ack", "exited"} => halt_req[w]
  /\ HALT \in Waiting(w) => halt_req[w]
  /\ late[w] \in {0, 1}
  /\ late[w] = 1 =>
       halt_req[w] /\ pc[w] \in {"run", "inner", "done", "ack", "exited"}
  /\ pc[w] = "run" <=> cur[w] # NULL
  /\ state[w] \in {"none", "created"} => mq_in[w] = <<>> /\ ~halt_req[w]
  /\ state[w] = "created" =>
       owner = "creating" /\ subject = w /\ pc[w] \in {"while", "read"}
  /\ w \in freed => pc[w] = "exited" /\ mq_in[w] = <<>>

OwnerInv ==
  /\ owner # "idle" => subject \in AllWorkers
  /\ owner = "creating" => state[subject] = "created" /\ subject \notin freed
  /\ owner \in {"halting", "flag", "message", "abort", "abort message",
                "reading", "drain", "wait", "asleep"} => Alive(subject)
  /\ owner = "destroy" => state[subject] = "halted" /\ subject \notin freed
  /\ owner \in {"message", "abort message"} => halt_req[subject]

WorkersInv ==
  /\ WorkerTypeOK
  /\ OwnerInv
  /\ \A w \in AllWorkers : WorkerInv(w)
  /\ AckMeansHalted
  /\ CallbackInOnePlace

-----------------------------------------------------------------------------
(* The parts of Inv in a form that is easy to instantiate *)

LEMMA WorkerQueueTypes ==
  ASSUME WorkerTypeOK, NEW w \in AllWorkers
  PROVE  /\ mq_in[w] \in Seq(Messages)
         /\ Waiting(w) \subseteq Messages
  BY ToSetFacts DEF WorkerTypeOK, Waiting

\* What CallbackInOnePlace says of one worker and one callback.
CallbackAt(w, c) ==
  /\ c \in Waiting(w) => home[c] = w /\ destroyed[c] = 0 /\ cur[w] # c
  /\ cur[w] = c => home[c] = w /\ destroyed[c] = 0
  /\ home[c] = w => destroyed[c] = 1 \/ c \in Waiting(w) \/ cur[w] = c

LEMMA OnePlaceParts ==
  CallbackInOnePlace <=>
    /\ \A w \in AllWorkers : Once(mq_in[w], HALT)
    /\ \A w \in AllWorkers, c \in Callbacks : CallbackAt(w, c)
    /\ \A c \in Callbacks : destroyed[c] <= IF home[c] = NULL THEN 0 ELSE 1
  BY DEF CallbackInOnePlace, Once, CallbackAt

LEMMA OnePlacePartsNext ==
  CallbackInOnePlace' <=>
    /\ \A w \in AllWorkers : Once(mq_in'[w], HALT)
    /\ \A w \in AllWorkers, c \in Callbacks : CallbackAt(w, c)'
    /\ \A c \in Callbacks : destroyed'[c] <= IF home'[c] = NULL THEN 0 ELSE 1
  BY DEF CallbackInOnePlace, Once, CallbackAt

LEMMA WorkerInitInv == WorkerInit => WorkersInv
<1> SUFFICES ASSUME WorkerInit PROVE WorkersInv
  OBVIOUS
<1>1. WorkerTypeOK
  BY DEF WorkerInit, WorkerTypeOK, Messages, Places, Calls
<1>2. \A w \in AllWorkers : Waiting(w) = {}
  BY DEF WorkerInit, Waiting, ToSet
<1>3. OwnerInv
  BY DEF WorkerInit, OwnerInv
<1>4. \A w \in AllWorkers : WorkerInv(w)
  BY <1>2 DEF WorkerInit, WorkerInv
<1>5. AckMeansHalted
  BY DEF WorkerInit, AckMeansHalted
<1>6. CallbackInOnePlace
  BY <1>2, WorkerAssumption DEF WorkerInit, CallbackInOnePlace, WorkerAssumption
<1> QED
  BY <1>1, <1>3, <1>4, <1>5, <1>6 DEF WorkersInv

\* A worker of which nothing changes.
LEMMA WorkerFrame ==
  ASSUME NEW v \in AllWorkers, WorkerInv(v),
         pc'[v] = pc[v], state'[v] = state[v], halt_req'[v] = halt_req[v],
         mq_in'[v] = mq_in[v], late'[v] = late[v], cur'[v] = cur[v],
         v \in freed' <=> v \in freed,
         state[v] = "created" => owner' = "creating" /\ subject' = v
  PROVE  WorkerInv(v)'
  BY DEF WorkerInv, Waiting

\* A step that touches no callback.
LEMMA OnePlaceFrame ==
  ASSUME CallbackInOnePlace, UNCHANGED <<mq_in, cur, home, destroyed>>
  PROVE  CallbackInOnePlace'
<1>1. \A w \in AllWorkers, c \in Callbacks : CallbackAt(w, c)'
  BY OnePlaceParts DEF CallbackAt, Waiting
<1> QED
  BY <1>1, OnePlaceParts, OnePlacePartsNext

\* The domains TypeOK gives, for reading a changed function at a worker.
LEMMA Domains ==
  ASSUME WorkerTypeOK
  PROVE  /\ DOMAIN state = AllWorkers /\ DOMAIN halt_req = AllWorkers
         /\ DOMAIN mq_in = AllWorkers /\ DOMAIN pc = AllWorkers
         /\ DOMAIN cur = AllWorkers /\ DOMAIN late = AllWorkers
         /\ DOMAIN home = Callbacks /\ DOMAIN destroyed = Callbacks
         /\ state = [w \in AllWorkers |-> state[w]]
         /\ halt_req = [w \in AllWorkers |-> halt_req[w]]
         /\ mq_in = [w \in AllWorkers |-> mq_in[w]]
         /\ pc = [w \in AllWorkers |-> pc[w]]
         /\ cur = [w \in AllWorkers |-> cur[w]]
         /\ late = [w \in AllWorkers |-> late[w]]
  BY DEF WorkerTypeOK

-----------------------------------------------------------------------------
(* The steps of a worker thread *)

\* The tests of halt_req and an empty poll only move the thread.
LEMMA WorkerMoveInv ==
  ASSUME WorkersInv, NEW w \in AllWorkers, LoopTest(w) \/ InnerTest(w) \/ PollEmpty(w)
  PROVE  WorkersInv'
<1>0. /\ pc[w] \in {"while", "inner", "poll"}
      /\ UNCHANGED <<state, halt_req, mq_in, mq_out, cur, caller, home, destroyed, freed, late>>
      /\ \E there \in {"while", "read", "poll", "done"} :
           /\ pc' = [pc EXCEPT ![w] = there]
           /\ there = "done" <=> halt_req[w] /\ pc[w] # "poll"
           /\ pc[w] = "while" => there \in {"read", "done"}
  BY DEF LoopTest, InnerTest, PollEmpty, GoTo
<1>1. WorkerTypeOK'
  BY <1>0 DEF WorkersInv, WorkerTypeOK, caller, Places
<1>2. \A v \in AllWorkers : Waiting(v)' = Waiting(v)
  BY <1>0 DEF Waiting
<1>3. OwnerInv'
  BY <1>0 DEF WorkersInv, OwnerInv, Alive, caller
<1>4. ASSUME NEW v \in AllWorkers PROVE WorkerInv(v)'
  <2>0. WorkerInv(v) /\ UNCHANGED <<owner, subject>>
    BY <1>0 DEF WorkersInv, caller
  <2>1. CASE v # w
    <3>1. pc'[v] = pc[v]
      BY <2>1, <1>0, Domains DEF WorkersInv
    <3> QED
      BY <3>1, <2>0, <1>0, WorkerFrame DEF WorkerInv
  <2>2. CASE v = w
    <3>1. /\ pc'[w] \in {"while", "read", "poll", "done"}
          /\ pc'[w] = "done" => halt_req[w]
          /\ halt_req[w] /\ pc[w] # "poll" => pc'[w] = "done"
          /\ pc[w] = "while" => pc'[w] \in {"read", "done"}
      BY <1>0, Domains DEF WorkersInv
    <3> QED
      BY <3>1, <2>0, <2>2, <1>0, <1>2 DEF WorkerInv
  <2> QED
    BY <2>1, <2>2
<1>5. AckMeansHalted'
  BY <1>0 DEF WorkersInv, AckMeansHalted
<1>6. CallbackInOnePlace'
  BY <1>0, OnePlaceFrame DEF WorkersInv
<1> QED
  BY <1>1, <1>3, <1>4, <1>5, <1>6 DEF WorkersInv

LEMMA TakeInv ==
  ASSUME WorkersInv, NEW w \in AllWorkers, Take(w)
  PROVE  WorkersInv'
<1> DEFINE m == Head(mq_in[w])
<1>0. /\ pc[w] \in {"read", "poll"} /\ mq_in[w] # <<>>
      /\ mq_in' = [mq_in EXCEPT ![w] = Tail(mq_in[w])]
      /\ UNCHANGED <<state, halt_req, mq_out, caller, home, destroyed, freed>>
      /\ IF m = HALT
           THEN pc' = [pc EXCEPT ![w] = "done"] /\ UNCHANGED <<cur, late>>
           ELSE /\ pc' = [pc EXCEPT ![w] = "run"]
                /\ cur' = [cur EXCEPT ![w] = m]
                /\ late' = [late EXCEPT ![w] = @ + IF halt_req[w] THEN 1 ELSE 0]
  BY DEF Take, GoTo
<1>t. WorkerTypeOK
  BY DEF WorkersInv
<1>1. /\ m \in Messages /\ m \in Waiting(w) /\ Tail(mq_in[w]) \in Seq(Messages)
      /\ \A e : e \in Waiting(w) <=> e \in ToSet(Tail(mq_in[w])) \/ e = m
  BY <1>0, <1>t, WorkerQueueTypes, HeadFacts DEF Waiting
<1>2. /\ Once(Tail(mq_in[w]), HALT)
      /\ m = HALT \/ m \notin ToSet(Tail(mq_in[w]))
  BY <1>0, <1>t, WorkerQueueTypes, OnceTail, OnePlaceParts DEF WorkersInv
<1> DEFINE r == Tail(mq_in[w])
<1> HIDE DEF m, r
<1>q. /\ mq_in' = [mq_in EXCEPT ![w] = r] /\ r \in Seq(Messages)
      /\ Waiting(w)' = ToSet(r) /\ mq_in'[w] = r
      /\ \A v \in AllWorkers : v # w => Waiting(v)' = Waiting(v) /\ mq_in'[v] = mq_in[v]
  BY <1>0, <1>1, <1>t DEF r, Waiting, WorkerTypeOK
<1>3. WorkerTypeOK'
  <2>1. mq_in' \in [AllWorkers -> Seq(Messages)]
    BY <1>q, <1>t DEF WorkerTypeOK
  <2>2. /\ pc \in [AllWorkers -> Places] /\ cur \in [AllWorkers -> Callbacks \cup {NULL}]
        /\ late \in [AllWorkers -> Nat]
    BY <1>t DEF WorkerTypeOK
  <2>3. pc' \in [AllWorkers -> Places]
    BY <2>2, <1>0 DEF Places
  <2>4. m \in Callbacks \cup {HALT}
    BY <1>1 DEF Messages
  <2>5. cur' \in [AllWorkers -> Callbacks \cup {NULL}]
    BY <2>2, <2>4, <1>0
  <2>6. late' \in [AllWorkers -> Nat]
    BY <2>2, <1>0
  <2> QED
    BY <2>1, <2>3, <2>5, <2>6, <1>0, <1>t DEF WorkerTypeOK, caller
<1>4. OwnerInv'
  BY <1>0 DEF WorkersInv, OwnerInv, Alive, caller
<1>5. ASSUME NEW v \in AllWorkers PROVE WorkerInv(v)'
  <2>0. UNCHANGED <<owner, subject, state, halt_req, freed>>
    BY <1>0 DEF caller
  <2>1. CASE v # w
    <3>1. pc'[v] = pc[v] /\ cur'[v] = cur[v] /\ late'[v] = late[v]
      BY <2>1, <1>0, <1>t, Domains
    <3> QED
      BY <2>0, <2>1, <3>1, <1>q, WorkerFrame DEF WorkersInv, WorkerInv
  <2>2. CASE v = w
    <3>1. WorkerInv(w)
      BY DEF WorkersInv
    <3>2. late[w] = 0 /\ w \notin freed /\ state[w] \notin {"none", "created"}
      BY <3>1, <1>0 DEF WorkerInv
    <3>3. m = HALT => halt_req[w]
      BY <3>1, <1>1 DEF WorkerInv
    <3>4. HALT \in ToSet(r) => halt_req[w]
      BY <3>1, <1>1 DEF WorkerInv, r
    <3>5. m # NULL
      BY <1>1, WorkerAssumption DEF WorkerAssumption, Messages
    <3>6. /\ pc'[w] = IF m = HALT THEN "done" ELSE "run"
          /\ cur'[w] = IF m = HALT THEN cur[w] ELSE m
          /\ late'[w] = IF m # HALT /\ halt_req[w] THEN 1 ELSE 0
      BY <1>0, <3>2, <1>t, Domains
    <3> QED
      BY <2>0, <2>2, <3>1, <3>2, <3>3, <3>4, <3>5, <3>6, <1>0, <1>q DEF WorkerInv
  <2> QED
    BY <2>1, <2>2
<1>6. AckMeansHalted'
  BY <1>0 DEF WorkersInv, AckMeansHalted
<1>7. CallbackInOnePlace'
  <2>1. \A v \in AllWorkers : Once(mq_in'[v], HALT)
    BY <1>q, <1>2, OnePlaceParts DEF WorkersInv, r
  <2>2. ASSUME NEW v \in AllWorkers, NEW c \in Callbacks
        PROVE  CallbackAt(v, c)'
    <3>0. CallbackAt(v, c) /\ CallbackAt(w, c)
      BY OnePlaceParts DEF WorkersInv
    <3>1. CASE v # w
      BY <3>0, <3>1, <1>0, <1>q, <1>t DEF CallbackAt, WorkerTypeOK
    <3>2. CASE v = w
      <4>1. cur[w] = NULL
        BY <1>0 DEF WorkersInv, WorkerInv
      <4>2. c # NULL /\ c # HALT
        BY WorkerAssumption DEF WorkerAssumption
      <4>3. c \in Waiting(w) <=> c \in ToSet(r) \/ c = m
        BY <1>1 DEF r
      <4>4. cur'[w] = IF m = HALT THEN NULL ELSE m
        BY <4>1, <1>0, <1>t DEF WorkerTypeOK
      <4>5. m = HALT \/ m \notin ToSet(r)
        BY <1>2 DEF r
      <4> QED
        BY <3>0, <3>2, <4>1, <4>2, <4>3, <4>4, <4>5, <1>0, <1>q DEF CallbackAt
    <3> QED
      BY <3>1, <3>2
  <2>3. \A c \in Callbacks : destroyed'[c] <= IF home'[c] = NULL THEN 0 ELSE 1
    BY <1>0, OnePlaceParts DEF WorkersInv
  <2> QED
    BY <2>1, <2>2, <2>3, OnePlacePartsNext
<1> QED
  BY <1>3, <1>4, <1>5, <1>6, <1>7 DEF WorkersInv

\* The callback in a thread's hands belongs to its worker.
LEMMA RunningFacts ==
  ASSUME WorkersInv, NEW w \in AllWorkers, pc[w] = "run"
  PROVE  /\ cur[w] \in Callbacks /\ cur[w] # HALT /\ cur[w] # NULL
         /\ home[cur[w]] = w /\ destroyed[cur[w]] = 0 /\ cur[w] \notin Waiting(w)
         /\ \A v \in AllWorkers : v # w => cur[v] # cur[w] /\ cur[w] \notin Waiting(v)
<1>1. cur[w] # NULL
  BY DEF WorkersInv, WorkerInv
<1>2. cur[w] \in Callbacks
  BY <1>1 DEF WorkersInv, WorkerTypeOK
<1>3. /\ CallbackAt(w, cur[w])
      /\ \A v \in AllWorkers : CallbackAt(v, cur[w])
  BY <1>2, OnePlaceParts DEF WorkersInv
<1>4. /\ home[cur[w]] = w /\ destroyed[cur[w]] = 0 /\ cur[w] \notin Waiting(w)
  BY <1>3 DEF CallbackAt
<1>5. \A v \in AllWorkers : v # w => cur[v] # cur[w] /\ cur[w] \notin Waiting(v)
  BY <1>3, <1>4 DEF CallbackAt
<1> QED
  BY <1>1, <1>2, <1>4, <1>5, WorkerAssumption DEF WorkerAssumption

LEMMA RequeueInv ==
  ASSUME WorkersInv, NEW w \in AllWorkers, Requeue(w)
  PROVE  WorkersInv'
<1> DEFINE m == cur[w]
           r == Append(mq_in[w], m)
<1>0. /\ pc[w] = "run"
      /\ mq_in' = [mq_in EXCEPT ![w] = r]
      /\ cur' = [cur EXCEPT ![w] = NULL]
      /\ pc' = [pc EXCEPT ![w] = "inner"]
      /\ UNCHANGED <<state, halt_req, mq_out, owner, subject, aborted,
                     home, destroyed, freed, late>>
  BY DEF Requeue, GoTo, caller
<1>1. /\ WorkerTypeOK /\ OwnerInv /\ WorkerInv(w) /\ m \in Callbacks /\ m # HALT
      /\ home[m] = w /\ destroyed[m] = 0 /\ m \notin Waiting(w)
      /\ \A v \in AllWorkers : v # w => cur[v] # m /\ m \notin Waiting(v)
  BY <1>0, RunningFacts DEF WorkersInv
<1>2. /\ r \in Seq(Messages) /\ ToSet(r) = Waiting(w) \cup {m}
      /\ Once(r, HALT)
  <2>1. mq_in[w] \in Seq(Messages) /\ m \in Messages /\ Once(mq_in[w], HALT)
    BY <1>1, WorkerQueueTypes, OnePlaceParts DEF Messages, WorkersInv
  <2> QED
    BY <2>1, <1>1, ToSetAfter, OnceAdd DEF Waiting
<1> HIDE DEF m, r
<1>p. /\ pc'[w] = "inner" /\ cur'[w] = NULL /\ mq_in'[w] = r
      /\ Waiting(w)' = ToSet(r)
      /\ \A v \in AllWorkers : v # w =>
           pc'[v] = pc[v] /\ cur'[v] = cur[v] /\ mq_in'[v] = mq_in[v]
           /\ Waiting(v)' = Waiting(v)
  BY <1>0, <1>1, Domains DEF Waiting
<1>3. WorkerTypeOK'
  <2>1. /\ pc \in [AllWorkers -> Places] /\ cur \in [AllWorkers -> Callbacks \cup {NULL}]
        /\ mq_in \in [AllWorkers -> Seq(Messages)]
    BY <1>1 DEF WorkerTypeOK
  <2>2. /\ pc' \in [AllWorkers -> Places] /\ cur' \in [AllWorkers -> Callbacks \cup {NULL}]
        /\ mq_in' \in [AllWorkers -> Seq(Messages)]
    BY <2>1, <1>0, <1>2 DEF Places
  <2> QED
    BY <2>2, <1>0, <1>1 DEF WorkerTypeOK
<1>4. OwnerInv'
  BY <1>0, <1>1 DEF OwnerInv, Alive
<1>5. ASSUME NEW v \in AllWorkers PROVE WorkerInv(v)'
  <2>1. CASE v # w
    BY <2>1, <1>0, <1>p, WorkerFrame DEF WorkersInv, WorkerInv
  <2>2. CASE v = w
    BY <2>2, <1>0, <1>1, <1>2, <1>p DEF WorkerInv
  <2> QED
    BY <2>1, <2>2
<1>6. AckMeansHalted'
  BY <1>0 DEF WorkersInv, AckMeansHalted
<1>7. CallbackInOnePlace'
  <2>1. \A v \in AllWorkers : Once(mq_in'[v], HALT)
    BY <1>p, <1>2, OnePlaceParts DEF WorkersInv
  <2>2. ASSUME NEW v \in AllWorkers, NEW c \in Callbacks
        PROVE  CallbackAt(v, c)'
    <3>0. CallbackAt(v, c) /\ c # NULL
      BY OnePlaceParts, WorkerAssumption DEF WorkersInv, WorkerAssumption
    <3>1. CASE v # w
      BY <3>0, <3>1, <1>0, <1>p DEF CallbackAt
    <3>2. CASE v = w
      BY <3>0, <3>2, <1>0, <1>1, <1>2, <1>p DEF CallbackAt, m
    <3> QED
      BY <3>1, <3>2
  <2>3. \A c \in Callbacks : destroyed'[c] <= IF home'[c] = NULL THEN 0 ELSE 1
    BY <1>0, OnePlaceParts DEF WorkersInv
  <2> QED
    BY <2>1, <2>2, <2>3, OnePlacePartsNext
<1> QED
  BY <1>3, <1>4, <1>5, <1>6, <1>7 DEF WorkersInv

\* The callback returns FALSE, with or without a request to halt.
LEMMA FinishInv ==
  ASSUME WorkersInv, NEW w \in AllWorkers, Finish(w) \/ FinishAborting(w)
  PROVE  WorkersInv'
<1> DEFINE m == cur[w]
<1>0. /\ pc[w] = "run"
      /\ destroyed' = [destroyed EXCEPT ![m] = @ + 1]
      /\ cur' = [cur EXCEPT ![w] = NULL]
      /\ pc' = [pc EXCEPT ![w] = "inner"]
      /\ UNCHANGED <<state, mq_out, owner, subject, aborted, home, freed, late>>
      /\ \/ UNCHANGED <<halt_req, mq_in>>
         \/ /\ halt_req' = [halt_req EXCEPT ![w] = TRUE]
            /\ mq_in' = [mq_in EXCEPT ![w] = Cons(HALT, mq_in[w])]
  BY DEF Finish, FinishAborting, GoTo, caller
<1>1. /\ WorkerTypeOK /\ OwnerInv /\ WorkerInv(w) /\ m \in Callbacks /\ m # HALT /\ m # NULL
      /\ home[m] = w /\ destroyed[m] = 0 /\ m \notin Waiting(w)
      /\ \A v \in AllWorkers : v # w => cur[v] # m /\ m \notin Waiting(v)
  BY <1>0, RunningFacts DEF WorkersInv
<1> DEFINE r == Cons(HALT, mq_in[w])
<1>2. /\ r \in Seq(Messages) /\ ToSet(r) = Waiting(w) \cup {HALT}
      /\ Once(r, HALT)
  <2>1. mq_in[w] \in Seq(Messages) /\ HALT \in Messages /\ Once(mq_in[w], HALT)
    BY <1>1, WorkerQueueTypes, OnePlaceParts DEF Messages, WorkersInv
  <2> QED
    BY <2>1, ConsFacts, ToSetAfter, OnceAdd DEF Waiting
<1>a. \/ UNCHANGED <<halt_req, mq_in>>
      \/ halt_req' = [halt_req EXCEPT ![w] = TRUE] /\ mq_in' = [mq_in EXCEPT ![w] = r]
  BY <1>0
<1> HIDE DEF m, r
<1>p. /\ pc'[w] = "inner" /\ cur'[w] = NULL /\ destroyed'[m] = 1
      /\ \/ halt_req'[w] = halt_req[w] /\ mq_in'[w] = mq_in[w] /\ Waiting(w)' = Waiting(w)
         \/ halt_req'[w] = TRUE /\ mq_in'[w] = r /\ Waiting(w)' = ToSet(r)
      /\ \A v \in AllWorkers : v # w =>
           /\ pc'[v] = pc[v] /\ cur'[v] = cur[v] /\ mq_in'[v] = mq_in[v]
           /\ halt_req'[v] = halt_req[v] /\ Waiting(v)' = Waiting(v)
      /\ \A c \in Callbacks : c # m => destroyed'[c] = destroyed[c]
  BY <1>0, <1>1, <1>a, Domains DEF Waiting
<1>3. WorkerTypeOK'
  <2>1. /\ pc \in [AllWorkers -> Places] /\ cur \in [AllWorkers -> Callbacks \cup {NULL}]
        /\ mq_in \in [AllWorkers -> Seq(Messages)] /\ halt_req \in [AllWorkers -> BOOLEAN]
        /\ destroyed \in [Callbacks -> Nat]
    BY <1>1 DEF WorkerTypeOK
  <2>a. pc' \in [AllWorkers -> Places] /\ cur' \in [AllWorkers -> Callbacks \cup {NULL}]
    BY <2>1, <1>0 DEF Places
  <2>b. mq_in' \in [AllWorkers -> Seq(Messages)]
    BY <2>1, <1>a, <1>2
  <2>2. /\ pc' \in [AllWorkers -> Places] /\ cur' \in [AllWorkers -> Callbacks \cup {NULL}]
        /\ mq_in' \in [AllWorkers -> Seq(Messages)]
    BY <2>a, <2>b
  <2>3. halt_req' \in [AllWorkers -> BOOLEAN]
    BY <2>1, <1>a
  <2>4. destroyed' \in [Callbacks -> Nat]
    BY <2>1, <1>0, <1>1
  <2> QED
    BY <2>2, <2>3, <2>4, <1>0, <1>1 DEF WorkerTypeOK
<1>4. OwnerInv'
  BY <1>0, <1>1, <1>p DEF OwnerInv, Alive
<1>5. ASSUME NEW v \in AllWorkers PROVE WorkerInv(v)'
  <2>1. CASE v # w
    BY <2>1, <1>0, <1>p, WorkerFrame DEF WorkersInv, WorkerInv
  <2>2. CASE v = w
    BY <2>2, <1>0, <1>1, <1>2, <1>p DEF WorkerInv
  <2> QED
    BY <2>1, <2>2
<1>6. AckMeansHalted'
  BY <1>0 DEF WorkersInv, AckMeansHalted
<1>7. CallbackInOnePlace'
  <2>1. \A v \in AllWorkers : Once(mq_in'[v], HALT)
    BY <1>p, <1>2, OnePlaceParts DEF WorkersInv
  <2>2. ASSUME NEW v \in AllWorkers, NEW c \in Callbacks
        PROVE  CallbackAt(v, c)'
    <3>0. CallbackAt(v, c) /\ c # NULL /\ c # HALT
      BY OnePlaceParts, WorkerAssumption DEF WorkersInv, WorkerAssumption
    <3>1. CASE v # w
      <4>1. c = m => home[c] # v /\ cur[v] # c /\ c \notin Waiting(v)
        BY <3>1, <1>1
      <4>2. c # m => destroyed'[c] = destroyed[c]
        BY <1>p
      <4> QED
        BY <3>0, <3>1, <4>1, <4>2, <1>0, <1>p DEF CallbackAt
    <3>2. CASE v = w
      <4>1. c \in Waiting(w)' <=> c \in Waiting(w)
        BY <3>0, <1>2, <1>p
      <4>2. c # m => cur[w] # c
        BY DEF m
      <4> QED
        BY <3>0, <3>2, <4>1, <4>2, <1>0, <1>1, <1>p DEF CallbackAt
    <3> QED
      BY <3>1, <3>2
  <2>3. ASSUME NEW c \in Callbacks
        PROVE  destroyed'[c] <= IF home'[c] = NULL THEN 0 ELSE 1
    <3>1. destroyed[c] <= IF home[c] = NULL THEN 0 ELSE 1
      BY OnePlaceParts DEF WorkersInv
    <3>2. w # NULL
      BY WorkerAssumption DEF WorkerAssumption
    <3> QED
      BY <3>1, <3>2, <1>0, <1>1, <1>p
  <2> QED
    BY <2>1, <2>2, <2>3, OnePlacePartsNext
<1> QED
  BY <1>3, <1>4, <1>5, <1>6, <1>7 DEF WorkersInv

\* What mq_out may hold after a write or a read, when no worker stops being
\* halted.
LEMMA AnswersAfter ==
  ASSUME WorkerTypeOK, AckMeansHalted,
         \A v \in AllWorkers : state[v] = "halted" => state'[v] = "halted",
         \/ mq_out' = mq_out
         \/ mq_out # <<>> /\ mq_out' = Tail(mq_out)
         \/ \E w \in AllWorkers : mq_out' = Append(mq_out, Data(w))
         \/ \E w \in AllWorkers : state'[w] = "halted" /\ mq_out' = Cons(Ack(w), mq_out)
  PROVE  AckMeansHalted' /\ mq_out' \in Seq(Answers)
<1>0. mq_out \in Seq(Answers) /\ Len(mq_out) \in Nat
  BY DEF WorkerTypeOK
<1>1. \A i \in 1..Len(mq_out) : mq_out[i] \in Answers
  BY <1>0
<1>a. \A a \in Answers : a.from \in AllWorkers
  BY DEF Answers, Ack, Data
<1>2. \A i \in 1..Len(mq_out) :
        mq_out[i].type = "halt" => state'[mq_out[i].from] = "halted"
  BY <1>1, <1>a DEF AckMeansHalted
<1>3. CASE mq_out' = mq_out
  BY <1>3, <1>0, <1>2 DEF AckMeansHalted
<1>4. CASE mq_out # <<>> /\ mq_out' = Tail(mq_out)
  <2>1. /\ mq_out' \in Seq(Answers) /\ Len(mq_out') = Len(mq_out) - 1
        /\ \A j \in 1..(Len(mq_out) - 1) : mq_out'[j] = mq_out[j + 1]
    BY <1>4, <1>0, TailFacts
  <2>2. \A j \in 1..Len(mq_out') : j + 1 \in 1..Len(mq_out) /\ mq_out'[j] = mq_out[j + 1]
    BY <2>1, <1>0
  <2> QED
    BY <2>1, <2>2, <1>2 DEF AckMeansHalted
<1>5. ASSUME NEW w \in AllWorkers, mq_out' = Append(mq_out, Data(w))
      PROVE  AckMeansHalted' /\ mq_out' \in Seq(Answers)
  <2>1. Data(w) \in Answers /\ Data(w).type = "data"
    BY DEF Answers, Data
  <2>2. /\ mq_out' \in Seq(Answers) /\ Len(mq_out') = Len(mq_out) + 1
        /\ mq_out'[Len(mq_out) + 1] = Data(w)
        /\ \A j \in 1..Len(mq_out) : mq_out'[j] = mq_out[j]
    BY <1>5, <1>0, <2>1, AppendFacts
  <2>3. \A j \in 1..Len(mq_out') : j = Len(mq_out) + 1 \/ j \in 1..Len(mq_out)
    BY <2>2, <1>0
  <2> QED
    BY <2>1, <2>2, <2>3, <1>2 DEF AckMeansHalted
<1>6. ASSUME NEW w \in AllWorkers, state'[w] = "halted", mq_out' = Cons(Ack(w), mq_out)
      PROVE  AckMeansHalted' /\ mq_out' \in Seq(Answers)
  <2>1. Ack(w) \in Answers /\ Ack(w).from = w
    BY DEF Answers, Ack
  <2>2. /\ mq_out' \in Seq(Answers) /\ Len(mq_out') = Len(mq_out) + 1
        /\ mq_out'[1] = Ack(w)
        /\ \A j \in 2..(Len(mq_out) + 1) : mq_out'[j] = mq_out[j - 1]
    <3> DEFINE r == Cons(Ack(w), mq_out)
    <3>1. /\ r \in Seq(Answers) /\ Len(r) = Len(mq_out) + 1 /\ r[1] = Ack(w)
          /\ \A j \in 2..(Len(mq_out) + 1) : r[j] = mq_out[j - 1]
      BY <1>0, <2>1, ConsFacts
    <3>2. mq_out' = r
      BY <1>6
    <3> HIDE DEF r
    <3> QED
      BY <3>1, <3>2
  <2>3. ASSUME NEW j \in 1..Len(mq_out')
        PROVE  j = 1 \/ (j - 1 \in 1..Len(mq_out) /\ mq_out'[j] = mq_out[j - 1])
    <3>1. j = 1 \/ (j - 1 \in 1..Len(mq_out) /\ j \in 2..(Len(mq_out) + 1))
      BY <2>2, <1>0
    <3> QED
      BY <3>1, <2>2
  <2>4. ASSUME NEW j \in 1..Len(mq_out'), mq_out'[j].type = "halt"
        PROVE  state'[mq_out'[j].from] = "halted"
    <3>1. CASE j = 1
      BY <3>1, <2>1, <2>2, <1>6
    <3>2. CASE j - 1 \in 1..Len(mq_out) /\ mq_out'[j] = mq_out[j - 1]
      BY <3>2, <2>4, <1>2
    <3> QED
      BY <2>3, <3>1, <3>2
  <2> QED
    BY <2>2, <2>4 DEF AckMeansHalted
<1> QED
  BY <1>3, <1>4, <1>5, <1>6

\* Steps that only write to mq_out, and the end of the thread.
LEMMA AnswerInv ==
  ASSUME WorkersInv, NEW w \in AllWorkers,
         CallbackWrites(w) \/ Done(w) \/ suscan_worker_ack_halt(w)
  PROVE  WorkersInv'
<1>0. /\ UNCHANGED <<halt_req, mq_in, cur, late, subject, aborted, home, destroyed, freed>>
      /\ owner' = owner \/ (owner = "asleep" /\ owner' = "drain")
      /\ \/ /\ pc[w] = "run" /\ UNCHANGED <<pc, state>>
            /\ mq_out' = Append(mq_out, Data(w))
         \/ /\ pc[w] = "done" /\ pc' = [pc EXCEPT ![w] = "ack"]
            /\ state' = [state EXCEPT ![w] = "halted"]
            /\ mq_out' = mq_out
         \/ /\ pc[w] = "ack" /\ pc' = [pc EXCEPT ![w] = "exited"]
            /\ mq_out' = Cons(Ack(w), mq_out) /\ state' = state
  BY DEF CallbackWrites, Done, suscan_worker_ack_halt, WriteOut, At, GoTo, thread, caller
<1>1. WorkerTypeOK /\ OwnerInv /\ WorkerInv(w)
  BY DEF WorkersInv
<1>p. /\ \/ pc[w] = "run" /\ pc'[w] = "run" /\ state'[w] = state[w]
         \/ pc[w] = "done" /\ pc'[w] = "ack" /\ state'[w] = "halted"
         \/ pc[w] = "ack" /\ pc'[w] = "exited" /\ state'[w] = state[w]
      /\ \A v \in AllWorkers : v # w => pc'[v] = pc[v] /\ state'[v] = state[v]
  BY <1>0, <1>1, Domains
<1>2. AckMeansHalted' /\ mq_out' \in Seq(Answers)
  <2>1. \A v \in AllWorkers : state[v] = "halted" => state'[v] = "halted"
    BY <1>p
  <2>2. pc[w] = "ack" => state'[w] = "halted"
    BY <1>1, <1>p DEF WorkerInv
  <2> QED
    BY <2>1, <2>2, <1>0, <1>1, AnswersAfter DEF WorkersInv
<1>3. WorkerTypeOK'
  <2>1. pc \in [AllWorkers -> Places] /\ owner \in Calls
        /\ state \in [AllWorkers -> {"none", "created", "running", "halted"}]
    BY <1>1 DEF WorkerTypeOK
  <2>2. pc' \in [AllWorkers -> Places] /\ owner' \in Calls
        /\ state' \in [AllWorkers -> {"none", "created", "running", "halted"}]
    BY <2>1, <1>0 DEF Places, Calls
  <2> QED
    BY <2>2, <1>0, <1>1, <1>2 DEF WorkerTypeOK
<1>4. ASSUME NEW v \in AllWorkers PROVE WorkerInv(v)'
  <2>1. CASE v # w
    BY <2>1, <1>0, <1>p, WorkerFrame DEF WorkersInv, WorkerInv
  <2>2. CASE v = w
    <3>1. Waiting(w)' = Waiting(w)
      BY <1>0 DEF Waiting
    <3> QED
      BY <2>2, <3>1, <1>0, <1>1, <1>p DEF WorkerInv
  <2> QED
    BY <2>1, <2>2
<1>5. OwnerInv'
  <2>1. \A v \in AllWorkers : Alive(v) => Alive(v)'
    BY <1>0, <1>p DEF Alive
  <2>2. owner = "creating" => subject # w
    BY <1>0, <1>1 DEF OwnerInv, WorkerInv
  <2> QED
    BY <2>1, <2>2, <1>0, <1>1, <1>p DEF OwnerInv
<1>6. CallbackInOnePlace'
  BY <1>0, OnePlaceFrame DEF WorkersInv
<1> QED
  BY <1>2, <1>3, <1>4, <1>5, <1>6 DEF WorkersInv

-----------------------------------------------------------------------------
(* The steps of the owner *)

\* Steps that change nothing but where the owner is, and what mq_out holds.
LEMMA OwnerMoveInv ==
  ASSUME WorkersInv,
         \/ \E w \in AllWorkers : BeginHalt(w) \/ AbortOnly(w)
         \/ HaltLoop \/ ReadAck \/ Consume \/ ConsumedAll \/ WaitOut \/ SpuriousWakeup
  PROVE  WorkersInv'
<1>0. /\ UNCHANGED <<state, halt_req, mq_in, pc, cur, late, home, destroyed, freed>>
      /\ owner # "creating" /\ owner' # "creating"
      /\ mq_out' = mq_out \/ (mq_out # <<>> /\ mq_out' = Tail(mq_out))
      /\ aborted' \subseteq aborted \cup AllWorkers
      /\ owner' \in Calls \ {"message", "abort message", "idle"}
      /\ \/ \E w \in AllWorkers : owner = "idle" /\ Alive(w) /\ subject' = w /\ owner' # "destroy"
         \/ /\ subject' = subject
            /\ owner \in {"halting", "reading", "drain", "wait", "asleep"}
            /\ owner' = "destroy" => owner = "halting" /\ state[subject] # "running"
  BY DEF BeginHalt, AbortOnly, HaltLoop, ReadAck, Consume, ConsumedAll, WaitOut,
         SpuriousWakeup, At, thread, Calls
<1>1. WorkerTypeOK /\ OwnerInv
  BY DEF WorkersInv
<1>2. AckMeansHalted' /\ mq_out' \in Seq(Answers)
  BY <1>0, <1>1, AnswersAfter DEF WorkersInv
<1>3. subject' \in AllWorkers /\ (owner' = "destroy" => state[subject'] = "halted")
      /\ subject' \notin freed /\ Alive(subject')
  BY <1>0, <1>1 DEF OwnerInv, Alive
<1>4. WorkerTypeOK'
  <2>1. subject' \in AllWorkers \cup {NULL} /\ aborted' \subseteq AllWorkers /\ owner' \in Calls
    BY <1>0, <1>1, <1>3 DEF WorkerTypeOK
  <2> QED
    BY <2>1, <1>0, <1>1, <1>2 DEF WorkerTypeOK
<1>5. OwnerInv'
  BY <1>0, <1>3 DEF OwnerInv, Alive
<1>6. ASSUME NEW v \in AllWorkers PROVE WorkerInv(v)'
  <2>1. WorkerInv(v)
    BY DEF WorkersInv
  <2>2. state[v] # "created"
    BY <2>1, <1>0 DEF WorkerInv
  <2> QED
    BY <2>1, <2>2, <1>0, WorkerFrame
<1>7. CallbackInOnePlace'
  BY <1>0, OnePlaceFrame DEF WorkersInv
<1> QED
  BY <1>2, <1>4, <1>5, <1>6, <1>7 DEF WorkersInv

LEMMA CreateInv ==
  ASSUME WorkersInv, NEW w \in AllWorkers, Create(w)
  PROVE  WorkersInv'
<1>0. /\ owner = "idle" /\ state[w] = "none" /\ owner' = "creating" /\ subject' = w
      /\ state' = [state EXCEPT ![w] = "created"] /\ pc' = [pc EXCEPT ![w] = "while"]
      /\ UNCHANGED <<halt_req, mq_in, mq_out, cur, late, aborted, home, destroyed, freed>>
  BY DEF Create, GoTo
<1>1. WorkerTypeOK /\ OwnerInv /\ WorkerInv(w)
  BY DEF WorkersInv
<1>p. /\ state'[w] = "created" /\ pc'[w] = "while"
      /\ \A v \in AllWorkers : v # w => pc'[v] = pc[v] /\ state'[v] = state[v]
  BY <1>0, <1>1, Domains
<1>2. AckMeansHalted' /\ mq_out' \in Seq(Answers)
  <2>1. \A v \in AllWorkers : state[v] = "halted" => state'[v] = "halted"
    BY <1>0, <1>p
  <2> QED
    BY <2>1, <1>0, <1>1, AnswersAfter DEF WorkersInv
<1>3. WorkerTypeOK'
  <2>1. pc \in [AllWorkers -> Places]
        /\ state \in [AllWorkers -> {"none", "created", "running", "halted"}]
    BY <1>1 DEF WorkerTypeOK
  <2>2. pc' \in [AllWorkers -> Places] /\ owner' \in Calls
        /\ state' \in [AllWorkers -> {"none", "created", "running", "halted"}]
    BY <2>1, <1>0 DEF Places, Calls
  <2> QED
    BY <2>2, <1>0, <1>1 DEF WorkerTypeOK
<1>4. w \notin freed
  BY <1>0, <1>1 DEF WorkerInv
<1>5. OwnerInv'
  BY <1>0, <1>p, <1>4 DEF OwnerInv
<1>6. ASSUME NEW v \in AllWorkers PROVE WorkerInv(v)'
  <2>0. WorkerInv(v) /\ state[v] # "created"
    BY <1>0 DEF WorkersInv, WorkerInv
  <2>1. CASE v # w
    BY <2>0, <2>1, <1>0, <1>p, WorkerFrame
  <2>2. CASE v = w
    <3>1. Waiting(w)' = Waiting(w)
      BY <1>0 DEF Waiting
    <3> QED
      BY <2>0, <2>2, <3>1, <1>0, <1>4, <1>p DEF WorkerInv
  <2> QED
    BY <2>1, <2>2
<1>7. CallbackInOnePlace'
  BY <1>0, OnePlaceFrame DEF WorkersInv
<1> QED
  BY <1>2, <1>3, <1>5, <1>6, <1>7 DEF WorkersInv

LEMMA CreatedInv ==
  ASSUME WorkersInv, Created
  PROVE  WorkersInv'
<1>0. /\ owner = "creating" /\ owner' = "idle" /\ subject' = NULL
      /\ state' = [state EXCEPT ![subject] = "running"]
      /\ UNCHANGED <<pc, halt_req, mq_in, mq_out, cur, late, aborted, home, destroyed, freed>>
  BY DEF Created, Return, thread
<1>1. /\ WorkerTypeOK /\ OwnerInv /\ subject \in AllWorkers /\ state[subject] = "created"
      /\ subject \notin freed
  BY <1>0 DEF WorkersInv, OwnerInv
<1>p. /\ state'[subject] = "running"
      /\ \A v \in AllWorkers : v # subject => state'[v] = state[v]
  BY <1>0, <1>1, Domains
<1>2. AckMeansHalted' /\ mq_out' \in Seq(Answers)
  <2>1. \A v \in AllWorkers : state[v] = "halted" => state'[v] = "halted"
    BY <1>1, <1>p
  <2> QED
    BY <2>1, <1>0, <1>1, AnswersAfter DEF WorkersInv
<1>3. WorkerTypeOK'
  <2>1. state \in [AllWorkers -> {"none", "created", "running", "halted"}]
    BY <1>1 DEF WorkerTypeOK
  <2>2. owner' \in Calls /\ state' \in [AllWorkers -> {"none", "created", "running", "halted"}]
    BY <2>1, <1>0 DEF Calls
  <2> QED
    BY <2>2, <1>0, <1>1 DEF WorkerTypeOK
<1>4. OwnerInv'
  BY <1>0 DEF OwnerInv
<1>5. ASSUME NEW v \in AllWorkers PROVE WorkerInv(v)'
  <2>0. WorkerInv(v)
    BY DEF WorkersInv
  <2>1. CASE v # subject
    <3>1. state[v] # "created"
      BY <2>0, <2>1 DEF WorkerInv
    <3> QED
      BY <2>0, <2>1, <3>1, <1>0, <1>p, WorkerFrame
  <2>2. CASE v = subject
    <3>1. Waiting(v)' = Waiting(v)
      BY <1>0 DEF Waiting
    <3> QED
      BY <2>0, <2>2, <3>1, <1>0, <1>1, <1>p DEF WorkerInv
  <2> QED
    BY <2>1, <2>2
<1>6. CallbackInOnePlace'
  BY <1>0, OnePlaceFrame DEF WorkersInv
<1> QED
  BY <1>2, <1>3, <1>4, <1>5, <1>6 DEF WorkersInv

\* suscan_worker_req_halt sets the flag.
LEMMA SetFlagInv ==
  ASSUME WorkersInv, SetFlag
  PROVE  WorkersInv'
<1>0. /\ owner \in {"flag", "abort"} /\ subject' = subject
      /\ owner' \in {"message", "abort message"}
      /\ halt_req' = [halt_req EXCEPT ![subject] = TRUE]
      /\ UNCHANGED <<state, pc, mq_in, mq_out, cur, late, aborted, home, destroyed, freed>>
  BY DEF SetFlag, At, thread
<1>1. WorkerTypeOK /\ OwnerInv /\ subject \in AllWorkers /\ Alive(subject)
  BY <1>0 DEF WorkersInv, OwnerInv
<1>p. /\ halt_req'[subject] = TRUE
      /\ \A v \in AllWorkers : v # subject => halt_req'[v] = halt_req[v]
  BY <1>0, <1>1, Domains
<1>2. WorkerTypeOK'
  <2>1. halt_req \in [AllWorkers -> BOOLEAN]
    BY <1>1 DEF WorkerTypeOK
  <2>2. halt_req' \in [AllWorkers -> BOOLEAN]
    BY <2>1, <1>0
  <2>3. owner' \in Calls
    BY <1>0 DEF Calls
  <2> QED
    BY <2>2, <2>3, <1>0, <1>1 DEF WorkerTypeOK
<1>3. OwnerInv'
  BY <1>0, <1>1, <1>p DEF OwnerInv, Alive
<1>4. ASSUME NEW v \in AllWorkers PROVE WorkerInv(v)'
  <2>0. WorkerInv(v) /\ state[v] # "created"
    BY <1>0 DEF WorkersInv, WorkerInv
  <2>1. CASE v # subject
    BY <2>0, <2>1, <1>0, <1>p, WorkerFrame
  <2>2. CASE v = subject
    <3>1. Waiting(v)' = Waiting(v)
      BY <1>0 DEF Waiting
    <3> QED
      BY <2>0, <2>2, <3>1, <1>0, <1>1, <1>p DEF WorkerInv, Alive
  <2> QED
    BY <2>1, <2>2
<1>5. AckMeansHalted'
  BY <1>0 DEF WorkersInv, AckMeansHalted
<1>6. CallbackInOnePlace'
  BY <1>0, OnePlaceFrame DEF WorkersInv
<1> QED
  BY <1>2, <1>3, <1>4, <1>5, <1>6 DEF WorkersInv

LEMMA PushInv ==
  ASSUME WorkersInv, NEW w \in AllWorkers, NEW c \in Callbacks, suscan_worker_push(w, c)
  PROVE  WorkersInv'
<1> DEFINE r == Append(mq_in[w], c)
<1>0. /\ Alive(w) /\ ~(owner = "destroy" /\ subject = w) /\ home[c] = NULL
      /\ home' = [home EXCEPT ![c] = w]
      /\ mq_in' = [mq_in EXCEPT ![w] = r]
      /\ UNCHANGED <<state, halt_req, mq_out, pc, cur, late, owner, subject, aborted,
                     destroyed, freed>>
  BY DEF suscan_worker_push, thread, caller
<1>1. /\ WorkerTypeOK /\ OwnerInv /\ WorkerInv(w) /\ c # HALT /\ c # NULL /\ w # NULL
  BY WorkerAssumption DEF WorkersInv, WorkerAssumption
<1>a. \A v \in AllWorkers : cur[v] # c /\ c \notin Waiting(v) /\ v # NULL
  <2> TAKE v \in AllWorkers
  <2>1. v # NULL
    BY WorkerAssumption DEF WorkerAssumption
  <2>2. CallbackAt(v, c)
    BY OnePlaceParts DEF WorkersInv
  <2> QED
    BY <2>1, <2>2, <1>0 DEF CallbackAt
<1>b. destroyed[c] = 0
  <2>1. destroyed[c] <= 0 /\ destroyed[c] \in Nat
    BY <1>0, <1>1, OnePlaceParts DEF WorkersInv, WorkerTypeOK
  <2> QED
    BY <2>1
<1>2. /\ r \in Seq(Messages) /\ ToSet(r) = Waiting(w) \cup {c} /\ Once(r, HALT)
  <2>1. mq_in[w] \in Seq(Messages) /\ c \in Messages /\ Once(mq_in[w], HALT)
    BY <1>1, WorkerQueueTypes, OnePlaceParts DEF Messages, WorkersInv
  <2> QED
    BY <2>1, <1>a, ToSetAfter, OnceAdd DEF Waiting
<1> HIDE DEF r
<1>p. /\ mq_in'[w] = r /\ Waiting(w)' = ToSet(r) /\ home'[c] = w
      /\ \A v \in AllWorkers : v # w => mq_in'[v] = mq_in[v] /\ Waiting(v)' = Waiting(v)
      /\ \A d \in Callbacks : d # c => home'[d] = home[d]
  BY <1>0, <1>1, Domains DEF Waiting
<1>3. WorkerTypeOK'
  <2>1. /\ home \in [Callbacks -> AllWorkers \cup {NULL}]
        /\ mq_in \in [AllWorkers -> Seq(Messages)]
    BY <1>1 DEF WorkerTypeOK
  <2>2. /\ home' \in [Callbacks -> AllWorkers \cup {NULL}]
        /\ mq_in' \in [AllWorkers -> Seq(Messages)]
    BY <2>1, <1>0, <1>2
  <2> QED
    BY <2>2, <1>0, <1>1 DEF WorkerTypeOK
<1>4. OwnerInv'
  BY <1>0, <1>1 DEF OwnerInv, Alive
<1>5. ASSUME NEW v \in AllWorkers PROVE WorkerInv(v)'
  <2>1. CASE v # w
    BY <2>1, <1>0, <1>p, WorkerFrame DEF WorkersInv, WorkerInv
  <2>2. CASE v = w
    BY <2>2, <1>0, <1>1, <1>2, <1>p DEF WorkerInv, Alive
  <2> QED
    BY <2>1, <2>2
<1>6. AckMeansHalted'
  BY <1>0 DEF WorkersInv, AckMeansHalted
<1>7. CallbackInOnePlace'
  <2>1. \A v \in AllWorkers : Once(mq_in'[v], HALT)
    BY <1>p, <1>2, OnePlaceParts DEF WorkersInv
  <2>2. ASSUME NEW v \in AllWorkers, NEW d \in Callbacks
        PROVE  CallbackAt(v, d)'
    <3>0. CallbackAt(v, d)
      BY OnePlaceParts DEF WorkersInv
    <3>1. d # c => (d \in Waiting(v)' <=> d \in Waiting(v)) /\ home'[d] = home[d]
      BY <1>2, <1>p
    <3>2. CASE d # c
      BY <3>0, <3>1, <3>2, <1>0 DEF CallbackAt
    <3>3. CASE d = c
      BY <3>3, <1>0, <1>a, <1>b, <1>2, <1>p DEF CallbackAt
    <3> QED
      BY <3>2, <3>3
  <2>3. ASSUME NEW d \in Callbacks
        PROVE  destroyed'[d] <= IF home'[d] = NULL THEN 0 ELSE 1
    <3>1. destroyed[d] <= IF home[d] = NULL THEN 0 ELSE 1
      BY OnePlaceParts DEF WorkersInv
    <3> QED
      BY <3>1, <1>0, <1>1, <1>b, <1>p
  <2> QED
    BY <2>1, <2>2, <2>3, OnePlacePartsNext
<1> QED
  BY <1>3, <1>4, <1>5, <1>6, <1>7 DEF WorkersInv

LEMMA SendHaltInv ==
  ASSUME WorkersInv, SendHalt
  PROVE  WorkersInv'
<1>w. PICK w \in AllWorkers : w = subject
  BY DEF SendHalt, WorkersInv, OwnerInv
<1> DEFINE r == Cons(HALT, mq_in[w])
<1>0. /\ owner \in {"message", "abort message"} /\ w = subject
      /\ mq_in' = [mq_in EXCEPT ![w] = r]
      /\ \/ owner' = "idle" /\ subject' = NULL
         \/ owner' \in {"reading", "drain"} /\ subject' = subject
      /\ UNCHANGED <<state, halt_req, mq_out, pc, cur, late, aborted, home, destroyed, freed>>
  BY <1>w DEF SendHalt, At, Return, AfterRequest, thread
<1>1. /\ WorkerTypeOK /\ OwnerInv /\ w \in AllWorkers /\ WorkerInv(w) /\ Alive(w) /\ halt_req[w]
  BY <1>0 DEF WorkersInv, OwnerInv
<1>2. /\ r \in Seq(Messages) /\ ToSet(r) = Waiting(w) \cup {HALT}
      /\ Once(r, HALT)
  <2>1. mq_in[w] \in Seq(Messages) /\ HALT \in Messages /\ Once(mq_in[w], HALT)
    BY <1>1, WorkerQueueTypes, OnePlaceParts DEF Messages, WorkersInv
  <2> QED
    BY <2>1, ConsFacts, ToSetAfter, OnceAdd DEF Waiting
<1> HIDE DEF r
<1>p. /\ mq_in'[w] = r /\ Waiting(w)' = ToSet(r)
      /\ \A v \in AllWorkers : v # w => mq_in'[v] = mq_in[v] /\ Waiting(v)' = Waiting(v)
  BY <1>0, <1>1, Domains DEF Waiting
<1>3. WorkerTypeOK'
  <2>1. mq_in \in [AllWorkers -> Seq(Messages)]
    BY <1>1 DEF WorkerTypeOK
  <2>2. mq_in' \in [AllWorkers -> Seq(Messages)]
    BY <2>1, <1>0, <1>2
  <2>3. owner' \in Calls /\ subject' \in AllWorkers \cup {NULL}
    BY <1>0, <1>1 DEF Calls
  <2> QED
    BY <2>2, <2>3, <1>0, <1>1 DEF WorkerTypeOK
<1>4. OwnerInv'
  BY <1>0, <1>1 DEF OwnerInv, Alive
<1>5. ASSUME NEW v \in AllWorkers PROVE WorkerInv(v)'
  <2>0. WorkerInv(v) /\ state[v] # "created"
    BY <1>0 DEF WorkersInv, WorkerInv
  <2>1. CASE v # w
    BY <2>0, <2>1, <1>0, <1>p, WorkerFrame
  <2>2. CASE v = w
    BY <2>0, <2>2, <1>0, <1>1, <1>2, <1>p DEF WorkerInv, Alive
  <2> QED
    BY <2>1, <2>2
<1>6. AckMeansHalted'
  BY <1>0 DEF WorkersInv, AckMeansHalted
<1>7. CallbackInOnePlace'
  <2>1. \A v \in AllWorkers : Once(mq_in'[v], HALT)
    BY <1>p, <1>2, OnePlaceParts DEF WorkersInv
  <2>2. ASSUME NEW v \in AllWorkers, NEW d \in Callbacks
        PROVE  CallbackAt(v, d)'
    <3>0. CallbackAt(v, d) /\ d # HALT
      BY OnePlaceParts, WorkerAssumption DEF WorkersInv, WorkerAssumption
    <3>1. d \in Waiting(v)' <=> d \in Waiting(v)
      BY <3>0, <1>2, <1>p
    <3> QED
      BY <3>0, <3>1, <1>0 DEF CallbackAt
  <2>3. \A d \in Callbacks : destroyed'[d] <= IF home'[d] = NULL THEN 0 ELSE 1
    BY <1>0, OnePlaceParts DEF WorkersInv
  <2> QED
    BY <2>1, <2>2, <2>3, OnePlacePartsNext
<1> QED
  BY <1>3, <1>4, <1>5, <1>6, <1>7 DEF WorkersInv

LEMMA WorkerDestroyInv ==
  ASSUME WorkersInv, suscan_worker_destroy
  PROVE  WorkersInv'
<1>w. PICK w \in AllWorkers : w = subject
  BY DEF suscan_worker_destroy, WorkersInv, OwnerInv
<1>0. /\ owner = "destroy" /\ pc[w] = "exited" /\ w = subject
      /\ destroyed' = [c \in Callbacks |-> destroyed[c] +
                         IF c \in Waiting(w) THEN 1 ELSE 0]
      /\ mq_in' = [mq_in EXCEPT ![w] = <<>>]
      /\ freed' = freed \cup {w} /\ owner' = "idle" /\ subject' = NULL
      /\ UNCHANGED <<state, halt_req, mq_out, pc, cur, late, aborted, home>>
  BY <1>w DEF suscan_worker_destroy, Return, thread, Waiting
<1>1. /\ WorkerTypeOK /\ OwnerInv /\ w \in AllWorkers /\ WorkerInv(w)
      /\ cur[w] = NULL /\ state[w] = "halted"
  BY <1>0 DEF WorkersInv, OwnerInv, WorkerInv
<1>p. /\ mq_in'[w] = <<>> /\ Waiting(w)' = {} /\ <<>> \in Seq(Messages)
      /\ \A v \in AllWorkers : v # w => mq_in'[v] = mq_in[v] /\ Waiting(v)' = Waiting(v)
  BY <1>0, <1>1, Domains DEF Waiting, ToSet
<1>2. WorkerTypeOK'
  <2>1. mq_in \in [AllWorkers -> Seq(Messages)] /\ destroyed \in [Callbacks -> Nat]
    BY <1>1 DEF WorkerTypeOK
  <2>2. mq_in' \in [AllWorkers -> Seq(Messages)]
    BY <2>1, <1>0, <1>p
  <2>3. destroyed' \in [Callbacks -> Nat]
    BY <2>1, <1>0
  <2>4. owner' \in Calls /\ subject' \in AllWorkers \cup {NULL} /\ freed' \subseteq AllWorkers
    BY <1>0, <1>1 DEF Calls, WorkerTypeOK
  <2> QED
    BY <2>2, <2>3, <2>4, <1>0, <1>1 DEF WorkerTypeOK
<1>3. OwnerInv'
  BY <1>0 DEF OwnerInv
<1>4. ASSUME NEW v \in AllWorkers PROVE WorkerInv(v)'
  <2>0. WorkerInv(v) /\ state[v] # "created"
    BY <1>0 DEF WorkersInv, WorkerInv
  <2>1. CASE v # w
    BY <2>0, <2>1, <1>0, <1>p, WorkerFrame
  <2>2. CASE v = w
    BY <2>0, <2>2, <1>0, <1>1, <1>p DEF WorkerInv
  <2> QED
    BY <2>1, <2>2
<1>5. AckMeansHalted'
  BY <1>0 DEF WorkersInv, AckMeansHalted
<1>6. CallbackInOnePlace'
  <2>1. Once(<<>>, HALT)
    BY DEF Once
  <2>2. \A v \in AllWorkers : Once(mq_in'[v], HALT)
    BY <2>1, <1>p, OnePlaceParts DEF WorkersInv
  <2>3. ASSUME NEW v \in AllWorkers, NEW d \in Callbacks
        PROVE  CallbackAt(v, d)'
    <3>0. CallbackAt(v, d) /\ CallbackAt(w, d) /\ d # NULL
      BY <1>1, OnePlaceParts, WorkerAssumption DEF WorkersInv, WorkerAssumption
    <3>1. destroyed'[d] = IF d \in Waiting(w) THEN destroyed[d] + 1 ELSE destroyed[d]
      BY <1>0, <1>1 DEF WorkerTypeOK
    <3>2. CASE v # w
      <4>1. d \in Waiting(v) \/ cur[v] = d \/ home[d] = v => d \notin Waiting(w)
        BY <3>0, <3>2 DEF CallbackAt
      <4> QED
        BY <3>0, <3>1, <3>2, <4>1, <1>0, <1>p DEF CallbackAt
    <3>3. CASE v = w
      BY <3>0, <3>1, <3>3, <1>0, <1>1, <1>p DEF CallbackAt
    <3> QED
      BY <3>2, <3>3
  <2>4. ASSUME NEW d \in Callbacks
        PROVE  destroyed'[d] <= IF home'[d] = NULL THEN 0 ELSE 1
    <3>0. CallbackAt(w, d) /\ w # NULL
      BY <1>1, OnePlaceParts, WorkerAssumption DEF WorkersInv, WorkerAssumption
    <3>1. destroyed[d] <= IF home[d] = NULL THEN 0 ELSE 1
      BY OnePlaceParts DEF WorkersInv
    <3>2. destroyed'[d] = IF d \in Waiting(w) THEN destroyed[d] + 1 ELSE destroyed[d]
      BY <1>0, <1>1 DEF WorkerTypeOK
    <3> QED
      BY <3>0, <3>1, <3>2, <1>0 DEF CallbackAt
  <2> QED
    BY <2>2, <2>3, <2>4, OnePlacePartsNext
<1> QED
  BY <1>2, <1>3, <1>4, <1>5, <1>6 DEF WorkersInv

-----------------------------------------------------------------------------
(* Theorems *)

\* Every step of the workers, their owner and the pushers keeps Inv.
THEOREM WorkerInvHolds == WorkerSpec => []WorkersInv
<1>1. WorkersInv /\ [WorkerNext]_worker_vars => WorkersInv'
  <2> SUFFICES ASSUME WorkersInv, [WorkerNext]_worker_vars PROVE WorkersInv'
    OBVIOUS
  <2>1. ASSUME NEW w \in AllWorkers, suscan_worker_thread(w)
        PROVE  WorkersInv'
    BY <2>1, WorkerMoveInv, TakeInv, RequeueInv, FinishInv, AnswerInv DEF suscan_worker_thread
  <2>2. ASSUME NEW w \in AllWorkers,
               \/ CallbackWrites(w) \/ Create(w) \/ BeginHalt(w) \/ AbortOnly(w)
               \/ \E c \in Callbacks : suscan_worker_push(w, c)
        PROVE  WorkersInv'
    BY <2>2, AnswerInv, CreateInv, OwnerMoveInv, PushInv
  <2>3. CASE HaltSteps \/ SpuriousWakeup
    BY <2>3, CreatedInv, OwnerMoveInv, SetFlagInv, SendHaltInv, WorkerDestroyInv DEF HaltSteps
  <2>4. CASE UNCHANGED worker_vars
    <3>1. WorkerTypeOK'
      BY <2>4 DEF worker_vars, WorkersInv, WorkerTypeOK
    <3>2. OwnerInv' /\ AckMeansHalted'
      BY <2>4 DEF worker_vars, WorkersInv, OwnerInv, AckMeansHalted, Alive
    <3>3. \A w \in AllWorkers : WorkerInv(w)'
      BY <2>4, WorkerFrame DEF worker_vars, WorkersInv, WorkerInv
    <3>4. CallbackInOnePlace'
      BY <2>4 DEF worker_vars, WorkersInv, CallbackInOnePlace, Waiting
    <3> QED
      BY <3>1, <3>2, <3>3, <3>4 DEF WorkersInv
  <2> QED
    BY <2>1, <2>2, <2>3, <2>4 DEF WorkerNext
<1> QED
  BY WorkerInitInv, <1>1, PTL DEF WorkerSpec

\* A worker is freed only when its thread has ended (suscan_worker_destroy).
THEOREM NoWorkerFreedEarly == WorkerSpec => []FreedAfterExit
<1>1. WorkersInv => FreedAfterExit
  BY DEF WorkersInv, WorkerInv, FreedAfterExit, WorkerTypeOK
<1> QED
  BY WorkerInvHolds, <1>1, PTL

\* A HALT answer in mq_out comes from a worker whose state says halted.
THEOREM AnswerMeansHalted == WorkerSpec => []AckMeansHalted
<1>1. WorkersInv => AckMeansHalted
  BY DEF WorkersInv
<1> QED
  BY WorkerInvHolds, <1>1, PTL

\* One more callback at most is started after halt_req is set.
THEOREM HaltIsPrompt == WorkerSpec => []AtMostOneMore
<1>1. WorkersInv => AtMostOneMore
  BY DEF WorkersInv, WorkerInv, AtMostOneMore
<1> QED
  BY WorkerInvHolds, <1>1, PTL

\* A callback is queued, running or freed, in one place and once.
THEOREM CallbacksHaveOnePlace == WorkerSpec => []CallbackInOnePlace
<1>1. WorkersInv => CallbackInOnePlace
  BY DEF WorkersInv
<1> QED
  BY WorkerInvHolds, <1>1, PTL

\* Every callback of a destroyed worker was freed.
THEOREM NothingLeaks == WorkerSpec => []NoLeak
<1>1. WorkersInv => NoLeak
  <2> SUFFICES ASSUME WorkersInv, NEW c \in Callbacks, home[c] \in freed
               PROVE  destroyed[c] = 1
    BY DEF NoLeak
  <2> DEFINE w == home[c]
  <2>1. w \in AllWorkers /\ WorkerInv(w) /\ c # NULL
    BY WorkerAssumption DEF WorkersInv, WorkerTypeOK, WorkerAssumption
  <2>2. mq_in[w] = <<>> /\ cur[w] = NULL
    BY <2>1 DEF WorkerInv
  <2>3. Waiting(w) = {}
    BY <2>2 DEF Waiting, ToSet
  <2>4. CallbackAt(w, c)
    BY <2>1, OnePlaceParts DEF WorkersInv
  <2> QED
    BY <2>1, <2>2, <2>3, <2>4 DEF CallbackAt
<1> QED
  BY WorkerInvHolds, <1>1, PTL

=============================================================================
