------------------------------ MODULE InspSched ------------------------------
(***************************************************************************)
(* The inspector scheduler (analyzer/inspsched.c) between the source       *)
(* worker, which feeds every open channel with the block of samples that   *)
(* the spectral tuner has just produced (analyzer/workers/channel.c,       *)
(* analyzer/inspector/factory.c), and the pool of workers that process     *)
(* them.  The samples are not copied: a task only points to the tuner's    *)
(* buffer, which the next block overwrites, so that the source worker      *)
(* waits for all the tasks on a barrier, queued behind them.               *)
(*                                                                         *)
(* Each worker is the loop of Worker.tla, one step per callback.  What an  *)
(* inspector's state does to its feed is in InspLife.tla.                  *)
(***************************************************************************)
EXTENDS Integers, Sequences, FiniteSets

CONSTANTS
  WorkerCount,  \* suscan_inspsched_get_min_workers(): at least one
  Inspectors,   \* inspectors with an open channel
  Infos,        \* task infos the heap can hold
  MaxFailures,  \* bound on the allocations that fail
  BARRIER, None

ASSUME InspSchedAssumption ==
  /\ WorkerCount \in Nat \ {0}
  /\ MaxFailures \in Nat
  /\ IsFiniteSet(Infos)
  /\ BARRIER \notin Infos /\ None \notin Infos \cup Inspectors

Workers == 0 .. WorkerCount - 1

VARIABLES
  src,        \* where the source worker is; later, the thread that destroys
  todo,       \* inspectors the tuner has yet to feed in this block
  insp,       \* inspector being fed
  info,       \* the task info suscan_inspector_factory_feed holds
  free_list, alloc_list,
  inspector,  \* task_info->inspector
  last_worker,
  index,      \* the loop counter of suscan_inspsched_sync and _destroy
  queue,      \* mq_in of each worker
  worker,     \* what each worker does
  task,       \* the task info it processes
  failures,   \* allocations that failed
  broken      \* history: a barrier could not be queued

vars == <<src, todo, insp, info, free_list, alloc_list, inspector, last_worker,
          index, queue, worker, task, failures, broken>>
feeding == <<todo, insp, info, last_worker>>
lists == <<free_list, alloc_list, inspector>>
pool == <<queue, worker, task>>
faults == <<failures, broken>>

Init ==
  /\ src = "idle" /\ todo = {} /\ insp = None /\ info = None
  /\ free_list = {} /\ alloc_list = {}
  /\ inspector = [i \in Infos |-> None]
  /\ last_worker = 0 /\ index = 0
  /\ queue = [w \in Workers |-> <<>>]
  /\ worker = [w \in Workers |-> "ready"]
  /\ task = [w \in Workers |-> None]
  /\ failures = 0 /\ broken = FALSE

MayFail == failures < MaxFailures /\ failures' = failures + 1

-----------------------------------------------------------------------------
(* The source worker *)

\* suscan_local_analyzer_feed_inspectors: the tuner has filled a window and
\* calls on_data once for each channel, while stuner_mutex is held.
NewBlock(S) ==
  /\ src = "idle"
  /\ src' = "feed" /\ todo' = S
  /\ UNCHANGED <<insp, info, last_worker, lists, index, pool, faults>>

\* suscan_inspsched_acquire_task_info, up to the release of task_mutex.
suscan_inspsched_acquire_task_info(n) ==
  /\ src = "feed" /\ n \in todo
  /\ todo' = todo \ {n} /\ insp' = n
  /\ IF free_list = {}
       THEN src' = "calloc" /\ UNCHANGED <<info, lists>>
       ELSE \E i \in free_list :
              /\ src' = "queue" /\ info' = i
              /\ free_list' = free_list \ {i}
              /\ alloc_list' = alloc_list \cup {i}
              /\ inspector' = [inspector EXCEPT ![i] = n]
  /\ UNCHANGED <<last_worker, index, pool, faults>>

Heap == Infos \ (free_list \cup alloc_list)

\* ... and from there on, when the free list was empty: the workers may have
\* returned some infos in the meantime.
suscan_inspector_task_info_new ==
  /\ src = "calloc"
  /\ Heap # {}
  /\ src' = "queue" /\ info' = (CHOOSE i \in Heap : TRUE)
  /\ alloc_list' = alloc_list \cup {info'}
  /\ inspector' = [inspector EXCEPT ![info'] = insp]
  /\ UNCHANGED <<todo, insp, last_worker, free_list, index, pool, faults>>

\* No memory, now or because the heap is full: the inspector misses this block.
AcquireFails ==
  /\ src = "calloc"
  /\ MayFail \/ (Heap = {} /\ UNCHANGED failures)
  /\ src' = "feed"
  /\ UNCHANGED <<feeding, lists, index, pool, broken>>

suscan_inspsched_queue_task ==
  /\ src = "queue"
  /\ queue' = [queue EXCEPT ![last_worker] = Append(@, info)]
  /\ last_worker' = IF last_worker + 1 = WorkerCount THEN 0 ELSE last_worker + 1
  /\ src' = "feed" /\ info' = None
  /\ UNCHANGED <<todo, insp, lists, index, worker, task, faults>>

\* suscan_worker_push fails: suscan_inspector_factory_feed returns the info.
QueueFails ==
  /\ src = "queue" /\ MayFail
  /\ src' = "feed" /\ info' = None
  /\ alloc_list' = alloc_list \ {info}
  /\ free_list' = free_list \cup {info}
  /\ UNCHANGED <<todo, insp, last_worker, inspector, index, pool, broken>>

Fed ==
  /\ src = "feed" /\ todo = {}
  /\ src' = "sync" /\ index' = 0
  /\ UNCHANGED <<feeding, lists, pool, faults>>

\* Mutant: the barrier overtakes the tasks, as an urgent message would.
PushBarrierInFront ==
  /\ src = "sync" /\ index < WorkerCount
  /\ queue' = [queue EXCEPT ![index] = <<BARRIER>> \o @]
  /\ index' = index + 1
  /\ UNCHANGED <<src, feeding, lists, worker, task, faults>>

\* suscan_inspsched_sync
PushBarrier ==
  /\ src = "sync" /\ index < WorkerCount
  /\ queue' = [queue EXCEPT ![index] = Append(@, BARRIER)]
  /\ index' = index + 1
  /\ UNCHANGED <<src, feeding, lists, worker, task, faults>>

\* It returns FALSE at once, and nobody looks at what it returns.
PushBarrierFails ==
  /\ src = "sync" /\ index < WorkerCount /\ MayFail
  /\ src' = "ack" /\ broken' = TRUE
  /\ UNCHANGED <<feeding, lists, index, pool>>

\* Mutant: the last worker gets no barrier.
WaitTooEarly ==
  /\ src = "sync" /\ index >= WorkerCount - 1
  /\ src' = "barrier"
  /\ UNCHANGED <<feeding, lists, index, pool, faults>>

WaitForWorkers ==
  /\ src = "sync" /\ index = WorkerCount
  /\ src' = "barrier"
  /\ UNCHANGED <<feeding, lists, index, pool, faults>>

\* pthread_barrier_wait, for worker_count + 1 threads.
pthread_barrier_wait ==
  /\ src = "barrier" /\ \A w \in Workers : worker[w] = "barrier"
  /\ src' = "ack"
  /\ worker' = [w \in Workers |-> "ready"]
  /\ UNCHANGED <<feeding, lists, index, queue, task, faults>>

\* su_specttuner_ack_data: the buffer is free for the next block.
AckData ==
  /\ src = "ack" /\ src' = "idle"
  /\ UNCHANGED <<feeding, lists, index, pool, faults>>

-----------------------------------------------------------------------------
(* The workers *)

\* suscan_inpsched_task_cb: the three loops over the samples.
TakeTask(w) ==
  /\ worker[w] = "ready" /\ queue[w] # <<>> /\ Head(queue[w]) # BARRIER
  /\ queue' = [queue EXCEPT ![w] = Tail(@)]
  /\ worker' = [worker EXCEPT ![w] = "task"]
  /\ task' = [task EXCEPT ![w] = Head(queue[w])]
  /\ UNCHANGED <<src, feeding, lists, index, faults>>

\* suscan_inspsched_return_task_info, under task_mutex.
suscan_inspsched_return_task_info(w) ==
  /\ worker[w] = "task"
  /\ alloc_list' = alloc_list \ {task[w]}
  /\ free_list' = free_list \cup {task[w]}
  /\ worker' = [worker EXCEPT ![w] = "ready"]
  /\ task' = [task EXCEPT ![w] = None]
  /\ UNCHANGED <<src, feeding, inspector, index, queue, faults>>

suscan_inpsched_barrier_cb(w) ==
  /\ worker[w] = "ready" /\ queue[w] # <<>> /\ Head(queue[w]) = BARRIER
  /\ queue' = [queue EXCEPT ![w] = Tail(@)]
  /\ worker' = [worker EXCEPT ![w] = "barrier"]
  /\ UNCHANGED <<src, feeding, lists, index, task, faults>>

-----------------------------------------------------------------------------
(* suscan_inspsched_destroy, when the source worker is gone *)

BeginDestroy ==
  /\ src = "idle"
  /\ src' = "destroy" /\ index' = 0
  /\ UNCHANGED <<feeding, lists, pool, faults>>

\* suscan_analyzer_halt_worker: a worker stops between two callbacks and its
\* queue is emptied.
HaltWorker ==
  /\ src = "destroy" /\ index < WorkerCount
  /\ worker[index] = "ready"
  /\ worker' = [worker EXCEPT ![index] = "halted"]
  /\ queue' = [queue EXCEPT ![index] = <<>>]
  /\ index' = index + 1
  /\ UNCHANGED <<src, feeding, lists, task, faults>>

suscan_inspsched_destroy ==
  /\ src = "destroy" /\ index = WorkerCount
  /\ src' = "gone"
  /\ free_list' = {} /\ alloc_list' = {}
  /\ UNCHANGED <<feeding, inspector, index, pool, faults>>

-----------------------------------------------------------------------------
SourceSteps ==
  \/ \E n \in Inspectors : suscan_inspsched_acquire_task_info(n)
  \/ suscan_inspector_task_info_new
  \/ AcquireFails \/ suscan_inspsched_queue_task \/ QueueFails \/ Fed
  \/ PushBarrier \/ PushBarrierFails \/ WaitForWorkers \/ pthread_barrier_wait
  \/ AckData \/ HaltWorker \/ suscan_inspsched_destroy

WorkerSteps(w) ==
  TakeTask(w) \/ suscan_inspsched_return_task_info(w) \/ suscan_inpsched_barrier_cb(w)

Next ==
  \/ \E S \in SUBSET Inspectors : NewBlock(S)
  \/ BeginDestroy \/ SourceSteps
  \/ \E w \in Workers : WorkerSteps(w)

Spec == Init /\ [][Next]_vars

\* Threads that can run do, and the processing of a block of samples ends.
FairSpec ==
  /\ Spec
  /\ WF_vars(SourceSteps)
  /\ \A w \in Workers : WF_vars(WorkerSteps(w))

-----------------------------------------------------------------------------
(* Properties *)

Sites == {"idle", "feed", "calloc", "queue", "sync", "barrier", "ack", "destroy", "gone"}

\* The scheduler's fields, queues and threads have proper values.
TypeOK ==
  /\ src \in Sites
  /\ todo \subseteq Inspectors /\ insp \in Inspectors \cup {None}
  /\ info \in Infos \cup {None}
  /\ free_list \subseteq Infos /\ alloc_list \subseteq Infos
  /\ inspector \in [Infos -> Inspectors \cup {None}]
  /\ last_worker \in Workers
  /\ index \in 0 .. WorkerCount
  /\ queue \in [Workers -> Seq(Infos \cup {BARRIER})]
  /\ worker \in [Workers -> {"ready", "task", "barrier", "halted"}]
  /\ task \in [Workers -> Infos \cup {None}]
  /\ failures \in 0 .. MaxFailures /\ broken \in BOOLEAN

Queued(w) == {queue[w][k] : k \in 1 .. Len(queue[w])} \ {BARRIER}
Pending == UNION {Queued(w) : w \in Workers}
Running == {task[w] : w \in Workers} \ {None}

\* An info is in the alloc list exactly while one task uses it, in one queue or
\* one worker or in the hands of the source worker, whatever allocation fails:
\* none is handed out twice, and none is lost.
InfoAccounted ==
  /\ free_list \cap alloc_list = {}
  /\ src \notin {"destroy", "gone"} =>
       alloc_list = Pending \cup Running \cup ({info} \ {None})
  /\ info \notin Pending \cup Running
  /\ Pending \cap Running = {}
  /\ \A v, w \in Workers : task[v] = task[w] => v = w \/ task[v] = None
  /\ \A v, w \in Workers : \A j \in 1 .. Len(queue[v]), k \in 1 .. Len(queue[w]) :
       queue[v][j] = queue[w][k] => queue[v][j] = BARRIER \/ (v = w /\ j = k)

\* When the tuner's buffer is free to be overwritten, no task that points into
\* it is queued or running.
BlockComplete ==
  src \in {"ack", "idle", "destroy", "gone"} /\ ~broken => Pending \cup Running = {}

\* Two workers never process the samples of one inspector at once: its sampler
\* buffer has no lock.
OneTaskPerInspector ==
  ~broken => \A i, j \in alloc_list : inspector[i] = inspector[j] => i = j

\* Every block ends: the barrier is reached by all the workers, and the source
\* worker is not left waiting.
BlockEnds == src \notin {"idle", "destroy", "gone"} ~> src = "idle"

=============================================================================
