------------------------------ MODULE TxThread -------------------------------
(***************************************************************************)
(* The transmission thread that the device server keeps for each of its    *)
(* clients (cli/devserv/tx.c), with the queue it reads and the emergency   *)
(* cleanup of that queue (suscan_mq_trigger_cleanup in analyzer/mq.c with  *)
(* the callbacks of tx.c).                                                 *)
(*                                                                         *)
(* The server's threads push PDUs: each one takes a buffer from the pool,  *)
(* or from the heap, and leaves it in the queue.  The thread takes them    *)
(* out, sends them and returns the buffers to the pool.  When the queue    *)
(* reaches its watermark, PDUs are thrown away, depending on their kind.   *)
(* The owner of the client closes it (suscli_analyzer_client_shutdown) or  *)
(* only destroys it; by then the client is out of the server's list and    *)
(* nobody pushes.                                                          *)
(*                                                                         *)
(* The queue and the pool are the atomic queue of AtomicQueue.tla, which   *)
(* MessageQueue.tla implements.                                            *)
(***************************************************************************)
EXTENDS Integers, Sequences, FiniteSets, SequencesExt

CONSTANTS
  Buffers,      \* grow_buf_t objects the heap can hold
  Pushers,      \* threads of the server that push
  WATERMARK,    \* SUSCLI_ANALYZER_CLIENT_TX_CLEANUP_WATERMARK
  MaxPDUs,      \* bound on the PDUs pushed
  MaxFailures,  \* bound on the allocations that fail
  CANCEL,       \* SUSCLI_ANALYZER_CLIENT_TX_CANCEL, the message without buffer
  None

\* How the cleanup classifies a PDU: PSDs and inspector spectra may be
\* discarded, a source information is revoked by the next one.
Kinds == {"critical", "source_info", "discardable"}
PDUs == [id : 1 .. MaxPDUs, kind : Kinds]

ASSUME TxThreadAssumption ==
  /\ IsFiniteSet(Buffers) /\ IsFiniteSet(Pushers)
  /\ WATERMARK \in Nat \ {0} /\ MaxPDUs \in Nat /\ MaxFailures \in Nat
  /\ {CANCEL, None} \cap (Buffers \cup PDUs) = {} /\ CANCEL # None

VARIABLES
  queue,     \* self->queue: buffers and CANCELs
  pool,      \* self->pool
  live,      \* buffers that are allocated
  pdu,       \* what each buffer holds
  pushing,   \* buffer each pusher has, between its allocation and its write
  tx,        \* where the thread is
  sending,   \* the buffer in its hands
  owner,     \* where the thread that stops and finalizes is
  thread_cancelled,
  pipe,      \* a byte in cancel_pipefd
  peer,      \* the other end of the connection
  pdus,      \* PDUs created so far
  failures,  \* allocations that failed so far
  overflow,  \* the recursion of the cleanup exhausted the stack
  leaked,    \* source infos nobody refers to any more
  written,   \* history: what entered the queue, in this order
  wire       \* history: PDUs that were sent to the last byte

vars == <<queue, pool, live, pdu, pushing, tx, sending, owner,
          thread_cancelled, pipe, peer, pdus, failures, overflow, leaked,
          written, wire>>
buffers == <<queue, pool, live, pdu, pushing, leaked>>
thread == <<tx, sending, wire>>
stopping == <<owner, thread_cancelled, pipe>>
pushers == <<pushing, pdus, pdu>>
faults == <<failures, overflow>>

Init ==
  /\ queue = <<>> /\ pool = <<>> /\ live = {} /\ leaked = {}
  /\ pdu = [b \in Buffers |-> None]
  /\ pushing = [p \in Pushers |-> None]
  /\ tx = "read" /\ sending = None
  /\ owner = "up" /\ thread_cancelled = FALSE /\ pipe = FALSE
  /\ peer = "reading"
  /\ pdus = 0 /\ failures = 0 /\ overflow = FALSE
  /\ written = <<>> /\ wire = <<>>

(***************************************************************************)
(* The cleanup.                                                            *)
(***************************************************************************)
HasKind(m, k) == m # CANCEL /\ pdu[m].kind = k

\* The source infos in front of the first critical message: try_destroy
\* takes each of them out of the queue, save_source_info keeps the last.
HeadInfos(q) ==
  {i \in DOMAIN q : /\ HasKind(q[i], "source_info")
                    /\ \A j \in 1 .. i - 1 : ~HasKind(q[j], "critical")}

\* Mutant: the walk takes the head of the queue out before it looks at it.
DestroyHeadToo(q) ==
  {q[i] : i \in HeadInfos(q) \cup {1}}
    \cup {m \in ToSet(q) : HasKind(m, "discardable")}

try_destroy(q) ==
  {q[i] : i \in HeadInfos(q)}
    \cup {m \in ToSet(q) : HasKind(m, "discardable")}

\* Mutant: the first source info is kept, not the last.
FirstSourceInfo(q) ==
  {q[i] : i \in {h \in HeadInfos(q) : \A j \in HeadInfos(q) : h <= j}}

\* The one that is saved, if there is one.
head_source_info(q) ==
  {q[i] : i \in {h \in HeadInfos(q) : \A j \in HeadInfos(q) : j <= h}}

\* What the walk leaves in the queue: the places of a set S in their order.
Kept(q) == {i \in DOMAIN q : q[i] \notin try_destroy(q)}

Walks(S) ==
  {at \in [1 .. Cardinality(S) -> S] :
     /\ Range(at) = S
     /\ \A i, j \in DOMAIN at : i < j => at[i] < at[j]}

Left(q) == {[i \in DOMAIN at |-> q[at[i]]] : at \in Walks(Kept(q))}

\* post_cleanup pushes the source info it saved to the front of the queue,
\* and that push triggers the cleanup of the same queue again.
Recurses(q) ==
  /\ head_source_info(q) # {}
  /\ Cardinality(Kept(q)) + 1 >= WATERMARK

Cleaned(q) ==
  IF head_source_info(q) = {} THEN Left(q)
  ELSE LET saved == CHOOSE m \in head_source_info(q) : TRUE
       IN {Cons(saved, r) : r \in Left(q)}

\* What suscan_mq_push or suscan_mq_push_front leave, q being the queue with
\* its new message: below the watermark, or clean, or as it was because
\* pre_cleanup had no memory, or without the saved source info because
\* post_cleanup had none.
suscan_mq_cleanup_if_needed(q, owned) ==
  \/ /\ Len(q) < WATERMARK
     /\ queue' = q /\ live' = owned
     /\ UNCHANGED <<faults, leaked>>
  \/ /\ Len(q) >= WATERMARK
     /\ queue' \in Cleaned(q)
     /\ live' = owned \ (try_destroy(q) \ head_source_info(q))
     /\ overflow' = Recurses(q)
     /\ UNCHANGED <<failures, leaked>>
  \/ /\ Len(q) >= WATERMARK
     /\ failures < MaxFailures
     /\ failures' = failures + 1
     /\ \/ queue' = q /\ live' = owned /\ UNCHANGED leaked
        \/ /\ head_source_info(q) # {}
           /\ queue' \in Left(q)
           /\ live' = owned \ (try_destroy(q) \ head_source_info(q))
           /\ leaked' = leaked \cup head_source_info(q)
     /\ UNCHANGED overflow

suscan_mq_write(m, owned) == suscan_mq_cleanup_if_needed(Append(queue, m), owned)

suscan_mq_write_urgent(m, owned) ==
  suscan_mq_cleanup_if_needed(<<m>> \o queue, owned)

(***************************************************************************)
(* The pushers.                                                            *)
(***************************************************************************)
\* The client leaves the server's list before it is finalized.
InList == owner \in {"up", "cancel_soft", "join_soft", "closed"}

\* An object that is not allocated, whichever.
malloc == CHOOSE b \in Buffers : b \notin live

alloc_buffer(p) ==
  /\ ~overflow /\ InList
  /\ pushing[p] = None /\ pdus < MaxPDUs
  /\ \E b \in Buffers, k \in Kinds :
       /\ \/ pool # <<>> /\ b = Head(pool) /\ pool' = Tail(pool) /\ UNCHANGED live
          \/ /\ pool = <<>> /\ live # Buffers
             /\ b = malloc /\ live' = live \cup {b} /\ UNCHANGED pool
       /\ pdu' = [pdu EXCEPT ![b] = [id |-> pdus + 1, kind |-> k]]
       /\ pushing' = [pushing EXCEPT ![p] = b]
  /\ pdus' = pdus + 1
  /\ UNCHANGED <<queue, leaked, thread, stopping, peer, faults, written>>

\* suscan_mq_write in push_zerocopy
push_zerocopy(p) ==
  /\ ~overflow
  /\ pushing[p] # None
  /\ suscan_mq_write(pushing[p], live)
  /\ written' = Append(written, pdu[pushing[p]])
  /\ pushing' = [pushing EXCEPT ![p] = None]
  /\ UNCHANGED <<pool, pdu, pdus, thread, stopping, peer>>

\* There is no memory for the message; the caller is told.
PushFails(p) ==
  /\ ~overflow
  /\ pushing[p] # None /\ failures < MaxFailures
  /\ failures' = failures + 1
  /\ live' = live \ {pushing[p]}
  /\ pushing' = [pushing EXCEPT ![p] = None]
  /\ UNCHANGED <<queue, pool, leaked, pdu, pdus, thread, stopping, peer,
                 overflow, written>>

(***************************************************************************)
(* The transmission thread.                                                *)
(***************************************************************************)
\* done: the buffer in its hands is freed and thread_finished is set.
Finish ==
  /\ tx' = "finished"
  /\ live' = live \ {sending}
  /\ sending' = None

\* suscan_mq_read; a CANCEL has no buffer and ends the loop.
Read ==
  /\ ~overflow
  /\ tx = "read" /\ queue # <<>>
  /\ queue' = Tail(queue)
  /\ IF Head(queue) = CANCEL
     THEN tx' = "finished" /\ UNCHANGED sending
     ELSE tx' = "poll" /\ sending' = Head(queue)
  /\ UNCHANGED <<pool, live, leaked, pushers, wire, stopping, peer, faults,
                 written>>

\* poll returns when the cancel pipe has a byte or the socket has room for
\* more, or failed; the pipe is looked at first.
Poll ==
  /\ ~overflow
  /\ tx = "poll"
  /\ pipe \/ peer # "stalled"
  /\ IF pipe
     THEN Finish /\ pipe' = FALSE
     ELSE /\ IF peer = "gone" THEN Finish
             ELSE tx' = "header" /\ UNCHANGED <<live, sending>>
          /\ UNCHANGED pipe
  /\ UNCHANGED <<queue, pool, leaked, pushers, wire, owner, thread_cancelled,
                 peer, faults, written>>

\* A long PDU is deflated first, for which there may be no memory; then send
\* blocks while the other end does not read.
SendHeader ==
  /\ ~overflow
  /\ tx = "header"
  /\ \/ /\ peer # "stalled"
        /\ IF peer = "gone" THEN Finish
           ELSE tx' = "body" /\ UNCHANGED <<live, sending>>
        /\ UNCHANGED failures
     \/ /\ failures < MaxFailures /\ failures' = failures + 1
        /\ Finish
  /\ UNCHANGED <<queue, pool, leaked, pushers, wire, stopping, peer, overflow,
                 written>>

\* The buffer goes to the pool, or to the heap when the pool has no memory for
\* a message.
dispose_buffer ==
  /\ \/ pool' = Append(pool, sending) /\ UNCHANGED <<live, failures>>
     \/ /\ failures < MaxFailures /\ failures' = failures + 1
        /\ live' = live \ {sending} /\ UNCHANGED pool
  /\ sending' = None
  /\ tx' = "read"

\* Between two chunks of the PDU, thread_cancelled is looked at.
CheckCancelled ==
  /\ ~overflow
  /\ tx = "body"
  /\ IF thread_cancelled THEN dispose_buffer
     ELSE tx' = "chunk" /\ UNCHANGED <<pool, live, sending, failures>>
  /\ UNCHANGED <<queue, leaked, pushers, wire, stopping, peer, overflow,
                 written>>

\* The last chunk; with it the PDU is whole.
SendChunk ==
  /\ ~overflow
  /\ tx = "chunk" /\ peer # "stalled"
  /\ IF peer = "gone" THEN Finish /\ UNCHANGED <<pool, wire, failures>>
     ELSE wire' = Append(wire, pdu[sending]) /\ dispose_buffer
  /\ UNCHANGED <<queue, leaked, pushers, stopping, peer, overflow, written>>

(***************************************************************************)
(* The owner: suscli_analyzer_client_shutdown and _destroy.                *)
(***************************************************************************)
stop_soft ==
  /\ ~overflow
  /\ owner = "up"
  /\ owner' = IF tx = "finished" THEN "join_soft" ELSE "cancel_soft"
  /\ UNCHANGED <<buffers, thread, thread_cancelled, pipe, peer, pdus, faults,
                 written>>

cancel_soft ==
  /\ ~overflow
  /\ owner = "cancel_soft"
  /\ suscan_mq_write(CANCEL, live)
  /\ written' = Append(written, CANCEL)
  /\ owner' = "join_soft"
  /\ UNCHANGED <<pool, pushers, thread, thread_cancelled, pipe, peer>>

\* pthread_join, then the socket is shut down.
JoinSoft ==
  /\ ~overflow
  /\ owner = "join_soft" /\ tx = "finished"
  /\ owner' = "closed"
  /\ UNCHANGED <<buffers, thread, thread_cancelled, pipe, peer, pdus, faults,
                 written>>

\* There is no memory for the CANCEL; nobody looks at the result.
CancelFails ==
  /\ ~overflow
  /\ owner \in {"cancel_soft", "cancel"} /\ failures < MaxFailures
  /\ failures' = failures + 1
  /\ owner' = IF owner = "cancel" THEN "pipe" ELSE "join_soft"
  /\ UNCHANGED <<buffers, thread, thread_cancelled, pipe, peer, pdus, overflow,
                 written>>

\* suscli_analyzer_client_tx_thread_stop, first thing of finalize.  After a
\* soft stop, thread_running is false.
stop ==
  /\ ~overflow
  /\ owner \in {"up", "closed"}
  /\ \A p \in Pushers : pushing[p] = None
  /\ \/ /\ owner = "closed"
        /\ owner' = "consume" /\ UNCHANGED thread_cancelled
     \/ /\ owner = "up" /\ tx = "finished"
        /\ owner' = "join" /\ UNCHANGED thread_cancelled
     \/ /\ owner = "up" /\ tx # "finished"
        /\ owner' = "cancel" /\ thread_cancelled' = TRUE
  /\ UNCHANGED <<buffers, thread, pipe, peer, pdus, faults, written>>

cancel ==
  /\ ~overflow
  /\ owner = "cancel"
  /\ suscan_mq_write_urgent(CANCEL, live)
  /\ owner' = "pipe"
  /\ UNCHANGED <<pool, pushers, thread, thread_cancelled, pipe, peer, written>>

\* Mutant: the thread is cancelled through the queue only.
NoPipe ==
  /\ ~overflow
  /\ owner = "pipe"
  /\ owner' = "join"
  /\ UNCHANGED <<buffers, thread, thread_cancelled, pipe, peer, pdus, faults,
                 written>>

WritePipe ==
  /\ ~overflow
  /\ owner = "pipe"
  /\ pipe' = TRUE
  /\ owner' = "join"
  /\ UNCHANGED <<buffers, thread, thread_cancelled, peer, pdus, faults, written>>

Join ==
  /\ ~overflow
  /\ owner = "join" /\ tx = "finished"
  /\ owner' = "consume"
  /\ UNCHANGED <<buffers, thread, thread_cancelled, pipe, peer, pdus, faults,
                 written>>

\* The rest of suscli_analyzer_client_tx_thread_finalize: what is left in
\* the pool and in the queue is freed.
finalize ==
  /\ ~overflow
  /\ owner = "consume"
  /\ live' = live \ (ToSet(pool) \cup ToSet(queue))
  /\ pool' = <<>> /\ queue' = <<>>
  /\ owner' = "gone"
  /\ UNCHANGED <<leaked, pushers, thread, thread_cancelled, pipe, peer, faults,
                 written>>

\* The other end stops reading, reads again, or closes the connection.
Peer ==
  /\ ~overflow
  /\ peer # "gone" /\ peer' \in {"reading", "stalled", "gone"} \ {peer}
  /\ UNCHANGED <<buffers, thread, stopping, pdus, faults, written>>

Next ==
  \/ \E p \in Pushers : alloc_buffer(p) \/ push_zerocopy(p) \/ PushFails(p)
  \/ Read \/ Poll \/ SendHeader \/ CheckCancelled \/ SendChunk
  \/ stop_soft \/ cancel_soft \/ JoinSoft \/ CancelFails
  \/ stop \/ cancel \/ WritePipe \/ Join \/ finalize
  \/ Peer

Spec == Init /\ [][Next]_vars

\* Every thread that can take a step takes it; the other end, the decision
\* to push and the decision to stop are not forced.
FairSpec ==
  /\ Spec
  /\ \A p \in Pushers : WF_vars(push_zerocopy(p))
  /\ WF_vars(Read \/ Poll \/ SendHeader \/ CheckCancelled \/ SendChunk)
  /\ WF_vars(cancel_soft \/ JoinSoft \/ cancel \/ WritePipe \/ Join \/ finalize)

(***************************************************************************)
(* Properties.                                                             *)
(***************************************************************************)
\* Every variable has the values the fields of the C structures can have.
TypeOK ==
  /\ queue \in Seq(Buffers \cup {CANCEL}) /\ pool \in Seq(Buffers)
  /\ live \in SUBSET Buffers /\ leaked \in SUBSET Buffers
  /\ pdu \in [Buffers -> PDUs \cup {None}]
  /\ pushing \in [Pushers -> Buffers \cup {None}]
  /\ tx \in {"read", "poll", "header", "body", "chunk", "finished"}
  /\ sending \in Buffers \cup {None}
  /\ sending # None <=> tx \in {"poll", "header", "body", "chunk"}
  /\ owner \in {"up", "cancel_soft", "join_soft", "closed", "cancel", "pipe",
                "join", "consume", "gone"}
  /\ thread_cancelled \in BOOLEAN /\ pipe \in BOOLEAN /\ overflow \in BOOLEAN
  /\ peer \in {"reading", "stalled", "gone"}
  /\ pdus \in 0 .. MaxPDUs /\ failures \in 0 .. MaxFailures
  /\ written \in Seq(PDUs \cup {CANCEL}) /\ wire \in Seq(PDUs)

\* How many times a buffer is referred to from the queue, the pool, the
\* thread, the pushers and the lost source infos.
References(b) ==
  Cardinality({i \in DOMAIN queue : queue[i] = b})
    + Cardinality({i \in DOMAIN pool : pool[i] = b})
    + Cardinality({p \in Pushers : pushing[p] = b})
    + (IF sending = b THEN 1 ELSE 0)
    + (IF b \in leaked THEN 1 ELSE 0)

\* A buffer that is allocated belongs to exactly one place (the queue, the
\* pool, the transmission thread, one pusher), and a freed one to none, through
\* pushes, cleanups, the pool and the end of the thread: none is freed twice,
\* filled while it is sent, or leaked, unless post_cleanup has no memory.
BufferHasOneOwner ==
  \A b \in Buffers : References(b) = IF b \in live THEN 1 ELSE 0

IsCritical(m) == m # CANCEL /\ m.kind = "critical"

\* No PDU is sent twice, and when a critical one has been sent, so have been
\* all critical ones written to the queue before it, in the same order: no
\* cleanup, soft or hard stop loses one and then sends a later one, as tx.c
\* promises ("delivered always, in order").
CriticalInOrder ==
  \A k \in DOMAIN wire :
    /\ \A l \in DOMAIN wire : wire[k] = wire[l] => k = l
    /\ IsCritical(wire[k]) =>
         \E i \in DOMAIN written :
           /\ written[i] = wire[k]
           /\ \A j \in 1 .. i - 1 :
                IsCritical(written[j]) => \E n \in 1 .. k - 1 : wire[n] = written[j]

IsSourceInfo(m) == m # CANCEL /\ m.kind = "source_info"

\* When a critical PDU has been sent, the last source info that was queued
\* before it has been sent before it: the cleanup may drop the source infos
\* that a later one revokes, and no others.
SourceInfoFresh ==
  leaked = {} =>
    \A k \in DOMAIN wire, i \in DOMAIN written, j \in DOMAIN written :
      /\ IsCritical(wire[k]) /\ written[i] = wire[k]
      /\ j < i /\ IsSourceInfo(written[j])
      /\ \A l \in j + 1 .. i - 1 : ~IsSourceInfo(written[l])
      => \E n \in 1 .. k - 1 : wire[n] = written[j]

Sent(i) == \E n \in DOMAIN wire : wire[n].id = i

QueuedCritical(i) ==
  \E n \in DOMAIN written : IsCritical(written[n]) /\ written[n].id = i

\* The stack was exhausted, or there was no memory for a message.
Broken == overflow \/ failures > 0

\* A hard stop returns, also when the other end does not read: only a send in
\* progress can hold it back.
StopReturns ==
  owner \in {"cancel", "pipe", "join"} ~>
    \/ owner = "gone" \/ Broken
    \/ tx \in {"header", "chunk"} /\ peer = "stalled"

\* tx.c: critical messages "are needed to be delivered always, in order": if
\* the other end goes on reading, every critical PDU in the queue is sent
\* unless the client is stopped.
CriticalSent ==
  <>[](peer = "reading") =>
    \A i \in 1 .. MaxPDUs : QueuedCritical(i) ~> Sent(i) \/ owner # "up"

==============================================================================
