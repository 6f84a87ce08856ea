# Suscan: models, checks and proofs

Suscan is a realtime signal analysis library in C.  A program opens an analyzer
on a source of samples, reads what it finds from a queue of messages, and opens
inspectors (demodulators) on parts of the spectrum.  `suscli devserv` serves an
analyzer over the network, and the library's remote analyzer is its client.
Almost everything that is hard to get right is around the signal processing:
one queue type that every thread uses, workers that are halted under their
callbacks, a scheduler that shares one buffer between many inspectors,
inspectors with a reference counter and no owner, settings exchanged through
plain fields, a server that multiplexes one analyzer between clients that come
and go, two hundred fields serialized and deserialized by hand, and datagrams
put together from fragments.  That is what this project models.

1. [The system](#1-the-system)
2. [Modules and the code they model](#2-modules-and-the-code-they-model)
3. [Runs, bounds and fairness](#3-runs-bounds-and-fairness)
4. [Proofs](#4-proofs)
5. [What the code does otherwise](#5-what-the-code-does-otherwise)
6. [What is not modelled](#6-what-is-not-modelled)
7. [Plan](#7-plan)

`tlc -config X.cfg M` runs a model, `tlapm M.tla` checks the proofs of a module.
`PROJECT.json` maps every definition to its lines of C.

## 1. The system

| part | state it keeps | operations | interacts with |
|---|---|---|---|
| message queue, `analyzer/mq.c` | linked list, count, global pool of cells, lock, condition, optional cleanup watermark | write, urgent write, read, typed read, timed read, poll, wait | everything |
| worker, `analyzer/worker.c` | state, `halt_req`, input queue, thread | create, push a callback, halt, destroy | input queue; output queue shared with its owner |
| inspector scheduler, `analyzer/inspsched.c` | workers, two lists of task infos, a barrier | queue a task, wait for the block, destroy | fed by the source worker, runs inspectors |
| inspectors: `analyzer/inspector/*.c`, `analyzer/insp-server.c`, `analyzer/workers/channel.c` | state, reference counter, factory list, handle table, tuner channels, pending requests, requested and committed parameters, sampler buffer | OPEN, CLOSE, tune, configure, feed, halt, clean up | analyzer thread, source worker, scheduler |
| hot configuration, `analyzer/slow.c` | a value and a flag, a slot or a list per setting; source info | ten settings, each with a callback | user threads, slow worker, source worker |
| sources and throttle, `analyzer/source.c`, `analyzer/throttle.c` | own copy of the configuration, device or file position, decimator, checkpoint | read, loop, seek, tune, throttle | source worker, slow worker |
| local analyzer, `analyzer/impl/local.c`, `analyzer/workers/wide.c` | the three threads, sweep parameters, source info | message loop, start, sweep, stop, destroy | composes all of the above |
| remote analyzer, `analyzer/impl/remote.c` | socket, one call structure, queue of PDUs, two threads, permissions | connect, authenticate, call, receive, cancel, destroy | network |
| serialization: `util/cbor.c`, `util/cfg.c`, `analyzer/serialize.c`, `analyzer/msg.c` | a buffer and a position; the list of descriptions | pack, unpack | both ends of a connection, announces, multicast |
| multicast: `analyzer/impl/mc_processor.c`, `impl/processors/*`, `cli/devserv/mc_manager.c` | fragments of superframes, bitmaps, identifiers | fragment, reassemble, announce | network |
| device server, `cli/devserv/{server,client,user}.c` | clients, requests, inspector translations, epochs | accept, authenticate, forward, broadcast, kick | analyzer, sockets |
| transmission thread, `cli/devserv/tx.c` | queue with a watermark, buffer pool, cancel pipe, thread flags | push, clean up, send, soft and hard stop | server threads, socket |
| profiles and devices: `analyzer/source.c`, `analyzer/device.c`, `analyzer/discovery.c`, `util/confdb.c` | list of profiles, list of devices with epochs, files | edit, clone, save, load, detect, announce, discover | discovery thread, disk |
| smaller parts: `symbuf.c`, `bufpool.c`, `cli/datasaver.c`, `cli/audio.c`, estimators, correctors | | | |

Threads of a local analyzer: the program's, the analyzer thread (message loop),
the source worker (reads samples, feeds inspectors, commits requests), the slow
worker (settings), the workers of the scheduler.  They share `struct
suscan_local_analyzer` with a handful of mutexes that do not cover all of it.
Threads of a remote analyzer: the program's, a transmission thread (which also
connects), a reception thread.  Threads of a device server: rx (sockets), tx
(what the analyzer says), one transmission thread for each client.

What is hard, and what makes each part correct:

* **Interleavings on queues**: typed and untyped readers on one condition; a
  message is delivered once, in order within its type, and nobody sleeps beside
  it.
* **Shutdown**: workers, analyzers and connections are halted whatever they are
  doing; a stop ends, its answer is not premature, and no thread outlives what it
  uses.
* **A buffer shared without copies**: all tasks of a block end before the next
  one overwrites it.
* **References without an owner**: five parties hold an inspector, a translation
  list points to clients; nobody touches them after they are gone.
* **Fields without locks**: the last setting asked for must win, in the device,
  in the sweep, in the inspector's blocks and in what the program is told.
* **Many clients, one analyzer**: identifiers are translated both ways; an
  answer reaches who asked, whoever has left in between.
* **Two hand-written halves**: what is serialized is what is read at the other
  end, for every message and at every width of the encoding; half a PDU is not
  taken for one; what is saved is what is loaded.
* **A network that loses and reorders**: a call arrives whole or not at all.
* **Failures half way**: an allocation, a device or a disk fails between two
  steps that belong together.

`PROJECT.json` lists these, line by line, under `hazards`.

## 2. Modules and the code they model

```
 MsgList         AtomicQueue          pointers of mq.c; what the queue promises
                     ^ refinement
                MessageQueue          lock, condition, timeouts of mq.c
                     | its operations are atomic steps in
        Worker, TxThread              worker.c and the halt loops; tx.c
          | its loop is one step per callback in
   InspSched   SlowConf = Source + Throttle + slow.c + the loop of channel.c
          | one task per inspector and block in
      InspLife

 AnalyzerClient                       what a program may ask, with its permissions
   |        \
 Local       Remote                   the two implementations of an analyzer
   = InspServer + Sweep + local.c

 Cbor - Config - Messages - RemoteCall - Wire      bytes, configurations, messages,
          |                    |                   calls, a connection
     InspConfig             Devices - SourceConfig - Profiles
          |                                          (over Wire and SourceConfig)
      Inspector

 DevServ                              server.c and client.c, over TxThread's promise
 Multicast                            mc_manager.c, the network, mc_processor.c
```

A line that goes down is EXTENDS or, where the text says so, an interface at
which one module takes as a step what another shows to be one.

**Queues and threads**

* **MsgList**: `suscan_mq_push`, `_push_front`, `_pop`, `_pop_w_type` and
  `_trigger_cleanup` on `head`, `tail`, `count` and the `next` field of cells
  taken from the global pool.  The typed search and the cleanup walk are loops:
  one action per iteration, `this` and `prev` are their cursors.  `q` is the
  sequence that the list should be.
* **MessageQueue**: threads that call read (any or one type, with a timeout or
  without), poll, write, urgent write, and the bare `suscan_mq_wait`.  An action
  is what happens between two points where `acquire_lock` changes hands; the
  condition variable may wake up spuriously and a timed wait may expire at any
  time.  `stamp` and `urgent` are history.  **AtomicQueue** is the same with
  nothing but a sequence.
* **Worker**: the thread's two nested loops with every read of `halt_req`, the
  two writes of `suscan_worker_req_halt`, the answer, both ways of halting
  (`suscan_worker_halt`'s blocking read, `suscan_analyzer_halt_worker`'s loop of
  polling and waiting) and destruction.  One owner creates, feeds and halts
  several workers that share `mq_out`.
* **TxThread**: pushers, the transmission thread (queue, poll, deflation and
  header, chunks, the buffer back to the pool or, without memory, to the heap),
  the thread that stops it, and a peer that reads, stalls or leaves.  The
  cleanup of the queue is one step, as it is in the code, under the lock; its
  recursion through `suscan_mq_push_front` is `Recurses`.  What the walk leaves
  is an increasing enumeration of the places that stay (`Walks`, `Left`).

**Inspectors**

* **InspSched**: `suscan_inspector_factory_feed`, `_force_sync` and the workers:
  free and alloc lists under `task_mutex`, the unlocked allocation, round-robin,
  one barrier callback per worker, `pthread_barrier_wait`.  Each allocation may
  fail.
* **InspLife**: one inspector from OPEN to its end, access by access where no
  lock is held: the analyzer thread (open, bind, run, register; set frequency;
  close), the source worker (commit requests, feed, close channels of halted
  inspectors), tasks that end or fail, and the destructor.
* **InspServer**: what the analyzer thread does with each kind of inspector
  message, as operators on the inspectors, the handle table, the pending
  requests and the messages told: refusals, wrong handles and kinds, nested
  inspectors, the cascade of CLOSE.
* **InspConfig**: parameters of the classes psk, fsk, ask and audio: defaults,
  how they are parsed from and saved to a configuration, committed to the
  blocks, and the path of a sample through these.  Frequencies and rates are in
  units of 1 / `equiv_fs`, gains are powers of two.
* **Inspector**: an open inspector between the analyzer thread (SET_CONFIG
  structure by structure, GET_CONFIG, SET_WATERMARK) and its worker (flag, commit,
  feed, full buffers).  Commit and GET_CONFIG are one step each.

**Analyzers**

* **Source**, **Throttle**: operators for opening, reading, looping, seeking and
  setting a file or a radio, with the order in which a setter changes its copy
  and the device; the checkpoints of a throttle.  Samples are counted.
* **SlowConf**: each function of `slow.c` is the sequence of its accesses to
  shared fields, and an action is one access; the source worker reads, sleeps in
  the throttle, seeks and ends.  A request lost in one of the windows of section
  5 is marked `raced`.
* **Sweep**, **Local**: the hop of `wide.c`; the program's calls, `mq_in`, each
  branch of the message loop, the two workers with their callbacks and halts,
  `req_halt`, failure, EOS, `suscan_analyzer_destroy` and the destructor.
  `mq_out` is the number of HALTs nobody has read and the kinds that were told.
* **AnalyzerClient**: each function of `analyzer.c` and `client.c` that asks an
  analyzer for something: the permission it tests and what it asks.
* **Remote**: resolution, multicast set-up, connection, authentication, the call
  structure under `call_mutex` (the permission of a call is tested before the
  mutex is asked for), both threads, cancellation, destruction.  A source info
  from the server brings its own permissions, and those of the handshake are put
  back in a second step (remote.c:1811-1818).  The
  server is external: it says what DevServ lets it say and may close at any
  time, and does after REQ_HALT.

**What travels and what stays**

* **Cbor**: headers, widths, strings, blobs, compact arrays.  `Byte` is the base
  of the digits, 256 in the program: a smaller one brings the wide encodings
  within reach of TLC.  **Config**: typed fields, the shared list of
  descriptions, configurations read with a known or a deduced description.
* **Messages**, **RemoteCall**: for each structure, the list of its
  SUSCAN_PACK lines and that of its SUSCAN_UNPACK lines, from the two functions;
  only the code makes them agree.
* **Wire**: serializer, compressor, header, a stream in pieces that may end
  anywhere, the server's and the analyzer's receivers, inflater, deserializer,
  and what the analyzer does with the call.
* **Devices**, **SourceConfig**, **Profiles**: the device list with its epochs,
  populated up to the first gain that is refused, and without rates when there is
  no list of gains;
  profiles with visible and hidden gains, their clone, saved object and
  announced datagram; the process that edits, saves, starts again, loads and
  discovers.  A save can end after the truncation of the file, and a disk can be
  full.
* **Multicast**: fragments of the manager through a network that loses and
  reorders, to the processor's superframes.  The k-th superframe carries
  `<<k, 0>>`, `<<k, 1>>`, ... so that what arrives tells where it came from.
* **DevServ**: rx thread, tx thread, client list, request tree, translation
  list, analyzer (external to the module: it answers, and halts when asked).  The
  tx thread works on a message in one step, inside the client mutex, unless it
  has to wait for the inspector mutex of a client (`TxBlocked`).  A socket that
  was shut down may still give what it had received: such a call is read and
  served like any other, or the read fails (`RxEof`).  `late` marks, as history,
  a translation made for a client of an analyzer that had gone.  Where a
  translation leads to a client that was destroyed, what the code reads is
  undefined, and the thread is followed no further (`TxDangling`).

`MC*` modules give the constants values (`TxThread.cfg` does without).  Operators whose comment says "Mutant"
are plausible bugs: each property of a run is shown to fail when one of them
takes the place of the definition that follows it.

Abstractions that are used everywhere: samples and payloads are counted or are
small values; memory is a finite set of objects of which an allocation takes one
that is free; logging is left out.  A random identifier is represented by what
it was drawn for.

## 3. Runs, bounds and fairness

| run | checks | bounds |
|---|---|---|
| `msg_list` | `ListIsSequence`: the list is the intended sequence | 4 cells, 2 types, watermark 3, pool of 2 |
| `message_queue` | `NoLostWakeup`, `ReaderServed`; `ImplementsAtomicQueue`: refinement of AtomicQueue | 3 threads, 3 messages, 2 types |
| `worker` | `AckMeansHalted`: the answer is not premature; `HaltEnds`: halting ends unless it sleeps beside the answer | 2 workers, 2 callbacks, 1 message in `mq_out` |
| `insp_sched` | `BlockComplete`: no task outlives its block; `BlockEnds` | 2 workers, 3 inspectors, 3 infos, 1 failure |
| `insp_life` | `NoUseAfterFree`; `HaltCompletes` | 2 inspectors, one of which may fail |
| `slow_conf` | `LastRequestApplied`, `InfoIsCurrent` for each setting; `EndsOnlyAtEnd` for files | radio: every setting, 3 requests; files of 2 to 7 frames, 2 requests, 4 reads, up to 6 ticks |
| `tx_thread` | `CriticalInOrder`, `SourceInfoFresh` through the cleanup; `StopReturns` | watermark 3, 3 PDUs, 1 failure |
| `wire` | `DeliveredAsSent`, `FailsOnlyWhenRefused`, `NoPrefixAccepted`, `PermissionsKept` of a connection; `SavedComesBack`, `DiscoveredAsAnnounced`, `InfoOfOneDevice` of profiles; `ProcessedAsAsked`, `ConfigComesBack`, `TurnsAdvance` of an inspector | base 32, each field at each limit of its encoding; budgets and scenarios in MCWire |
| `multicast` | `EncapIntact`, `SameTuning`, `NoOldCalls` | 3 superframes of 2 fragments, 3-bit identifiers from 6, blocks of 4 bits, 1 announce, 1 failure |
| `devserv` | `TranslationsLive`, `ReplyToRequester`, `FailedClientsLeave` | 2 clients in 5 scenarios of up to 5 calls, 2 events of the network or the analyzer |
| `remote` | `SentAsAsked`, `NoThreadLeft`, `DestroyReturns` | 2 threads of the program, 1 call of the server, 1 datagram |
| `local` | `Answered`, `NoOrphan`, `NoLateRequest`, `SweepApplied`, `DestroyReturns` | 9 programs, 3 handles, 2 halts |

`wire` is three specifications side by side, of which each behaviour takes one:
they share the coder and the configurations, and no state.

Why these bounds are enough to be interesting:

* `msg_list`: a removal at the head, in the middle, at the tail and of the only
  message, a cleanup that removes several, and a pool that overflows, all fit in
  four cells.  The proofs cover any number.
* `message_queue`: two readers that compete with different selections, one of
  which also writes, and a writer of normal and urgent messages: a wakeup can
  reach the wrong reader, a timeout can race a write.  Its safety properties are
  proved for any number of threads and messages.
* `worker`: one worker publishes and is halted by polling, the other may abort
  itself and is halted by a blocking read; one callback queues itself again.
* `insp_sched`: three inspectors on two workers give one worker two tasks; the
  second block meets what a failure in the first left behind.
* `insp_life`: inspectors do not share state but the threads; the second one is
  there to be cleaned up by, and served between, the steps of the first.
* `slow_conf`: a setting races with its own next request; three requests are two
  of one setting with another one in the queue between them.  A file is shorter
  than the buffer in one setup, and one that is throttled lives long enough for
  its reader to be late and very late.
* `tx_thread`: the watermark of 50 becomes 3.  What counts is the number of kept
  messages against the watermark, and both sides of that comparison are reached.
* `wire`: a message is sent once with distinct values in all its fields, so that
  two that are swapped show, and then once for each field and limit.  Two PDUs
  follow each other in some behaviours, for what the first leaves in the buffers
  and in the list of descriptions.  Profiles get a few edits, saves, restarts,
  plugged devices and datagrams from a budget each; an inspector gets two
  configurations, of its class or of another, and blocks longer than its buffer.
* `multicast`: all orders of the six fragments and every subset of them that is
  lost; identifiers go from 6 over 7 to 0; the second half of a block of the
  bitmap is beyond the mask, as bits 32 to 63 are in the program.
* `devserv`: `Scripts` names what the clients may ask, in five scenarios: one
  that opens and closes an inspector beside one with fewer rights that may stop
  the server; one alone that changes the id of an inspector it has just closed
  (both mutexes are then wanted by both threads); one alone with two inspectors;
  tuning beside calls that are refused; and one that stops the server and whose
  next call, which opens an inspector, is read in the life of the analyzer that
  the other one starts.  Each kind of first call occurs, and
  clients leave at every point of the dialogue, over two lives of the analyzer.
* `remote`: one call in flight against the authentication, the reception and the
  destruction is what the one call structure can confuse.
* `local`: inspectors inside of one another two levels deep, every kind of
  message with right, wrong and stale handles, and sweeps with every field
  changed, twice for the one that is lost.

Runs do not check for deadlock where the program may stop: callers that make no
more calls, a closed connection, a destroyed object.  `msg_list` has no end and
checks it.

Fairness, always of threads and never of callers' decisions:

* `MessageQueue`: a thread inside a call goes on (weak); a thread that wants the
  mutex gets it if it is free again and again (strong), which pthread mutexes
  give in practice.  Nobody is forced to write.
* `Worker`: the owner inside a call and every worker thread go on (weak), and
  callbacks return.  A callback may never be pushed, a message never published.
* `InspSched`: the source worker inside a block and the workers go on (weak).
* `InspLife`: the analyzer thread and the source worker go on, tasks end (weak),
  and windows of samples keep coming (strong, as `stuner_mutex` is taken in
  between); no fairness for requests or failures.
* `TxThread`: pushers inside a push, the transmission thread and the stopping
  thread go on (weak).  The peer is free: `StopReturns` excepts a send to a peer
  that does not read.
* `DevServ`: rx, tx and the analyzer go on (weak); clients are free.
* `Remote`: program threads inside a call and both threads of the analyzer go
  on; who waits for `call_mutex` gets it (strong), and so do waits with a
  timeout; a server that was asked to halt closes, without which destruction
  waits as long as the server likes (the code says so: "TODO").
* `Local`: calls and the destruction go on (weak), the analyzer thread gets
  `loop_mutex` between two callbacks (strong), the source worker sweeps, a source
  that was told to end returns, a worker asked to halt does.

The modules state further properties which are not in a run (`TypeOK` of the
state machines, `RefsExact`, `InfoAccounted`, `OneTaskPerInspector`,
`BufferHasOneOwner`, `TableAsTold`, `SweepCovers`, ...): they describe the state,
and are proved (section 4) or conjuncts of the inductive invariants to come
(section 7), or they say what the code does not keep (section 5).

## 4. Proofs

`SeqLemmas` holds facts on sequences that the others cite (removal at an index,
`Cons`, `Append`, `Tail`, sets of elements, injectivity).

A module of proofs may be about two components.  Their modules are both extended, so
that the second one has names of its own for what every specification has
(`ListInit`, `WorkerNext`, `LocalSpec`, `HotSpec`, ...).

**MessageQueue_proofs**, from `MessageQueueAssumption`: `LockExcludes`,
`WakeupsAreNotLost`, `OneReaderPerMessage`, `DeliveryIsFifoPerType`,
`QueueIsAtomic`.  A waiter went to sleep when nothing was there for it, with the
lock, and every insertion wakes it: that needs mutual exclusion, and what a
thread may have called at each place (`CallInv`).  Order within a type needs the
order of the whole queue (`QueueOrder`) and that history is what the queue says
(`StampInv`).  `QueueIsAtomic` maps each step to a `Put`, a `Get` or nothing.

The second part of the module is about the list under the queue (MsgList), from
`MsgListAssumption` (`NULL` is not a cell, watermark and pool size are numbers):
`ListTypes`, `ListRepresentsSequence` and `CellsHaveOneOwner`. That the list is
the sequence is not inductive: a push never writes `msg->next`, so that a cell
must come to it detached (`HeldIsDetached`), and a cleanup unlinks at its
cursor, which must be in the list with `prev` just behind it (`CursorInList`).
The invariant is the conjunction of the five.

**InspSched_proofs**, from `InspSchedAssumption`, for any number of workers,
inspectors, blocks and failures: `BufferGivenBackInTime` (`BlockComplete`),
`InfosAccounted`, `SamplerUnshared`, `TypeCorrect`.  That no task outlives its
block holds because of where the barrier is: while the source worker feeds, no
barrier is queued; while it waits, every worker has its own behind its tasks or
has come to it.  The invariant says this of each place of the source worker,
that a task info is in one place only, and that an inspector has one task.

The second part of the module is about the loop which these workers run
(Worker), from `WorkerAssumption`: `NoWorkerFreedEarly`, `AnswerMeansHalted`,
`HaltIsPrompt`, `CallbacksHaveOnePlace`, `NothingLeaks`, for any number of
workers and callbacks, published messages and both ways of halting. The
invariant says of each worker, for each place of its thread, what `state`,
`halt_req` and the message in its hands are (`WorkerInv`), and of the owner
which workers it may be halting (`OwnerInv`).

**InspLife_proofs**, from `InspLifeAssumption`, for any number of inspectors:
`ReferencesKeepAlive` (`NoUseAfterFree`), `CounterExact`,
`LastReferenceIsTheServers`, `HaltedIsNotFed`, `AllDestroyed`, `TypeCorrect`.
The invariant counts, for every inspector: its count is the number of lists,
requests, tasks, handles and channels that refer to it, less one (`Owed`) when
the source worker closed a channel whose reference the analyzer thread has
published and not yet counted, which is the window of section 5.  That happens
only to an inspector that is fed before its open ended (`early`), and while it is
listed.  Only these are excepted from `NoUseAfterFree` and `RefsExact`.

The second part of the module is about the settings of the source (SlowConf):
`RequestsAreApplied` (`LastRequestApplied`) and `InfoFollows` (`InfoIsCurrent`),
from `SlowConfAssumption`, for any sources, any settings and any number of
requests. The callers and the callbacks are sequences of accesses that
interleave, and the invariant (`SettingsInv`) says for each kind of setting why
none of the interleavings loses the last request. For those kept in a value and
a flag (`ValuedGood`): what was applied is the value, or a request is coming
(`Coming`: the caller has changed the value and has yet to set the flag, or the
flag is set and a callback that will see it is queued or about to be), and the
same of the copy that a callback has taken. What the callback carries is in the
last one queued (`CarriedGood`); an antenna is in its slot (`AntennaGood`) and
gains in their list (`GainGood`) from before their callback is pushed until one
takes them. The device has what it was told unless it refused (`DeviceTold`),
and the source info what the device has (`InfoSent`). Each theorem has a
hypothesis on the setups, which those of the run satisfy. `Steady`: nobody stops
the capture while the throttle is being set, for the analyzer divides the rate
it is asked for by that of the source (local.c:161), which changes then, so that
"what was asked for" would have no meaning. `PlainRadios`: the radio begins
without gain control and with DC removal as configured, for the first source
info says so without asking it.

**Multicast_proofs**, from `MulticastAssumption`: `SpectraOfOneTuning`
(`SameTuning`), `WholeCalls` (`EncapIntact`), `OldCallsDropped` (`NoOldCalls`).  The first needs no more than that each bin of a superframe comes
from the fragment that was written there, and that a change of frequency clears
the others.  The other two are about identifiers of finite width, and have a
hypothesis each.  `Distinct`: the network does not duplicate, the announces do not
race on `id`, and no more superframes and announces are sent than there are
identifiers, so that two superframes never share one; without it the
property is false, for the bitmap counts fragments beyond its mask as often as
they arrive (section 5).  `Short`: at most half as many, which is where the signed
difference of two identifiers (`Delta`) says which is older.  In the program the
identifiers are bytes and come round; the theorems cover the time in which the
fragments of one round are in flight.  The run stays within both
(three superframes and an announce, eight identifiers) and crosses the wrap.  The invariant
relates a client's buffers and bitmap to what was sent: every cell of a buffer is
empty or holds the byte of the superframe with this identifier, the counter is
the number of cells that are missing, and everything in flight or delivered lies
in one window of identifiers (`OrderInv`).

The second part of the module is about the local analyzer (Local), from
`InspServerAssumption`, for any classes, handles and programs of calls:
`SweepIsTheWanted` (`SweepApplied`) and `RequestsAreOfOpenInspectors`
(`NoLateRequest`). A sweep has three fields and a call changes one: what is
pending is what was wanted, except for what the call in progress has still to
store, and without a request what is used is what is pending, unless the worker
has taken it and not cleared the flag. An inspector that runs is registered;
closing it removes its requests and stops it before it leaves the table; and the
program holds one only between acquiring it and submitting, under the mutex the
closing takes.

**TxThread_proofs**, from `TxThreadAssumption`, for any watermark, any number of
pushers, buffers and PDUs, and any failing allocation: `CriticalDelivered`
(`CriticalInOrder`), `InfoComesFirst` (`SourceInfoFresh`), `OneOwner`
(`BufferHasOneOwner`), `TypeCorrect`.  Order of what was sent is not inductive:
the invariant says that what was sent, the PDU in hand and the queue are in the
order of writing (`Ordered`), and that while something can still be sent
(`Sends`) every critical PDU that was written is in one of the three, and so is every
source info which no later one revokes (`Complete`).  What a cleanup does to it is
proved once, of any queue: it removes messages and keeps the order of the rest
(`Thinned`), although the saved source info is pushed to the front, because all
that stays in front of it are CANCELs; and what it removes is discardable, or a
source info revoked by one that stays (`Spares`).  The lemmas take the queue, the
history and the owners as parameters, for they hold between a push and the
cleanup it triggers.  If post_cleanup has no memory for the source info, that one
is lost; the theorem about source infos is about the runs where it is not.

**Remote_proofs**, from `RemoteAssumption`, for any number of threads of the
program, any calls and any server: `CallsSentAsAsked` (`SentAsAsked`),
`ThreadsJoined` (`NoThreadLeft`), `TypeCorrect`.  That what is queued is what was
asked follows from who owns the one call structure: whoever is between acquiring
and releasing it has `call_mutex`, and nobody else (`OwnerInv`); from where it
was filled in until it is queued, it holds what its owner wants (`CallInv`).
Behind the answer to the authentication, what was sent is a prefix of what was
asked, and the queue holds the rest, up to the message that ends the
transmission thread (`SentInv`, `QueueInv`).  For the destruction, `RxInv` says
at which places of the transmission thread there is a reception thread and
whether `rx_thread_init` says so, which is wrong just between its creation and
the next statement (`mark`); `HaltInv` that a HALT is told by a transmission
thread that has passed this; and `DestroyInv` that the destructor starts when
the transmission thread has left its loop, and goes on to join it when the
reception thread has ended.  `ThreadsJoined` has the hypothesis `~EarlyDestroy`: a program that destroys what
it asked to halt, before it has read the HALT, leaves a thread behind, as TLC
shows with the constant set to TRUE.

**DevServ_proofs**, from `DevServAssumption`, for any clients, users and scripts
and over any number of lives of the analyzer: `NoStaleTranslation`
(`TranslationsLive`), `RepliesToRequester` (`ReplyToRequester`).  A request in the
tree names a client in the list and what it asked (`ReqInv`), and an entry of
the translation list the client and the handle it was made for (`ItlInv`).
Entries are not removed when an analyzer dies, so that some are stale; the
invariant says that while the tx thread serves an analyzer, an id that an
inspector or a message on its way still has leads to an entry whose client is in
the list and has the handle, or which was made for a client of an analyzer that
had gone (`LiveInv`), that what is being opened has no entry yet (`OpenInv`,
which takes that no request is answered twice, `OnceInv`, and that entries are of
requests made already, `ItlFresh`), and that nothing but refusals comes behind a
HALT (`HaltLast`), so that no message of one analyzer is read in the life of the
next.  `ReplyToRequester` needs in addition that the requests in flight are ones
that their clients have made already (`FreshInv`), and that one can be translated
while its client is in the list (`KnownInv`).  Neither theorem has a hypothesis
on what the network does: calls that the socket had received when it was shut
down (client.c:707) are read at any time, also after the HALT, and are served by
the next analyzer for a client of the previous epoch, which is then removed while
its translations stay.  `TranslationsLive` names these translations
(`OpenedLate`), because for them the code does use a client that was destroyed;
for every other message it holds, and so it does for every answer that is matched
by its request.  In `ReplyToRequester` the behaviours of the code beyond such a
use are missing, for it is undefined what it reads there.

Where a proof found the model to be wrong or hard to reason about, the model was
changed: two CASEs of Multicast overlapped and left the choice to the reader;
the cleanup of TxThread was a fold over the queue and is now said of places;
`CriticalInOrder` and `SourceInfoFresh` are stated with quantifiers instead of
filtered sequences.

Each inductive invariant was model-checked on the run's instance, or a smaller
one, before it was proved.

Only model-checked: liveness under fairness (`ReaderServed`, `HaltEnds`,
`BlockEnds`, `HaltCompletes`, `StopReturns`, `FailedClientsLeave`,
`DestroyReturns`), which is out of the proof system's reach; what the coders of
Cbor, Config and Messages compute, and with them the invariants of Wire, Profiles and
Inspector, which is recursion over data, and so are `EndsOnlyAtEnd` of SlowConf
(a decimated read is repeated until the filters are full), `Answered` of Local
(answers are compared with a filtered history) and `NoOrphan` (the walk through
inspectors inside of one another).

## 5. What the code does otherwise

Met while modelling.  The models do what the code does, and the properties step
around it; where a module states the property that fails, it is named, and TLC
finds the behaviour when it is put in the run's configuration.

*Queues and threads*

* `suscan_analyzer_halt_worker` polls until the queue is empty and then waits
  without looking (analyzer.c:483): an answer written in between is not noticed
  (`Worker!HaltReturns`).  `HaltEnds` shows that this is the only way to hang.
* A cleanup that keeps as many messages as the watermark less one, and a source
  info, triggers itself for ever (tx.c:539; `TxThread!CriticalSent`).

*Inspectors*

* CLOSE halts an inspector and clears its pending request afterwards
  (insp-server.c:654); in between the source worker closes the channel and
  applies the request to it (`InspLife!CommitFindsChannel`).
* The channel is published before its reference is counted (channel.c:318), so
  that the reference can be dropped first (`InspLife!ListOwnsInspectors`); an
  inspector that fails before its open ended is set to RUNNING again (`early`);
  one that could not be created is closed through a callback that expects one.
* A failing `suscan_inspsched_sync`, whose result nobody looks at, leaves tasks
  on a buffer that is then overwritten (`broken` in InspSched).
* SET_CONFIG raises the flag before it parses, without the mutex
  (inspector.c:706): half a configuration, or zeros, can be committed, and a
  refused one still is in part.  GET_CONFIG before the commit answers the old
  values.
* A watermark of the size of the buffer is accepted and never exceeded: the
  worker does not come back (inspector.h:162).
* `fsk.quad-demod` is parsed and never saved; `amplitude-decision` is described
  and unused; `afc.bits-per-symbol` is saved from the order of the loop and
  never parsed; the matched filter is not made again for a rate or roll-off set
  while the clock was stopped; the oscillator of SSB starts at a quarter of the
  bandwidth and moves to a half at the first change of it.

*Sources and settings*

* `req = value != v` without the mutex forgets a request (slow.c:220), and the
  throttle's flag is set before its value (slow.c:543): marked `raced`.
  `set_freq_cb` can read a frequency of one request and the LNB of another, and
  the second of two antenna callbacks passes NULL to the source.
* A sweep request made between the worker's copy and its reset of the flag is
  lost (`raced` in Local).
* The throttle is made before a file's capture starts, at the rate before
  decimation; an override is divided as integers (local.c:161); a portion is
  taken with an error as an unsigned number; a radio that reads no samples is at
  its end; the tuning of a file succeeds and changes nothing.

*Analyzers and server*

* HALT is urgent and overtakes the messages that say why a connection failed;
  after the transmission thread has ended the reception thread keeps delivering
  until the destruction; a bad datagram ends the connection; a failed write
  disposes of a message that its caller frees again.
* An answer that comes between a kick and the removal of the client registers an
  inspector for it that nobody closes (server.c:160; `DevServ!Zombie`), which
  keeps the client in the list and the analyzer alive.
* shutdown() does not discard what a socket had received (client.c:707): a call
  read after the analyzer was halted is served by the next one for a client of
  the previous epoch, which is removed without waiting for its inspectors, and
  the translation list leads their messages to memory that was freed
  (`OpenedLate`, `TxDangling`).
* A source info that is relayed by the server brings permissions of its own,
  which hold until those of the handshake are put back two statements later
  (remote.c:1818): a call may be let through, or refused, in between.
* SET_ID takes the client mutex inside the inspector mutex, the tx thread the
  other way round (`Stuck`); a call before the authentication ends the rx thread;
  a client that authenticates between the shutdown of the others and `tx_halted`
  gets a dead analyzer.
* A handler of GET_CONFIG or SET_CONFIG that fails disposes of its message, and
  the loop does again (local.c:326); in wide mode THROTTLE and SEEK end the
  thread without a word; a failed feed ends the wide callback without EOS.

*What travels and what stays*

* GET_CONFIG answers lose their configuration on the wire; NULL strings become
  empty; `suscan_analyzer_source_info_init_copy` drops the location; PDUs of one or two
  bytes do not inflate; a profile without device cannot be read back; an empty
  blob is unpacked without advancing.
* The mask of a bitmap is an `unsigned int` assigned from `1ull << bit`
  (encap.c:52): fragments beyond bit 31 of a block count as often as they arrive
  (`EncapIntact` with `Faults = {"duplicate"}`).  The next superframe of the same
  type is merged into the current one, although a comment says "Flush previous".
* Saving truncates the only copy of a file; a file that is corrupt before its
  first sequence is read for ever; the frequency goes through single precision;
  a profile whose average is 0 is written and refused; FALLBACK is given to
  libsndfile as a format; gains announced again are appended again.

## 6. What is not modelled

Signal processing (what the blocks compute, estimators, correctors, orbit
propagation) is floating point arithmetic, most of it in another library.
Drivers, command line tools, sockets and their options, and the text of YAML and
XML are input and output around it; the YAML library is vendored.  `bufpool.c`
and `symbuf.c` have no user in the repository.  Within the modelled parts: the
PSD window and frequency corrections of channel mode, the destruction of the
device server against its own threads, the loops of estimators and spectrum
sources of an inspector, and the block buffer of the data savers, which the
producer reallocates while the writer reads it (datasaver.c:120).  The double
disposal of local.c:326 is ownership of memory inside one call, which Local does
not follow.  `components` in `PROJECT.json` has a line for each part.

Failures that are left out, and what they would do: in the server, memory that
is missing for the hello of a client (server.c:1079: it is destroyed while it is
in the list, and the rx thread ends), and the translation of the parent of an inspector inside of another one (server.c:616),
whose nesting and cascade of CLOSE are in Local; nor does DevServ have the update
of all parameters that an authentication asks for (server.c:1029), whose answer
is a broadcast like that of a setting; in the multicast manager and
processor, deliveries that fail (mc_manager.c:419 and 485, mc_processor.c:208),
after which less arrives, while an announce that cannot be sent and ends the
manager's thread is in the model; in Remote, a delivery that fails ends the
reception thread as a call that makes no sense does, and is not told apart from
it.  The gains that the devices of the run and the servers it hears of offer have
their limits in order, so that the refusal of device.c:104 is in the operators
and does not occur.

Constants that hide something: the run and the theorem `ThreadsJoined` of Remote
leave out a program that destroys what it asked to halt before it has read the
HALT (`EarlyDestroy`, under which a thread is left; no program of the repository
does so); Multicast leaves out the duplicates and the race of the announces'
`id++` (`Faults`).

## 7. Plan

1. **SlowConf**: `EndsOnlyAtEnd` for sources that are not decimated; **Local**:
   `NoOrphan` from the order of the table.
2. An abstract specification of the device server, a client that sees the
   messages of its own inspectors, in order, until it is closed, and DevServ as
   its implementation.
3. **Data saver**: the producer's buffer against the writer.
