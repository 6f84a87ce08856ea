------------------------------- MODULE Remote -------------------------------
(***************************************************************************)
(* The remote analyzer (analyzer/impl/remote.c): the program's threads,    *)
(* whose calls are written through one call structure under call_mutex to  *)
(* a queue of PDUs; the transmission thread, which connects,               *)
(* authenticates, starts the reception thread and sends the queue; the     *)
(* reception thread, which reads the server's calls and the multicast      *)
(* ones through that same structure; and the destruction of it all.        *)
(*                                                                         *)
(* The server is external: it says what DevServ.tla lets it say, and       *)
(* closes the connection at any time, in any case after a request to halt. *)
(* How a PDU is cut and put together is in Wire.tla, how a multicast call  *)
(* is in Multicast.tla.                                                    *)
(***************************************************************************)
EXTENDS AnalyzerClient, FiniteSets, SequencesExt

CONSTANTS
  Users,            \* threads of the program
  Main,             \* the one that created the analyzer, reads and destroys it
  Programs,         \* what the threads may call: functions from Users to sequences of calls
  Hellos, Answers,  \* what the server may say before and after AUTH_INFO
  Casts,            \* what a multicast datagram may do: "call", "none", "fail"
  ALL, Granted,     \* permissions: all of them, those the server grants
  mc_if,            \* the profile names a multicast interface
  EarlyDestroy,     \* the program may destroy what it asked to halt at once
  MaxServer,        \* calls the server sends after the authentication
  None

ASSUME RemoteAssumption ==
  /\ Main \in Users /\ None \notin Users
  /\ {"tx", "rx"} \cap (Users \cup {None}) = {}
  /\ \A p \in Programs : DOMAIN p = Users /\ \A u \in Users : p[u] \in Seq(ToSet(p[u]))
  /\ Granted \subseteq ALL
  /\ {mc_if, EarlyDestroy} \subseteq BOOLEAN

VARIABLES
  program,     \* calls each thread has left to make
  user,        \* each thread: [at, want], the call it is in the middle of
  call,        \* struct suscan_analyzer_remote_call call
  call_mutex,  \* its owner, None if free
  pdu_queue,   \* serialized calls and HALT_PDU
  call_queue,  \* multicast calls to process
  tx, rx,      \* where the two threads are
  rx_thread_init,
  cancelled,   \* a byte is in the cancellation pipe
  mc,          \* the multicast processor: "none", "open"
  permissions, \* of source_info, and those that the reception thread saw first
  running, halt_requested, eos,    \* of the analyzer
  mq_out,      \* messages to the program
  freed,
  \* the server and the network:
  from_peer, said, peer_closed, to_peer, casts,
  \* history:
  asked,       \* calls accepted, in order
  told         \* the program has read HALT

users   == <<program, user>>
queues  == <<pdu_queue, call_queue>>
threads == <<tx, rx, rx_thread_init, cancelled>>
flags   == <<running, halt_requested, eos>>
peer    == <<from_peer, said, peer_closed, to_peer, casts>>
hist    == <<asked, told>>
vars == <<users, call, call_mutex, queues, threads, mc, permissions, flags, mq_out, freed,
          peer, hist>>

NoCall == [type |-> "NONE"]
AUTH_INFO(multicast) == [type |-> "AUTH_INFO", flags |-> multicast]
HALT     == "HALT"              \* of mq_out
HALT_PDU == [type |-> "HALT"]   \* of pdu_queue

\* suscan_remote_analyzer_ctor, to the creation of the transmission thread.
Init ==
  /\ program \in Programs /\ user = [u \in Users |-> [at |-> "idle", want |-> NoCall]]
  /\ call = NoCall /\ call_mutex = None
  /\ pdu_queue = <<>> /\ call_queue = <<>>
  /\ tx = "resolve" /\ rx = "none" /\ rx_thread_init = FALSE /\ cancelled = FALSE
  /\ mc = "none" /\ permissions = [now |-> ALL, old |-> ALL]
  /\ running = TRUE /\ halt_requested = FALSE /\ eos = FALSE
  /\ mq_out = <<>> /\ freed = FALSE
  /\ from_peer = <<>> /\ said = 0 /\ peer_closed = FALSE /\ to_peer = <<>> /\ casts = 0
  /\ asked = <<>> /\ told = FALSE

Tell(m) == mq_out' = Append(mq_out, m)

----------------------------------------------------------------------------
(***************************************************************************)
(* The call structure.                                                     *)
(***************************************************************************)
suscan_analyzer_remote_call_init(type) == call' = [type |-> type]
suscan_analyzer_remote_call_finalize == call' = NoCall

\* Mutant: the structure is taken without the mutex.
AcquireUnlocked(t, type) ==
  /\ call_mutex' = t
  /\ suscan_analyzer_remote_call_init(type)

suscan_remote_analyzer_acquire_call(t, type) ==
  /\ call_mutex = None /\ call_mutex' = t
  /\ suscan_analyzer_remote_call_init(type)

suscan_remote_analyzer_release_call(t) ==
  /\ suscan_analyzer_remote_call_finalize
  /\ call_mutex' = None

\* What is queued is what is in the structure.
suscan_remote_analyzer_queue_call(want) ==
  /\ pdu_queue' = Append(pdu_queue, call)
  /\ asked' = Append(asked, want)

----------------------------------------------------------------------------
(***************************************************************************)
(* A call of the program: the permission is tested, then the structure     *)
(* acquired, filled, queued and released.  A call that cannot be queued is *)
(* forgotten.                                                              *)
(***************************************************************************)
Idle(u) == user[u].at = "idle" /\ ~freed
At(u, at) == user' = [user EXCEPT ![u].at = at]

Calling(u, c) ==
  /\ suscan_remote_analyzer_acquire_call(u, c.type)
  /\ user' = [user EXCEPT ![u] = [at |-> "fill", want |-> c]]

\* suscan_analyzer_test_permissions, before the mutex is asked for
CallNext(u) ==
  /\ Idle(u) /\ program[u] # <<>>
  /\ LET c == Head(program[u])
     IN user' = IF c.perm = "" \/ c.perm \in permissions.now
                THEN [user EXCEPT ![u] = [at |-> "lock", want |-> c.call]] ELSE user
  /\ program' = [program EXCEPT ![u] = Tail(@)]
  /\ UNCHANGED <<call, call_mutex, queues, threads, mc, permissions, flags, mq_out, freed, peer,
                 hist>>

Acquire(u) ==
  /\ user[u].at = "lock"
  /\ Calling(u, user[u].want)
  /\ UNCHANGED <<program, queues, threads, mc, permissions, flags, mq_out, freed, peer, hist>>

\* suscan_analyzer_req_halt
ReqHalt ==
  /\ Idle(Main) /\ program[Main] = <<>> /\ ~halt_requested
  /\ halt_requested' = TRUE
  /\ Calling(Main, suscan_remote_analyzer_req_halt)
  /\ UNCHANGED <<program, queues, threads, mc, permissions, running, eos, mq_out, freed, peer,
                 hist>>

Fill(u) ==
  /\ user[u].at \in {"fill", "d_fill"}
  /\ call' = user[u].want
  /\ At(u, IF user[u].at = "fill" THEN "queue" ELSE "d_queue")
  /\ UNCHANGED <<program, call_mutex, queues, threads, mc, permissions, flags, mq_out, freed,
                 peer, hist>>

Queue(u) ==
  /\ user[u].at \in {"queue", "d_queue"}
  /\ suscan_remote_analyzer_queue_call(user[u].want)
  /\ At(u, IF user[u].at = "queue" THEN "release" ELSE "d_release")
  /\ UNCHANGED <<program, call, call_mutex, call_queue, threads, mc, permissions, flags, mq_out,
                 freed, peer, told>>

Release(u) ==
  /\ user[u].at = "release"
  /\ suscan_remote_analyzer_release_call(u)
  /\ At(u, "idle")
  /\ UNCHANGED <<program, queues, threads, mc, permissions, flags, mq_out, freed, peer, hist>>

\* suscan_analyzer_read
suscan_analyzer_read ==
  /\ Idle(Main) /\ mq_out # <<>>
  /\ mq_out' = Tail(mq_out) /\ told' = (told \/ Head(mq_out) = HALT)
  /\ UNCHANGED <<users, call, call_mutex, queues, threads, mc, permissions, flags, freed, peer,
                 asked>>

----------------------------------------------------------------------------
(***************************************************************************)
(* The transmission thread connects and authenticates.                     *)
(***************************************************************************)
TxTo(at) == tx' = at

Fail(reason) == Tell(reason) /\ TxTo("done")

\* Names are resolved, then the multicast socket opened; without it the
\* analyzer goes on.
Resolve ==
  /\ tx = "resolve"
  /\ \/ Fail("failure")
     \/ TxTo(IF mc_if THEN "multicast" ELSE "connect") /\ UNCHANGED mq_out
  /\ UNCHANGED <<users, call, call_mutex, queues, rx, rx_thread_init, cancelled, mc, permissions,
                 flags, freed, peer, hist>>

suscan_remote_analyzer_open_multicast ==
  /\ tx = "multicast"
  /\ mc' \in {"none", "open"}
  /\ TxTo("connect")
  /\ UNCHANGED <<users, call, call_mutex, queues, rx, rx_thread_init, cancelled, permissions,
                 flags, mq_out, freed, peer, hist>>

\* It takes until the timeout, a refusal or the cancellation to fail.
suscan_remote_analyzer_network_connect_cancellable ==
  /\ tx = "connect"
  /\ \/ Fail("failure")
     \/ TxTo("hello") /\ UNCHANGED mq_out
  /\ UNCHANGED <<users, call, call_mutex, queues, rx, rx_thread_init, cancelled, mc, permissions,
                 flags, freed, peer, hist>>

\* The connection is readable: a PDU, or its end.
Readable == from_peer # <<>> \/ peer_closed

\* suscan_remote_analyzer_auth_peer: the hello.  Without a whole PDU, or
\* with one that is not a hello of this protocol, that is the end.
ReadHello ==
  /\ tx = "hello"
  /\ \/ /\ from_peer # <<>> /\ Head(from_peer).hello # "compatible"
        /\ Fail("failure")
        /\ from_peer' = Tail(from_peer) /\ UNCHANGED mc
     \/ /\ from_peer # <<>> /\ Head(from_peer).hello = "compatible"
        /\ mc' = IF Head(from_peer).multicast THEN mc ELSE "none"
        /\ from_peer' = Tail(from_peer)
        /\ TxTo("auth") /\ UNCHANGED mq_out
     \/ /\ from_peer = <<>>
        /\ Fail("failure") /\ UNCHANGED <<mc, from_peer>>
  /\ UNCHANGED <<users, call, call_mutex, queues, rx, rx_thread_init, cancelled, permissions,
                 flags, freed, said, peer_closed, to_peer, casts, hist>>

\* suscan_analyzer_server_client_auth_init
FillAuth ==
  /\ tx = "auth"
  /\ call_mutex = None /\ call_mutex' = "tx"
  /\ call' = AUTH_INFO(mc = "open")
  /\ TxTo("deliver")
  /\ UNCHANGED <<users, queues, rx, rx_thread_init, cancelled, mc, permissions, flags, mq_out,
                 freed, peer, hist>>

suscan_remote_analyzer_deliver_call ==
  /\ tx = "deliver"
  /\ suscan_remote_analyzer_release_call("tx")
  /\ \/ ~peer_closed /\ to_peer' = Append(to_peer, call) /\ TxTo("answer") /\ UNCHANGED mq_out
     \/ Fail("failure") /\ UNCHANGED to_peer
  /\ UNCHANGED <<users, queues, rx, rx_thread_init, cancelled, mc, permissions, flags, freed,
                 from_peer, said, peer_closed, casts, hist>>

\* Only source information is a yes.
ReadAnswer ==
  /\ tx = "answer"
  /\ \/ /\ from_peer # <<>> /\ call_mutex = None
        /\ from_peer' = Tail(from_peer)
        /\ \/ /\ Head(from_peer).type = "SOURCE_INFO"
              /\ permissions' = [permissions EXCEPT !.now = Head(from_peer).permissions]
              /\ mq_out' = mq_out \o <<"info", "success">>
              /\ TxTo("start")
           \/ /\ Head(from_peer).type # "SOURCE_INFO"
              /\ Fail("failure") /\ UNCHANGED permissions
     \/ /\ from_peer = <<>>
        /\ Fail("failure") /\ UNCHANGED <<from_peer, permissions>>
  /\ UNCHANGED <<users, call, call_mutex, queues, rx, rx_thread_init, cancelled, mc, flags, freed,
                 said, peer_closed, to_peer, casts, hist>>

\* suscan_remote_analyzer_tx_thread: the reception thread is created, and
\* then said to be.
StartRx ==
  /\ tx = "start" /\ rx = "none"
  /\ rx' = "poll" /\ permissions' = [permissions EXCEPT !.old = permissions.now]
  /\ TxTo("mark")
  /\ UNCHANGED <<users, call, call_mutex, queues, rx_thread_init, cancelled, mc, flags, mq_out,
                 freed, peer, hist>>

MarkRx ==
  /\ tx = "mark"
  /\ rx_thread_init' = TRUE
  /\ TxTo("read")
  /\ UNCHANGED <<users, call, call_mutex, queues, rx, cancelled, mc, permissions, flags, mq_out,
                 freed, peer, hist>>

\* A PDU is sent; a socket that takes less than all of it is an error.
suscan_remote_analyzer_tx_thread ==
  /\ tx = "read" /\ pdu_queue # <<>>
  /\ pdu_queue' = Tail(pdu_queue)
  /\ \/ /\ Head(pdu_queue) # HALT_PDU /\ ~peer_closed
        /\ to_peer' = Append(to_peer, Head(pdu_queue)) /\ UNCHANGED tx
     \/ /\ Head(pdu_queue) # HALT_PDU
        /\ TxTo("done") /\ UNCHANGED to_peer
     \/ /\ Head(pdu_queue) = HALT_PDU
        /\ TxTo("done") /\ UNCHANGED to_peer
  /\ UNCHANGED <<users, call, call_mutex, call_queue, rx, rx_thread_init, cancelled, mc,
                 permissions, flags, mq_out, freed, from_peer, said, peer_closed, casts, hist>>

\* Mutant: the analyzer is left running.
TxDoneStillRunning ==
  /\ tx = "done"
  /\ TxTo("halt")
  /\ UNCHANGED <<users, call, call_mutex, queues, rx, rx_thread_init, cancelled, mc, permissions,
                 flags, mq_out, freed, peer, hist>>

\* The analyzer no longer runs, and then the program is told, before
\* anything else it has not read.
TxDone ==
  /\ tx = "done"
  /\ running' = FALSE /\ UNCHANGED <<halt_requested, eos>>
  /\ TxTo("halt")
  /\ UNCHANGED <<users, call, call_mutex, queues, rx, rx_thread_init, cancelled, mc, permissions,
                 mq_out, freed, peer, hist>>

TxHalt ==
  /\ tx = "halt"
  /\ mq_out' = <<HALT>> \o mq_out
  /\ TxTo("ended")
  /\ UNCHANGED <<users, call, call_mutex, queues, rx, rx_thread_init, cancelled, mc, permissions,
                 flags, freed, peer, hist>>

----------------------------------------------------------------------------
(***************************************************************************)
(* The reception thread.                                                   *)
(***************************************************************************)

\* suscan_remote_analyzer_receive_call: multicast calls first ...
ReceiveQueued ==
  /\ rx = "poll" /\ call_queue # <<>>
  /\ call_mutex = None /\ call_mutex' = "rx"
  /\ call' = Head(call_queue) /\ call_queue' = Tail(call_queue)
  /\ rx' = "handle"
  /\ UNCHANGED <<users, pdu_queue, tx, rx_thread_init, cancelled, mc, permissions, flags, mq_out,
                 freed, peer, hist>>

\* ... then the cancellation, before any data ...
ReceiveCancelled ==
  /\ rx = "poll" /\ call_queue = <<>> /\ cancelled
  /\ rx' = "done"
  /\ UNCHANGED <<users, call, call_mutex, queues, tx, rx_thread_init, cancelled, mc, permissions,
                 flags, mq_out, freed, peer, hist>>

\* ... then a whole PDU of the connection; one that is not a call, or the
\* end of the connection, is the end of the thread ...
ReceiveCall ==
  /\ rx = "poll" /\ call_queue = <<>> /\ ~cancelled /\ Readable
  /\ \/ /\ from_peer # <<>> /\ Head(from_peer).type # "junk"
        /\ call_mutex = None /\ call_mutex' = "rx"
        /\ call' = Head(from_peer) /\ from_peer' = Tail(from_peer)
        /\ rx' = "handle"
     \/ /\ from_peer # <<>> /\ Head(from_peer).type = "junk" /\ call_mutex = None
        /\ from_peer' = Tail(from_peer)
        /\ rx' = "done" /\ UNCHANGED <<call, call_mutex>>
     \/ /\ from_peer = <<>>
        /\ rx' = "done" /\ UNCHANGED <<call, call_mutex, from_peer>>
  /\ UNCHANGED <<users, queues, tx, rx_thread_init, cancelled, mc, permissions, flags, mq_out,
                 freed, said, peer_closed, to_peer, casts, hist>>

\* A multicast call is copied to the queue.
on_mc_call == call_queue' = Append(call_queue, [type |-> "MESSAGE", msg |-> "cast"])

\* ... and a datagram, which may complete a call, or not be one.
ReceiveDatagram ==
  /\ rx = "poll" /\ call_queue = <<>> /\ ~cancelled /\ mc = "open" /\ ~peer_closed
  /\ casts < MaxServer /\ casts' = casts + 1
  /\ \E d \in Casts :
       /\ IF d = "call" THEN on_mc_call ELSE UNCHANGED call_queue
       /\ rx' = IF d = "fail" THEN "done" ELSE "poll"
  /\ UNCHANGED <<users, call, call_mutex, pdu_queue, tx, rx_thread_init, cancelled, mc,
                 permissions, flags, mq_out, freed, from_peer, said, peer_closed, to_peer, hist>>

\* Source information comes with permissions of its own ...
TakeSourceInfo ==
  /\ rx = "handle" /\ call.type = "SOURCE_INFO"
  /\ permissions' = [permissions EXCEPT !.now = call.permissions]
  /\ rx' = "restore"
  /\ UNCHANGED <<users, call, call_mutex, queues, tx, rx_thread_init, cancelled, mc, flags, mq_out,
                 freed, peer, hist>>

\* suscan_remote_analyzer_rx_thread, where those of the handshake are put
\* back.
suscan_remote_analyzer_rx_thread ==
  /\ \/ /\ rx = "restore"
        /\ permissions' = [permissions EXCEPT !.now = permissions.old]
        /\ Tell("info") /\ rx' = "poll" /\ UNCHANGED eos
     \/ /\ rx = "handle" /\ UNCHANGED permissions
        /\ \/ /\ call.type = "MESSAGE"
              /\ Tell(call.msg) /\ rx' = "poll" /\ UNCHANGED eos
           \/ /\ call.type = "FORCE_EOS"
              /\ eos' = TRUE /\ Tell("eos") /\ rx' = "done"
           \/ /\ call.type \notin {"SOURCE_INFO", "MESSAGE", "FORCE_EOS"}
              /\ rx' = "poll" /\ UNCHANGED <<eos, mq_out>>
  /\ suscan_remote_analyzer_release_call("rx")
  /\ UNCHANGED <<users, queues, tx, rx_thread_init, cancelled, mc, running, halt_requested, freed,
                 peer, hist>>

RxDone ==
  /\ rx = "done"
  /\ pdu_queue' = Append(pdu_queue, HALT_PDU)
  /\ rx' = "ended"
  /\ UNCHANGED <<users, call, call_mutex, call_queue, tx, rx_thread_init, cancelled, mc,
                 permissions, flags, mq_out, freed, peer, hist>>

----------------------------------------------------------------------------
(***************************************************************************)
(* suscan_analyzer_destroy and suscan_remote_analyzer_dtor, by the main    *)
(* thread once the others have made their calls.  A program that has asked *)
(* for the halt waits for the answer first, unless EarlyDestroy.           *)
(***************************************************************************)
Quiet == \A u \in Users \ {Main} : Idle(u) /\ program[u] = <<>>

\* suscan_analyzer_force_eos
Destroy ==
  /\ Idle(Main) /\ program[Main] = <<>> /\ Quiet
  /\ halt_requested => (EarlyDestroy \/ told)
  /\ suscan_remote_analyzer_acquire_call(Main, "FORCE_EOS")
  /\ user' = [user EXCEPT ![Main] = [at |-> "d_fill", want |-> suscan_remote_analyzer_force_eos]]
  /\ UNCHANGED <<program, queues, threads, mc, permissions, flags, mq_out, freed, peer, hist>>

\* A halt is requested if the analyzer runs and none was, and waited for.
DestroyRelease ==
  /\ user[Main].at = "d_release"
  /\ suscan_remote_analyzer_release_call(Main)
  /\ At(Main, CASE user[Main].want = suscan_remote_analyzer_req_halt -> "d_wait"
                [] user[Main].want # suscan_remote_analyzer_req_halt
                     /\ running /\ ~halt_requested -> "d_halt"
                [] OTHER -> "dtor")
  /\ UNCHANGED <<program, queues, threads, mc, permissions, flags, mq_out, freed, peer, hist>>

DestroyReqHalt ==
  /\ user[Main].at = "d_halt"
  /\ halt_requested' = TRUE
  /\ suscan_remote_analyzer_acquire_call(Main, "REQ_HALT")
  /\ user' = [user EXCEPT ![Main] = [at |-> "d_fill", want |-> suscan_remote_analyzer_req_halt]]
  /\ UNCHANGED <<program, queues, threads, mc, permissions, running, eos, mq_out, freed, peer,
                 hist>>

\* suscan_analyzer_consume_mq_until_halt and suscan_mq_wait
suscan_analyzer_consume_mq_until_halt ==
  /\ user[Main].at = "d_wait" /\ mq_out # <<>>
  /\ mq_out' = Tail(mq_out)
  /\ IF Head(mq_out) = HALT THEN At(Main, "dtor") ELSE UNCHANGED user
  /\ UNCHANGED <<program, call, call_mutex, queues, threads, mc, permissions, flags, freed, peer,
                 hist>>

\* Mutant: the reception thread is joined only while the analyzer runs.
DtorIfRunning ==
  /\ user[Main].at = "dtor"
  /\ cancelled' = (rx_thread_init /\ running)
  /\ At(Main, IF rx_thread_init /\ running THEN "join_rx" ELSE "halt_tx")
  /\ UNCHANGED <<program, call, call_mutex, queues, tx, rx, rx_thread_init, mc, permissions,
                 flags, mq_out, freed, peer, hist>>

\* The reception thread is cancelled if it is known to exist.
suscan_remote_analyzer_dtor ==
  /\ user[Main].at = "dtor"
  /\ cancelled' = rx_thread_init
  /\ At(Main, IF rx_thread_init THEN "join_rx" ELSE "halt_tx")
  /\ UNCHANGED <<program, call, call_mutex, queues, tx, rx, rx_thread_init, mc, permissions,
                 flags, mq_out, freed, peer, hist>>

JoinRx ==
  /\ user[Main].at = "join_rx" /\ rx = "ended"
  /\ At(Main, "halt_tx")
  /\ UNCHANGED <<program, call, call_mutex, queues, threads, mc, permissions, flags, mq_out,
                 freed, peer, hist>>

HaltTx ==
  /\ user[Main].at = "halt_tx"
  /\ pdu_queue' = Append(pdu_queue, HALT_PDU)
  /\ At(Main, "join_tx")
  /\ UNCHANGED <<program, call, call_mutex, call_queue, threads, mc, permissions, flags, mq_out,
                 freed, peer, hist>>

\* With suscan_remote_analyzer_consume_pdu_queue.
Free ==
  /\ user[Main].at = "join_tx" /\ tx = "ended"
  /\ freed' = TRUE
  /\ pdu_queue' = <<>> /\ call_queue' = <<>> /\ mc' = "none"
  /\ At(Main, "gone")
  /\ UNCHANGED <<program, call, call_mutex, threads, permissions, flags, mq_out, peer, hist>>

----------------------------------------------------------------------------
(***************************************************************************)
(* The server.                                                             *)
(***************************************************************************)
Say(pdus) ==
  /\ ~peer_closed /\ \E p \in pdus : from_peer' = Append(from_peer, p)
  /\ UNCHANGED <<users, call, call_mutex, queues, threads, mc, permissions, flags, mq_out, freed,
                 peer_closed, to_peer, casts, hist>>

Info(perms) == [type |-> "SOURCE_INFO", permissions |-> perms]

SayHello  == said = 0 /\ tx \in {"connect", "hello"} /\ Say(Hellos) /\ said' = 1

SayAnswer == said = 1 /\ to_peer # <<>> /\ Say(Answers) /\ said' = 2

SayCall ==
  /\ said \in 2..(MaxServer + 1) /\ rx # "none"
  /\ Say({Info(ALL), [type |-> "MESSAGE", msg |-> "message"], [type |-> "FORCE_EOS"],
          [type |-> "NONE"], [type |-> "junk"]})
  /\ said' = said + 1

Close ==
  /\ said > 0 /\ ~peer_closed /\ peer_closed' = TRUE
  /\ UNCHANGED <<users, call, call_mutex, queues, threads, mc, permissions, flags, mq_out, freed,
                 from_peer, said, to_peer, casts, hist>>

----------------------------------------------------------------------------
UserStep(u) == CallNext(u) \/ Acquire(u) \/ Fill(u) \/ Queue(u) \/ Release(u)

MainStep ==
  \/ ReqHalt \/ suscan_analyzer_read \/ Destroy \/ DestroyRelease \/ DestroyReqHalt
  \/ suscan_analyzer_consume_mq_until_halt \/ suscan_remote_analyzer_dtor \/ JoinRx \/ HaltTx
  \/ Free

Connecting ==
  \/ Resolve \/ suscan_remote_analyzer_open_multicast
  \/ suscan_remote_analyzer_network_connect_cancellable \/ ReadHello \/ FillAuth
  \/ suscan_remote_analyzer_deliver_call \/ ReadAnswer \/ StartRx \/ MarkRx

Sending == suscan_remote_analyzer_tx_thread \/ TxDone \/ TxHalt

Receiving ==
  \/ ReceiveQueued \/ ReceiveCancelled \/ ReceiveCall \/ ReceiveDatagram
  \/ TakeSourceInfo \/ suscan_remote_analyzer_rx_thread \/ RxDone

Server == SayHello \/ SayAnswer \/ SayCall \/ Close

Next == (\E u \in Users : UserStep(u)) \/ MainStep \/ Connecting \/ Sending \/ Receiving \/ Server

\* Every wait of the connection has a timeout.  A thread that waits for the
\* call structure gets it.  A server that is asked to halt closes.
Spec ==
  /\ Init /\ [][Next]_vars
  /\ \A u \in Users : WF_vars(Acquire(u) \/ Fill(u) \/ Queue(u) \/ Release(u))
  /\ WF_vars(DestroyRelease \/ suscan_analyzer_consume_mq_until_halt
               \/ suscan_remote_analyzer_dtor \/ JoinRx \/ HaltTx \/ Free)
  /\ SF_vars(DestroyReqHalt)
  /\ SF_vars(Connecting) /\ WF_vars(Sending) /\ SF_vars(Receiving)
  /\ WF_vars(suscan_remote_analyzer_req_halt \in ToSet(to_peer) /\ Close)

----------------------------------------------------------------------------
(***************************************************************************)
(* Properties.                                                             *)
(***************************************************************************)

\* What threads of the program ask for, and what the server says.
Wants ==
  {suscan_remote_analyzer_force_eos, suscan_remote_analyzer_req_halt}
    \cup UNION {UNION {{c.call : c \in ToSet(p[u])} : u \in Users} : p \in Programs}
ServerCalls ==
  {Info(ALL), [type |-> "MESSAGE", msg |-> "message"], [type |-> "FORCE_EOS"],
   [type |-> "NONE"], [type |-> "junk"]}
McCall == [type |-> "MESSAGE", msg |-> "cast"]

CallPlaces == {"idle", "lock", "fill", "queue", "release"}
DestroyPlaces ==
  {"d_fill", "d_queue", "d_release", "d_wait", "d_halt", "dtor", "join_rx", "halt_tx", "join_tx",
   "gone"}

UserTypes ==
  /\ DOMAIN program = Users
  /\ \A u \in Users : /\ program[u] \in Seq(ToSet(program[u]))
                      /\ \A c \in ToSet(program[u]) : c.call \in Wants
  /\ user \in [Users -> [at : CallPlaces \cup DestroyPlaces, want : Wants \cup {NoCall}]]
  /\ \A u \in Users \ {Main} : user[u].at \in CallPlaces
  /\ call_mutex \in Users \cup {"tx", "rx", None}

QueueTypes ==
  /\ pdu_queue \in Seq(Wants \cup {HALT_PDU})
  /\ call_queue \in Seq({McCall})
  /\ to_peer \in Seq(Wants \cup {AUTH_INFO(TRUE), AUTH_INFO(FALSE)})
  /\ asked \in Seq(Wants)

ThreadTypes ==
  /\ tx \in {"resolve", "multicast", "connect", "hello", "auth", "deliver", "answer", "start",
              "mark", "read", "done", "halt", "ended"}
  /\ rx \in {"none", "poll", "handle", "restore", "done", "ended"}
  /\ rx_thread_init \in BOOLEAN /\ cancelled \in BOOLEAN
  /\ mc \in {"none", "open"}
  /\ running \in BOOLEAN /\ halt_requested \in BOOLEAN /\ eos \in BOOLEAN
  /\ freed \in BOOLEAN /\ told \in BOOLEAN

MessageTypes ==
  /\ mq_out \in Seq({"info", "success", "failure", "message", "cast", "eos", HALT})
  /\ from_peer \in Seq(Hellos \cup Answers \cup ServerCalls)
  /\ said \in Nat /\ casts \in Nat /\ peer_closed \in BOOLEAN

TypeOK == UserTypes /\ QueueTypes /\ ThreadTypes /\ MessageTypes

\* The threads of the program and both threads of the analyzer share one
\* call structure.  What reaches the server is the client's authentication
\* and then the calls as they were made: each once, whole, in the order of
\* the queue, those made while connecting too.
SentAsAsked ==
  to_peer # <<>> => /\ to_peer[1].type = "AUTH_INFO"
                    /\ IsPrefix(Tail(to_peer), asked)

\* The structures are freed only when no thread of the analyzer is left.
NoThreadLeft == freed => tx = "ended" /\ rx \in {"none", "ended"}

\* suscan_analyzer_destroy returns, whatever the program has read before and
\* wherever the connection was, if the server closes when asked to halt.
\* (A destruction does not go back to a call of the program.)
Destroying == user[Main].at \notin {"idle", "lock", "fill", "queue", "release", "gone"}
DestroyReturns == []<>~Destroying

\* A connection that ends is the end of the analyzer: the program is told.
HaltTold == []<>(peer_closed => freed \/ told \/ HALT \in ToSet(mq_out))
=============================================================================
