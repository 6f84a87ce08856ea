------------------------------ MODULE DevServ -------------------------------
(***************************************************************************)
(* The device server (cli/devserv/server.c) and its list of clients        *)
(* (cli/devserv/client.c): one analyzer shared by everyone who connects.   *)
(*                                                                         *)
(* The rx thread polls the sockets, authenticates, translates what the     *)
(* clients ask for and hands it to the analyzer.  The tx thread reads what *)
(* the analyzer says, finds out whom it is for and pushes it to the        *)
(* client's transmission thread (TxThread.tla).  Requests carry a global   *)
(* identifier that only the server knows (the request tree), inspectors an *)
(* index into the inspector translation list (the ITL), and clients see    *)
(* private handles.                                                        *)
(*                                                                         *)
(* Random identifiers are drawn until they are unused (32 bits); they are  *)
(* represented by what they were drawn for, so that no two draws agree.    *)
(***************************************************************************)
EXTENDS Integers, Sequences, FiniteSets, SequencesExt, TLC

CONSTANTS
  Clients,      \* connections
  Allowed,      \* clients whose user may tune and open inspectors
  Multicast,    \* clients that accept multicast from a server that has it
  Scripts,      \* what the clients may do: for each, the kinds of its successive calls
  MaxEvents,    \* bound on the analyzers that start, the batches of samples, and the
                \* pushes that fail
  None

\* The three kinds of a first call, and those of the calls that follow
CallKinds == {"auth", "bad_auth", "other", "set", "halt", "open", "set_id", "close", "get"}

ASSUME DevServAssumption ==
  /\ IsFiniteSet(Clients) /\ Allowed \subseteq Clients /\ Multicast \subseteq Clients
  /\ \A s \in Scripts : s \in [Clients -> Seq(SUBSET CallKinds)]
  /\ MaxEvents \in Nat
  /\ None \notin Clients

VARIABLES
  peer,    \* the other end of each connection
  inbox,   \* the call in each socket, or None
  calls,   \* calls each client has still to make
  known,   \* private handles each client was told
  cl,      \* struct suscli_analyzer_client
  listed,  \* client_head: the clients in the list
  epoch,   \* client_list.epoch
  req,     \* req_tree, and the req_table of each client
  itl,     \* itl_tree
  cm,      \* owner of client_mutex
  im,      \* the client whose inspector_mutex the rx thread holds
  rx,      \* where the rx thread is
  tx,      \* where the tx thread is
  server,  \* tx_thread_running, tx_halted
  ana,     \* the analyzer: state, halt requested, open inspectors
  aq,      \* messages for the analyzer
  mq,      \* self->mq: messages from the analyzer
  out,     \* history: what the tx thread pushed last
  budget   \* events that may still happen

vars == <<peer, inbox, calls, known, cl, listed, epoch, req, itl, cm, im, rx, tx, server, ana,
          aq, mq, out, budget>>

Handle(what, of) == [what |-> what, of |-> of]
NoHandle == Handle("bad", None)
Messages == {"open", "set_id", "close", "get", "invalid_channel", "wrong_handle", "noop",
             "samples", "info"}
\* A message of the analyzer: the request it answers, the inspector it is
\* about, and its inspector_id.  The server's own requests have the ids 0
\* (closes) and -1 (the id of an inspector).
NoReq == <<None, 0>>
IdReq == <<None, -1>>
Msg(kind, r, glob, id) == [kind |-> kind, req |-> r, glob |-> glob, id |-> id]
HALT == Msg("halt", NoReq, NoHandle, NoHandle)

Forget(f, k) == [x \in DOMAIN f \ {k} |-> f[x]]
Put(f, k, e) == [x \in DOMAIN f \cup {k} |-> IF x = k THEN e ELSE f[x]]

\* A client that was just accepted, in the epoch e
suscli_analyzer_client_new(e) ==
  [auth |-> FALSE, info |-> FALSE, failed |-> FALSE, closed |-> FALSE, epoch |-> e,
   handles |-> <<>>]

\* The table of the private handles of a client
suscli_analyzer_client_register_inspector_handle(k, p, glob, idx) ==
  [k EXCEPT !.handles = Put(@, p, [glob |-> glob, itl |-> idx])]
suscli_analyzer_client_dispose_inspector_handle(k, p) == [k EXCEPT !.handles = Forget(@, p)]
suscli_analyzer_client_get_inspector_entry_unsafe(c, p) == p \in DOMAIN cl[c].handles
suscli_analyzer_client_for_each_inspector(k) == {k.handles[p] : p \in DOMAIN k.handles}

suscli_analyzer_client_can_write(s, c) == ~s[c].closed /\ ~s[c].failed

suscli_analyzer_client_has_outstanding_inspectors(c) == cl[c].handles # <<>>

(***************************************************************************)
(* Kicking a client: its socket is shut down and, the first time, its      *)
(* inspectors are closed or, without the analyzer that has them, forgotten.*)
(***************************************************************************)
suscli_analyzer_client_shutdown(k) == [k EXCEPT !.closed = TRUE]

Reachable(k) == server.running /\ epoch = k.epoch

suscli_analyzer_server_on_client_inspector(k) ==
  IF Reachable(k)
  THEN LET closes == {Msg("close", NoReq, e.glob, NoHandle) :
                        e \in suscli_analyzer_client_for_each_inspector(k)}
       IN [client |-> k, closes |-> SetToSeq(closes)]
  ELSE [client |-> [k EXCEPT !.handles = <<>>], closes |-> <<>>]

suscli_analyzer_server_kick_client_unsafe(k) ==
  LET shut == suscli_analyzer_client_shutdown(k)
      r    == suscli_analyzer_server_on_client_inspector(shut)
  IN IF k.failed THEN [client |-> shut, closes |-> <<>>]
     ELSE [r EXCEPT !.client.failed = TRUE]

suscli_analyzer_server_kick_client(c) ==
  LET r == suscli_analyzer_server_kick_client_unsafe(cl[c]) IN
  /\ cl' = [cl EXCEPT ![c] = r.client]
  /\ aq' = aq \o r.closes

(***************************************************************************)
(* The clients.                                                            *)
(***************************************************************************)
Connect(c) ==
  /\ peer[c] = "away"
  /\ peer' = [peer EXCEPT ![c] = "backlog"]
  /\ UNCHANGED <<inbox, calls, known, cl, listed, epoch, req, itl, cm, im, rx, tx, server, ana,
                 aq, mq, out, budget>>

\* A call of client c: the kind, the handle it names, the request id of c
CallsOf(c) ==
  {k \in [kind : Head(calls[c]), handle : known[c] \cup {NoHandle}, rid : {Len(calls[c])}] :
     k.kind \notin {"set_id", "close", "get"} => k.handle = NoHandle}

Send(c) ==
  /\ peer[c] = "up" /\ inbox[c] = None /\ ~cl[c].closed /\ calls[c] # <<>>
  /\ cl[c].info \/ calls[c] \in {s[c] : s \in Scripts}
  /\ \E k \in CallsOf(c) : inbox' = [inbox EXCEPT ![c] = k]
  /\ calls' = [calls EXCEPT ![c] = Tail(@)]
  /\ UNCHANGED <<peer, known, cl, listed, epoch, req, itl, cm, im, rx, tx, server, ana, aq, mq,
                 out, budget>>

Disconnect(c) ==
  /\ peer[c] = "up"
  /\ peer' = [peer EXCEPT ![c] = "left"]
  /\ UNCHANGED <<inbox, calls, known, cl, listed, epoch, req, itl, cm, im, rx, tx, server, ana,
                 aq, mq, out, budget>>

(***************************************************************************)
(* The analyzer, as the server sees it (InspLife.tla has its inspectors):  *)
(* it answers what it reads, in this order, and its inspectors produce     *)
(* samples.                                                                *)
(***************************************************************************)
IdOf(h) == IF h \in DOMAIN ana.insp THEN ana.insp[h] ELSE NoHandle

suscan_local_analyzer_parse_inspector_msg(m) ==
  LET new   == Handle("glob", m.req)
      isIn  == m.glob \in DOMAIN ana.insp
      wrong == Msg("wrong_handle", m.req, m.glob, NoHandle)
  IN \/ /\ m.kind = "open"
        /\ \/ /\ ana' = [ana EXCEPT !.insp = Put(@, new, NoHandle)]
              /\ mq' = Append(mq, Msg("open", m.req, new, NoHandle))
           \/ /\ mq' = Append(mq, Msg("invalid_channel", m.req, NoHandle, NoHandle))
              /\ UNCHANGED ana
     \/ /\ m.kind = "close"
        /\ ana' = [ana EXCEPT !.insp = Forget(@, m.glob)]
        /\ mq' = Append(mq, IF isIn THEN Msg("close", m.req, m.glob, IdOf(m.glob)) ELSE wrong)
     \/ /\ m.kind = "set_id"
        /\ ana' = IF isIn THEN [ana EXCEPT !.insp[m.glob] = m.id] ELSE ana
        /\ mq' = Append(mq, IF isIn THEN m ELSE wrong)
     \/ /\ m.kind = "get"
        /\ mq' = Append(mq, IF isIn THEN Msg("get", m.req, m.glob, IdOf(m.glob)) ELSE wrong)
        /\ UNCHANGED ana
     \/ /\ m.kind = "noop"
        /\ mq' = Append(mq, m)
        /\ UNCHANGED ana
     \/ /\ m.kind = "set"
        /\ mq' = Append(mq, Msg("info", NoReq, NoHandle, NoHandle))
        /\ UNCHANGED ana

AnalyzerAnswers ==
  /\ ana.state = "running" /\ aq # <<>>
  /\ suscan_local_analyzer_parse_inspector_msg(Head(aq))
  /\ aq' = Tail(aq)
  /\ UNCHANGED <<peer, inbox, calls, known, cl, listed, epoch, req, itl, cm, im, rx, tx, server,
                 out, budget>>

AnalyzerSamples ==
  /\ ana.state = "running" /\ budget > 0
  /\ \E h \in DOMAIN ana.insp : mq' = Append(mq, Msg("samples", NoReq, h, ana.insp[h]))
  /\ budget' = budget - 1
  /\ UNCHANGED <<peer, inbox, calls, known, cl, listed, epoch, req, itl, cm, im, rx, tx, server,
                 ana, aq, out>>

AnalyzerHalts ==
  /\ ana.state = "running" /\ ana.halt
  /\ ana' = [ana EXCEPT !.state = "halted"]
  /\ mq' = Append(mq, HALT)
  /\ UNCHANGED <<peer, inbox, calls, known, cl, listed, epoch, req, itl, cm, im, rx, tx, server,
                 aq, out, budget>>

suscan_analyzer_req_halt == ana' = [ana EXCEPT !.halt = ana.state # "none" \/ @]

(***************************************************************************)
(* The rx thread.  One iteration: poll, collect a tx thread that ended,    *)
(* accept who connects or else serve everyone who has something to read,   *)
(* and remove the clients that are gone.                                   *)
(***************************************************************************)
Readable(c) == inbox[c] # None \/ peer[c] = "left" \/ cl[c].closed
\* The clients that the poll reports
suscli_analyzer_client_list_update_pollfds == {c \in listed : Readable(c)}
Backlog == {c \in Clients : peer[c] = "backlog"}
At(pc) == [rx EXCEPT !.pc = pc]
Served(c) ==
  LET left == rx.todo \ {c} IN
  [rx EXCEPT !.pc = IF left = {} THEN "cleanup" ELSE "clients", !.todo = left, !.c = None,
             !.msg = None]

suscli_analyzer_server_clean_dead_threads ==
  IF server.running /\ server.halted
  THEN /\ server' = [server EXCEPT !.running = FALSE]
       /\ ana' = [state |-> "none", halt |-> FALSE, insp |-> <<>>]
       /\ mq' = <<>> /\ aq' = <<>>
  ELSE UNCHANGED <<server, ana, mq, aq>>

RxPoll ==
  /\ rx.pc = "poll"
  /\ suscli_analyzer_client_list_update_pollfds # {} \/ Backlog # {}
  /\ rx' = IF Backlog # {} THEN At("accept")
           ELSE [At("clients") EXCEPT !.todo = suscli_analyzer_client_list_update_pollfds]
  /\ suscli_analyzer_server_clean_dead_threads
  /\ UNCHANGED <<peer, inbox, calls, known, cl, listed, epoch, req, itl, cm, im, tx, out, budget>>

\* suscli_analyzer_client_list_append_client, for all of them
suscli_analyzer_client_list_append_client(cs) ==
  /\ listed' = listed \cup cs
  /\ cl' = [c \in Clients |-> IF c \in cs THEN suscli_analyzer_client_new(epoch) ELSE cl[c]]

\* A client that left meanwhile has no peer name: that ends the thread.
suscli_analyzer_server_register_clients ==
  /\ rx.pc = "accept" /\ cm = None
  /\ \E cs \in SUBSET Backlog :
       /\ suscli_analyzer_client_list_append_client(cs)
       /\ peer' = [c \in Clients |-> IF c \in cs THEN "up" ELSE peer[c]]
       /\ rx' = IF cs = Backlog THEN At("cleanup") ELSE At("dead")
  /\ UNCHANGED <<inbox, calls, known, epoch, req, itl, cm, im, tx, server, ana, aq, mq, out,
                 budget>>

RxSkip(c) ==
  /\ rx.pc = "clients" /\ c \in rx.todo /\ cl[c].failed
  /\ rx' = Served(c)
  /\ UNCHANGED <<peer, inbox, calls, known, cl, listed, epoch, req, itl, cm, im, tx, server, ana,
                 aq, mq, out, budget>>

suscli_analyzer_client_read(c) == inbox[c] # None

\* The read fails.  A socket that was shut down may still give what it had
\* received.
RxEof(c) ==
  /\ rx.pc = "clients" /\ c \in rx.todo /\ ~cl[c].failed /\ cm = None
  /\ suscli_analyzer_client_read(c) => cl[c].closed
  /\ suscli_analyzer_server_kick_client(c)
  /\ rx' = Served(c)
  /\ UNCHANGED <<peer, inbox, calls, known, listed, epoch, req, itl, cm, im, tx, server, ana, mq,
                 out, budget>>

\* The read completes a call, which is processed at once: until the thread
\* waits for a mutex, what the tx thread does could as well come before.
suscli_analyzer_client_take_call(c) ==
  /\ rx.pc = "clients" /\ c \in rx.todo /\ ~cl[c].failed
  /\ suscli_analyzer_client_read(c)
  /\ inbox' = [inbox EXCEPT ![c] = None]

\* Authentication.  The first client finds no analyzer and starts it.
suscli_analyzer_server_start_analyzer ==
  /\ ana.state = "none" /\ ~server.running /\ budget > 0
  /\ ana' = [ana EXCEPT !.state = "running"]
  /\ server' = [running |-> TRUE, halted |-> FALSE]
  /\ tx' = [pc |-> "read", msg |-> None]
  /\ budget' = budget - 1

\* The source information is pushed: from now on, broadcasts are too.  A
\* push that fails ends the rx thread.
suscli_analyzer_client_send_source_info(k) == [k EXCEPT !.info = TRUE]

suscli_analyzer_server_process_auth_message(c) ==
  /\ suscli_analyzer_client_take_call(c) /\ ~cl[c].auth /\ inbox[c].kind = "auth"
  /\ IF ana.state = "none" THEN suscli_analyzer_server_start_analyzer
     ELSE UNCHANGED <<ana, server, tx, budget>>
  /\ LET k == [cl[c] EXCEPT !.auth = TRUE] IN
     \/ cl' = [cl EXCEPT ![c] = suscli_analyzer_client_send_source_info(k)] /\ rx' = Served(c)
     \/ cl' = [cl EXCEPT ![c] = k] /\ rx' = At("dead")
  /\ UNCHANGED <<peer, calls, known, listed, epoch, req, itl, cm, im, aq, mq, out>>

\* A wrong token, or an analyzer that does not start: the client is told
\* and kicked.
RejectClient(c) ==
  /\ suscli_analyzer_client_take_call(c) /\ ~cl[c].auth /\ cm = None
  /\ inbox[c].kind = "bad_auth" \/ (inbox[c].kind = "auth" /\ ana.state = "none")
  /\ suscli_analyzer_server_kick_client(c)
  /\ rx' = Served(c)
  /\ UNCHANGED <<peer, calls, known, listed, epoch, req, itl, cm, im, tx, server, ana, mq,
                 out, budget>>

\* Any other call before the authentication ends the thread.
RxProtocolError(c) ==
  /\ suscli_analyzer_client_take_call(c) /\ ~cl[c].auth /\ inbox[c].kind = "other"
  /\ rx' = At("dead")
  /\ UNCHANGED <<peer, calls, known, cl, listed, epoch, req, itl, cm, im, tx, server, ana,
                 aq, mq, out, budget>>

(***************************************************************************)
(* suscli_analyzer_server_deliver_call.  Without an analyzer, the calls    *)
(* dereference a null pointer ("crashed").                                 *)
(***************************************************************************)
Delivering(c, kinds) ==
  suscli_analyzer_client_take_call(c) /\ cl[c].auth /\ inbox[c].kind \in kinds

\* What everyone is told of: a source that changed, or that ended
SetMsg == Msg("set", NoReq, NoHandle, NoHandle)

DeliverSetting(c) ==
  /\ Delivering(c, {"set"})
  /\ rx' = IF c \in Allowed /\ ana.state = "none" THEN At("crashed") ELSE Served(c)
  /\ aq' = IF c \in Allowed /\ ana.state # "none"
           THEN Append(aq, SetMsg) ELSE aq
  /\ UNCHANGED <<peer, calls, known, cl, listed, epoch, req, itl, cm, im, tx, server, ana, mq,
                 out, budget>>

\* SUSCAN_ANALYZER_REMOTE_REQ_HALT, and FORCE_EOS, which ends the source
DeliverHalt(c) ==
  /\ Delivering(c, {"halt"})
  /\ \/ /\ Cardinality(listed) = 1
        /\ \/ suscan_analyzer_req_halt /\ UNCHANGED aq
           \/ aq' = (IF ana.state = "none" THEN aq ELSE Append(aq, SetMsg)) /\ UNCHANGED ana
        /\ rx' = IF ana.state = "none" THEN At("crashed") ELSE Served(c)
        /\ UNCHANGED cl
     \/ /\ Cardinality(listed) # 1 /\ cm = None
        /\ suscli_analyzer_server_kick_client(c)
        /\ rx' = Served(c)
        /\ UNCHANGED ana
  /\ UNCHANGED <<peer, calls, known, listed, epoch, req, itl, cm, im, tx, server, mq, out, budget>>

\* The request gets a global id, an entry of the client and one of the list.
suscli_analyzer_client_list_alloc_global_id(c) == <<c, inbox[c].rid>>
suscli_analyzer_client_allocate_request(c) == [client |-> c, rid |-> inbox[c].rid]
suscli_analyzer_client_list_register_request(gid, entry) == req' = Put(req, gid, entry)
suscli_analyzer_server_fix_inspector_message(c) ==
  suscli_analyzer_client_list_register_request(suscli_analyzer_client_list_alloc_global_id(c),
                                               suscli_analyzer_client_allocate_request(c))
GlobalId(c) == suscli_analyzer_client_list_alloc_global_id(c)

\* The message goes to the analyzer, if there is one.
Write(c, m) ==
  IF ana.state = "none" THEN rx' = At("crashed") /\ UNCHANGED aq
  ELSE rx' = Served(c) /\ aq' = Append(aq, m)

suscli_analyzer_client_can_open(c) == c \in Allowed

\* An inspector that may not be opened becomes a NOOP.
suscli_analyzer_server_on_open(c) ==
  /\ Delivering(c, {"open"})
  /\ suscli_analyzer_server_fix_inspector_message(c)
  /\ LET kind == IF suscli_analyzer_client_can_open(c) THEN "open" ELSE "noop"
     IN Write(c, Msg(kind, GlobalId(c), NoHandle, NoHandle))
  /\ UNCHANGED <<peer, calls, known, cl, listed, epoch, itl, cm, im, tx, server, ana, mq, out,
                 budget>>

\* The private handle becomes the analyzer's.  For SET_ID, the thread goes
\* on to take the client mutex, with the inspector mutex in its hands.
suscli_analyzer_client_intercept_message(c) ==
  /\ Delivering(c, {"set_id", "close", "get"})
  /\ suscli_analyzer_client_get_inspector_entry_unsafe(c, inbox[c].handle)
  /\ suscli_analyzer_server_fix_inspector_message(c)
  /\ LET e == cl[c].handles[inbox[c].handle]
         m == Msg(inbox[c].kind, GlobalId(c), e.glob, e.itl)
     IN \/ /\ m.kind = "set_id"
           /\ rx' = [At("set_id") EXCEPT !.c = c, !.msg = m]
           /\ im' = c
           /\ UNCHANGED aq
        \/ m.kind # "set_id" /\ Write(c, m) /\ UNCHANGED im
  /\ UNCHANGED <<peer, calls, known, cl, listed, epoch, itl, cm, tx, server, ana, mq, out, budget>>

suscli_analyzer_server_on_wrong_handle(c) ==
  /\ Delivering(c, {"set_id", "close", "get"})
  /\ ~suscli_analyzer_client_get_inspector_entry_unsafe(c, inbox[c].handle)
  /\ suscli_analyzer_server_fix_inspector_message(c)
  /\ mq' = Append(mq, Msg("wrong_handle", GlobalId(c), NoHandle, NoHandle))
  /\ rx' = Served(c)
  /\ UNCHANGED <<peer, calls, known, cl, listed, epoch, itl, cm, im, tx, server, ana, aq, out,
                 budget>>

suscli_analyzer_client_list_set_inspector_id_unsafe(idx, id) ==
  itl' = [itl EXCEPT ![idx].local = id]

suscli_analyzer_server_on_set_id ==
  /\ rx.pc = "set_id" /\ cm = None
  /\ \/ /\ rx.msg.id \in DOMAIN itl
        /\ suscli_analyzer_client_list_set_inspector_id_unsafe(rx.msg.id, rx.msg.req[2])
        /\ Write(rx.c, rx.msg)
     \/ /\ rx.msg.id \notin DOMAIN itl
        /\ rx' = Served(rx.c)
        /\ UNCHANGED <<itl, aq>>
  /\ im' = None
  /\ UNCHANGED <<peer, inbox, calls, known, cl, listed, epoch, req, cm, tx, server, ana, mq, out,
                 budget>>

(***************************************************************************)
(* The clean-up at the end of the iteration, unless the tx thread, which   *)
(* works on a message, is seen to have the mutex.                          *)
(***************************************************************************)
\* Mutant: a failed client goes at once, whatever the analyzer has of it
RemovableAtOnce(c) == c \in listed /\ cl[c].failed
\* Mutant: the answers of a dead analyzer are waited for
RemovableWaits(c) ==
  c \in listed /\ cl[c].failed /\ ~suscli_analyzer_client_has_outstanding_inspectors(c)

Removable(c) ==
  /\ c \in listed /\ cl[c].failed
  /\ epoch # cl[c].epoch \/ ~suscli_analyzer_client_has_outstanding_inspectors(c)

\* A client leaves the list and its requests the tree.
suscli_analyzer_client_walk_requests_unsafe(cs) == {g \in DOMAIN req : req[g].client \in cs}
suscli_analyzer_client_list_remove_unsafe(cs) ==
  /\ listed' = listed \ cs
  /\ req' = [g \in DOMAIN req \ suscli_analyzer_client_walk_requests_unsafe(cs) |-> req[g]]

suscli_analyzer_client_list_cleanup_unsafe ==
  suscli_analyzer_client_list_remove_unsafe({c \in Clients : Removable(c)})

suscli_analyzer_client_list_attempt_cleanup ==
  /\ rx.pc = "cleanup"
  /\ \/ cm = None /\ suscli_analyzer_client_list_cleanup_unsafe
     \/ tx.msg # None /\ UNCHANGED <<listed, req>>
  /\ IF server.running /\ listed' = {} THEN suscan_analyzer_req_halt ELSE UNCHANGED ana
  /\ rx' = At("poll")
  /\ UNCHANGED <<peer, inbox, calls, known, cl, epoch, itl, cm, im, tx, server, aq, mq, out,
                 budget>>

(***************************************************************************)
(* The tx thread.                                                          *)
(***************************************************************************)
TxAt(pc) == [tx EXCEPT !.pc = pc]

TxRead ==
  /\ tx.pc = "read" /\ mq # <<>>
  /\ mq' = Tail(mq)
  /\ tx' = IF Head(mq) = HALT THEN TxAt("epoch") ELSE [pc |-> "lock", msg |-> Head(mq)]
  /\ out' = {}
  /\ UNCHANGED <<peer, inbox, calls, known, cl, listed, epoch, req, itl, cm, im, rx, server, ana,
                 aq, budget>>

\* Mutant: refusals are not translated
TranslateNotRefusals(m) ==
  IF m.req \in DOMAIN req /\ m.kind # "noop" THEN req[m.req].client ELSE None
\* The client that asked, if it is still there, and the one that has the
\* inspector.  A request is answered once.
suscli_analyzer_server_translate_insp_message(m) ==
  IF m.req \in DOMAIN req THEN req[m.req].client ELSE None
suscli_analyzer_client_list_get_itl_entry_unsafe(m) ==
  IF m.id \in DOMAIN itl THEN itl[m.id].client ELSE None
\* An entry keeps whether its client was of another analyzer (history).
suscli_analyzer_client_list_alloc_itl_entry_unsafe(idx, c, p) ==
  itl' = Put(itl, idx, [client |-> c, priv |-> p, local |-> 0, late |-> cl[c].epoch # epoch])
suscli_analyzer_client_list_dispose_itl_entry_unsafe(idx) == itl' = Forget(itl, idx)
suscli_analyzer_client_list_unregister_request_unsafe(m) == req' = Forget(req, m.req)

ByRequest == {"open", "invalid_channel", "wrong_handle", "noop"}
Recipient(m) ==
  IF m.kind \in ByRequest THEN suscli_analyzer_server_translate_insp_message(m)
  ELSE suscli_analyzer_client_list_get_itl_entry_unsafe(m)

\* Who is told what is for nobody in particular: everyone who knows the source
Audience == {c \in listed \ Multicast : suscli_analyzer_client_can_write(cl, c) /\ cl[c].info}
Broadcast(m) ==
  m.kind \in {"info", "wrong_handle", "noop"} /\ (m.kind # "info" => Recipient(m) = None)

\* The thread works on a message in one step, inside the client mutex: it
\* is seen to hold it only while it waits for the inspector mutex of a
\* client, which it takes to register or forget a handle, and to kick.
TxBlocked ==
  /\ tx.pc = "lock" /\ cm = None /\ im # None
  /\ \/ /\ tx.msg.kind \in {"open", "close"} /\ im = Recipient(tx.msg)
        /\ tx' = TxAt("work")
     \/ /\ tx.msg.kind \notin {"open", "close"} /\ suscli_analyzer_client_can_write(cl, im)
        /\ im = Recipient(tx.msg) \/ (Broadcast(tx.msg) /\ im \in Audience)
        /\ tx' = TxAt("kick")
  /\ cm' = "tx"
  /\ UNCHANGED <<peer, inbox, calls, known, cl, listed, epoch, req, itl, im, rx, server, ana, aq,
                 mq, out, budget>>

\* The translation list leads to a client that was destroyed: what the
\* thread reads there is not defined, and it is followed no further.
TxDangling ==
  /\ tx.pc = "lock" /\ cm = None
  /\ Recipient(tx.msg) \notin listed \cup {None}
  /\ cm' = "tx"
  /\ tx' = TxAt("crashed")
  /\ UNCHANGED <<peer, inbox, calls, known, cl, listed, epoch, req, itl, im, rx, server, ana, aq,
                 mq, out, budget>>

\* What reaches client c of message m: the request id it chose is put back.
Pushed(c, m) ==
  [to |-> c, kind |-> m.kind, req |-> m.req, glob |-> m.glob,
   rid |-> IF m.req \in DOMAIN req THEN req[m.req].rid ELSE m.req]

TxDone == tx' = [pc |-> "read", msg |-> None] /\ cm' = None
Working(k) ==
  /\ tx.msg # None /\ tx.msg.kind \in k
  /\ tx.pc \in {"lock", "work"} /\ (tx.pc = "lock" => cm = None)

\* The push to client c, whose state is k by now; one that fails kicks it.
TxPush(c, k, m, asked) ==
  \/ /\ suscli_analyzer_client_can_write(cl, c)
     /\ cl' = [cl EXCEPT ![c] = k]
     /\ out' = {Pushed(c, m)}
     /\ aq' = aq \o asked
     /\ known' = IF m.kind = "open" THEN [known EXCEPT ![c] = @ \cup {Handle("priv", m.req)}]
                 ELSE known
     /\ UNCHANGED budget
  \/ /\ suscli_analyzer_client_can_write(cl, c) /\ budget > 0 /\ im # c
     /\ LET r == suscli_analyzer_server_kick_client_unsafe(k) IN
        /\ cl' = [cl EXCEPT ![c] = r.client]
        /\ aq' = aq \o asked \o r.closes
     /\ budget' = budget - 1
     /\ UNCHANGED <<out, known>>
  \/ /\ ~suscli_analyzer_client_can_write(cl, c)
     /\ cl' = [cl EXCEPT ![c] = k]
     /\ aq' = aq \o asked
     /\ UNCHANGED <<out, known, budget>>

\* An inspector for a client that is no longer in the list is closed again.
TxOpenOrphan ==
  /\ Working({"open"}) /\ Recipient(tx.msg) = None
  /\ aq' = Append(aq, Msg("close", tx.msg.req, tx.msg.glob, NoHandle))
  /\ TxDone
  /\ UNCHANGED <<peer, inbox, calls, known, cl, listed, epoch, req, itl, im, rx, server, ana, mq,
                 out, budget>>

TxOpen ==
  /\ Working({"open"})
  /\ LET m    == tx.msg
         c    == Recipient(m)
         idx  == Handle("itl", m.req)
         priv == Handle("priv", m.req)
     IN /\ c \in listed /\ im # c
        /\ suscli_analyzer_client_list_alloc_itl_entry_unsafe(idx, c, priv)
        /\ TxPush(c, suscli_analyzer_client_register_inspector_handle(cl[c], priv, m.glob, idx), m,
                  <<Msg("set_id", IdReq, m.glob, idx)>>)
        /\ suscli_analyzer_client_list_unregister_request_unsafe(m)
  /\ TxDone
  /\ UNCHANGED <<peer, inbox, calls, listed, epoch, im, rx, server, ana, mq>>

TxClose ==
  /\ Working({"close"})
  /\ LET m == tx.msg
         c == Recipient(m)
     IN /\ c \in listed /\ im # c
        /\ suscli_analyzer_client_list_dispose_itl_entry_unsafe(m.id)
        /\ TxPush(c, suscli_analyzer_client_dispose_inspector_handle(cl[c], itl[m.id].priv), m,
                  <<>>)
        /\ suscli_analyzer_client_list_unregister_request_unsafe(m)
  /\ TxDone
  /\ UNCHANGED <<peer, inbox, calls, listed, epoch, im, rx, server, ana, mq>>

\* Answers and samples that change nothing in the tables
TxReply ==
  /\ Working(Messages \ {"open", "close", "info"})
  /\ LET m == tx.msg
         c == Recipient(m)
     IN /\ c \in listed
        /\ TxPush(c, cl[c], m, <<>>)
        /\ suscli_analyzer_client_list_unregister_request_unsafe(m)
  /\ TxDone
  /\ UNCHANGED <<peer, inbox, calls, itl, listed, epoch, im, rx, server, ana, mq>>

\* No inspector, or nobody who waits for the channel: the message is dropped.
TxIgnore ==
  /\ Working(Messages \ {"open", "info", "wrong_handle", "noop"}) /\ Recipient(tx.msg) = None
  /\ suscli_analyzer_client_list_unregister_request_unsafe(tx.msg)
  /\ TxDone
  /\ UNCHANGED <<peer, inbox, calls, known, cl, listed, epoch, itl, im, rx, server, ana, aq, mq,
                 out, budget>>

\* A push that fails kicks one of them.
suscli_analyzer_client_list_broadcast_unsafe ==
  /\ Working(Messages) /\ Broadcast(tx.msg)
  /\ \/ /\ out' = {Pushed(c, tx.msg) : c \in Audience}
        /\ UNCHANGED <<cl, aq, budget>>
     \/ \E c \in Audience :
          /\ budget > 0 /\ im # c
          /\ out' = {Pushed(d, tx.msg) : d \in Audience \ {c}}
          /\ suscli_analyzer_server_kick_client(c)
          /\ budget' = budget - 1
  /\ TxDone
  /\ UNCHANGED <<peer, inbox, calls, known, listed, epoch, req, itl, im, rx, server, ana, mq>>

suscli_analyzer_client_list_increment_epoch ==
  /\ tx.pc = "epoch"
  /\ epoch' = epoch + 1
  /\ tx' = TxAt("shutdown")
  /\ UNCHANGED <<peer, inbox, calls, known, cl, listed, req, itl, cm, im, rx, server, ana, aq, mq,
                 out, budget>>

suscli_analyzer_client_list_force_shutdown ==
  /\ tx.pc = "shutdown" /\ cm = None
  /\ cl' = [c \in Clients |-> IF c \in listed /\ ~cl[c].failed
                              THEN suscli_analyzer_client_shutdown(cl[c]) ELSE cl[c]]
  /\ tx' = TxAt("halted")
  /\ UNCHANGED <<peer, inbox, calls, known, listed, epoch, req, itl, cm, im, rx, server, ana, aq,
                 mq, out, budget>>

TxHalted ==
  /\ tx.pc = "halted"
  /\ server' = [server EXCEPT !.halted = TRUE]
  /\ tx' = TxAt("end")
  /\ UNCHANGED <<peer, inbox, calls, known, cl, listed, epoch, req, itl, cm, im, rx, ana, aq, mq,
                 out, budget>>

-----------------------------------------------------------------------------
\* suscli_analyzer_server_new: an empty list, no analyzer yet
Init ==
  /\ peer = [c \in Clients |-> "away"] /\ inbox = [c \in Clients |-> None]
  /\ calls \in Scripts /\ known = [c \in Clients |-> {}]
  /\ cl = [c \in Clients |-> suscli_analyzer_client_new(0)]
  /\ listed = {} /\ epoch = 0 /\ req = <<>> /\ itl = <<>> /\ cm = None /\ im = None
  /\ rx = [pc |-> "poll", todo |-> {}, c |-> None, msg |-> None]
  /\ tx = [pc |-> "none", msg |-> None]
  /\ server = [running |-> FALSE, halted |-> FALSE]
  /\ ana = [state |-> "none", halt |-> FALSE, insp |-> <<>>]
  /\ aq = <<>> /\ mq = <<>> /\ out = {}
  /\ budget = MaxEvents

RxServe(c) ==
  \/ suscli_analyzer_server_process_auth_message(c)
  \/ RejectClient(c)
  \/ RxProtocolError(c)
  \/ DeliverSetting(c)
  \/ DeliverHalt(c)
  \/ suscli_analyzer_server_on_open(c)
  \/ suscli_analyzer_client_intercept_message(c)
  \/ suscli_analyzer_server_on_wrong_handle(c)

suscli_analyzer_server_rx_thread ==
  \/ RxPoll
  \/ suscli_analyzer_server_register_clients
  \/ \E c \in rx.todo : RxSkip(c)
  \/ \E c \in rx.todo : RxEof(c)
  \/ \E c \in rx.todo : RxServe(c)
  \/ suscli_analyzer_server_on_set_id
  \/ suscli_analyzer_client_list_attempt_cleanup

suscli_analyzer_server_tx_thread ==
  \/ TxRead
  \/ TxBlocked
  \/ TxDangling
  \/ TxOpenOrphan
  \/ TxOpen
  \/ TxClose
  \/ TxReply
  \/ TxIgnore
  \/ suscli_analyzer_client_list_broadcast_unsafe
  \/ suscli_analyzer_client_list_increment_epoch
  \/ suscli_analyzer_client_list_force_shutdown
  \/ TxHalted

Next ==
  \/ \E c \in Clients : Connect(c)
  \/ \E c \in Clients : Send(c)
  \/ \E c \in Clients : Disconnect(c)
  \/ AnalyzerAnswers
  \/ AnalyzerSamples
  \/ AnalyzerHalts
  \/ suscli_analyzer_server_rx_thread
  \/ suscli_analyzer_server_tx_thread

\* The threads and the analyzer go on while they can; clients need not.
Fairness ==
  /\ WF_vars(suscli_analyzer_server_rx_thread)
  /\ WF_vars(suscli_analyzer_server_tx_thread)
  /\ WF_vars(AnalyzerAnswers) /\ WF_vars(AnalyzerHalts)

Spec == Init /\ [][Next]_vars /\ Fairness

-----------------------------------------------------------------------------
InFlight == Range(mq) \cup (IF tx.msg = None THEN {} ELSE {tx.msg})

\* A call that was read after the shutdown of its client, whose analyzer had
\* gone, may have opened the inspector that message m is about in the next one.
OpenedLate(m) == m.kind \notin ByRequest /\ m.id \in DOMAIN itl /\ itl[m.id].late

\* What the tx thread translates is never a pointer to a client that was
\* destroyed: neither the request tree nor the translation list, which keeps
\* its entries when an analyzer dies, leads a waiting message to one.  The
\* one exception of the code: the inspectors that late calls open.
TranslationsLive == \A m \in InFlight : Recipient(m) \in listed \cup {None} \/ OpenedLate(m)

\* A client only gets the answers to its own requests, under the request id
\* it chose, and what its own inspectors produce.  The one exception of the
\* code: refusals are broadcast when the requester has gone.
ReplyToRequester ==
  \A d \in out :
    /\ d.glob # NoHandle /\ d.kind # "wrong_handle" => d.glob.of[1] = d.to
    /\ d.req[1] # None =>
         \/ d.to = d.req[1] /\ d.rid = d.req[2]
         \/ d.kind \in {"wrong_handle", "noop"} /\ d.req[1] \notin listed

\* A thread has gone, or the rx thread waits for the client mutex inside the
\* inspector mutex that the owner of the client mutex waits for.
Stuck == \/ rx.pc \in {"dead", "crashed"} \/ tx.pc = "crashed"
         \/ rx.pc = "set_id" /\ cm = "tx"

\* A client that has failed and keeps an inspector that nobody is closing:
\* the answer that opened it came between the kick and the removal.
Zombie(c) ==
  /\ c \in listed /\ cl[c].failed /\ Reachable(cl[c]) /\ ana.state = "running"
  /\ \E p \in DOMAIN cl[c].handles :
       LET h == cl[c].handles[p].glob IN
       h \in DOMAIN ana.insp /\ ~\E m \in Range(aq) : m.kind = "close" /\ m.glob = h

\* Clients that failed do not stay in the list, which takes the answers to
\* the closes of their inspectors or the end of the analyzer: time and again
\* there is none.
FailedClientsLeave ==
  []<>(Stuck \/ \A c \in listed : cl[c].failed => Zombie(c))

=============================================================================
