------------------------------- MODULE Local -------------------------------
(***************************************************************************)
(* The local analyzer (analyzer/impl/local.c): the program's calls, the    *)
(* analyzer thread, which serves the messages of mq_in with the inspector  *)
(* server of InspServer.tla, the source worker, which sweeps in wide       *)
(* spectrum mode (analyzer/workers/wide.c), and the order in which         *)
(* suscan_analyzer_destroy stops them.  In channel mode the source worker  *)
(* is only what it does to the inspectors: InspSched.tla and InspLife.tla  *)
(* have the rest, SlowConf.tla what the slow worker does.                  *)
(***************************************************************************)
EXTENDS AnalyzerClient, InspServer, Sweep

CONSTANTS
  Setups,        \* [mode, program]: what the program runs, and what it calls
  InitialSweep,  \* the parameters the sweep starts with
  ThreadFails,   \* the source callback may not be pushed
  MaxHalts       \* times the program asks for the halt

ASSUME LocalAssumption == MaxHalts \in Nat /\ ThreadFails \in BOOLEAN

VARIABLES
  mode,          \* of params: "CHANNEL", "WIDE"
  program,       \* calls the program has left to make
  main,          \* [at, call, insp]: where the program is, and what it has to do with
  mq_in,         \* messages to the analyzer thread, and HALT
  acks,          \* HALTs to the program that it has not read
  told,          \* types of the other messages to the program
  srv,           \* the inspector server
  thread,        \* where the analyzer thread is
  wk,            \* source_wk and slow_wk: [state, acked, halt_req, callbacks]
  forced_eos,    \* of the source
  sweep,         \* [current, pending, requested]
  tuned,         \* [freq, ndx, samples]: curr_freq, part_ndx, fft_samples
  cb,            \* where the wide spectrum callback is, under loop_mutex
  rates,         \* [effective, psd]: sample rates
  running, halt_requested, eos,
  freed,
  \* history:
  halts,         \* times the program asked for the halt
  asked,         \* identifiers of the requests made, in order
  wanted, raced  \* the sweep that was asked for; a request of it was lost

queues  == <<mq_in, acks, told>>
workers == <<wk, forced_eos>>
sweeps  == <<sweep, tuned, cb>>
flags   == <<running, halt_requested, eos>>
hist    == <<halts, asked, wanted, raced>>
local_vars == <<mode, program, main, queues, srv, thread, workers, sweeps, rates, flags, freed, hist>>

Wide == mode = "WIDE"
HALT == [type |-> "HALT"]
Worker == [state |-> "RUNNING", acked |-> FALSE, halt_req |-> FALSE, callbacks |-> <<>>]

\* suscan_local_analyzer_ctor, to the creation of the thread.
LocalInit ==
  /\ \E s \in Setups : mode = s.mode /\ program = s.program
  /\ main = [at |-> "idle", call |-> [type |-> "NONE"], insp |-> None]
  /\ mq_in = <<>> /\ acks = 0 /\ told = {} /\ srv = NoInspectors
  /\ thread = "push" /\ wk = [w \in {"source", "slow"} |-> Worker] /\ forced_eos = FALSE
  /\ sweep = [current |-> InitialSweep, pending |-> InitialSweep, requested |-> FALSE]
  /\ tuned = [freq |-> 0, ndx |-> 0, samples |-> 0] /\ cb = "idle"
  /\ rates = [effective |-> samp_rate, psd |-> samp_rate]
  /\ running = TRUE /\ halt_requested = FALSE /\ eos = FALSE /\ freed = FALSE
  /\ halts = 0 /\ asked = <<>> /\ wanted = InitialSweep /\ raced = FALSE

Tell(type) == told' = told \cup {type} /\ UNCHANGED acks

\* suscan_worker_push
suscan_worker_push(w, callback) ==
  /\ wk' = [wk EXCEPT ![w].callbacks = Append(@, callback)]
  /\ UNCHANGED forced_eos

----------------------------------------------------------------------------
(***************************************************************************)
(* Calls of the program.                                                   *)
(***************************************************************************)
Idle == main.at = "idle" /\ ~freed
At(at) == main' = [main EXCEPT !.at = at]

Calling(types) ==
  /\ Idle /\ program # <<>> /\ program' = Tail(program)
  /\ Head(program).call.type \in types
Call == Head(program).call

suscan_local_analyzer_write ==
  /\ Calling({"MESSAGE"})
  /\ mq_in' = Append(mq_in, [type |-> Call.msg_type, msg |-> Call.msg])
  /\ asked' = IF Call.msg_type = "INSPECTOR" THEN Append(asked, Call.msg.req_id) ELSE asked
  /\ UNCHANGED <<mode, main, acks, told, srv, thread, workers, sweeps, rates, flags, freed,
                 halts, wanted, raced>>

\* suscan_local_analyzer_set_frequency and the other settings of the source
\* are for the slow worker, and for channel mode.
SlowCall ==
  /\ Calling({"SET_FREQUENCY", "SET_GAIN", "SET_ANTENNA", "SET_BANDWIDTH", "SET_PPM",
              "SET_DC_REMOVE", "SET_AGC"})
  /\ IF Wide THEN UNCHANGED workers ELSE suscan_worker_push("slow", Call.type)
  /\ UNCHANGED <<mode, main, queues, srv, thread, sweeps, rates, flags, freed, hist>>

suscan_local_analyzer_set_iq_reverse ==
  /\ Calling({"SET_IQ_REVERSE"})
  /\ Tell("SOURCE_INFO")
  /\ UNCHANGED <<mode, main, mq_in, srv, thread, workers, sweeps, rates, flags, freed, hist>>

\* suscan_local_analyzer_set_inspector_freq_slow: the inspector is acquired,
\* and then its request.
AcquireInspector ==
  /\ Calling({"INSPECTOR_FREQUENCY", "INSPECTOR_BANDWIDTH"})
  /\ LET n == suscan_local_analyzer_acquire_inspector(srv, Call.handle)
     IN main' = IF n = None THEN main ELSE [at |-> "submit", call |-> Call, insp |-> n]
  /\ UNCHANGED <<mode, queues, srv, thread, workers, sweeps, rates, flags, freed, hist>>

SubmitRequest ==
  /\ main.at = "submit"
  /\ srv' = Submit(srv, main.insp, main.call.type, main.call.value)
  /\ main' = [at |-> "idle", call |-> [type |-> "NONE"], insp |-> None]
  /\ UNCHANGED <<mode, program, queues, thread, workers, sweeps, rates, flags, freed, hist>>

\* suscan_local_analyzer_req_halt
ReqHalt ==
  /\ halt_requested' = TRUE
  /\ mq_in' = <<HALT>> \o mq_in

suscan_analyzer_req_halt ==
  /\ Idle /\ program = <<>> /\ halts < MaxHalts
  /\ halts' = halts + 1
  /\ ReqHalt
  /\ UNCHANGED <<mode, program, main, acks, told, srv, thread, workers, sweeps, rates, running, eos,
                 freed, asked, wanted, raced>>

\* Other messages, and those that have expired, change nothing else.
suscan_analyzer_read ==
  /\ Idle /\ acks > 0
  /\ acks' = acks - 1
  /\ UNCHANGED <<mode, program, main, mq_in, told, srv, thread, workers, sweeps, rates, flags,
                 freed, hist>>

----------------------------------------------------------------------------
(***************************************************************************)
(* The parameters of the sweep: a copy of the last ones asked for, or else *)
(* of those in force, is changed, and then requested.  Nothing keeps the   *)
(* source worker away meanwhile.                                           *)
(***************************************************************************)
SweepCalls == {"SET_SWEEP_STRATEGY", "SET_SPECTRUM_PARTITIONING", "SET_HOP_RANGE",
               "SET_BUFFERING_SIZE"}

\* Mutant: a request that was not taken yet is forgotten.
BaseCurrent(s) == s.current

Base(s) == IF s.requested THEN s.pending ELSE s.current

suscan_local_analyzer_set_sweep_strategy(p, call) == [p EXCEPT !.strategy = call.sweep_strategy]
suscan_local_analyzer_set_spectrum_partitioning(p, call) ==
  [p EXCEPT !.partitioning = call.spectrum_partitioning]
suscan_local_analyzer_set_buffering_size(p, call) == [p EXCEPT !.fft_min = call.buffering_size]

\* One bound at a time.
suscan_local_analyzer_set_hop_range(p, call) ==
  IF main.at = "store" THEN [p EXCEPT !.min = call.min] ELSE [p EXCEPT !.max = call.max]

Changed(p, call) ==
  CASE call.type = "SET_SWEEP_STRATEGY" -> suscan_local_analyzer_set_sweep_strategy(p, call)
    [] call.type = "SET_SPECTRUM_PARTITIONING" ->
         suscan_local_analyzer_set_spectrum_partitioning(p, call)
    [] call.type = "SET_BUFFERING_SIZE" -> suscan_local_analyzer_set_buffering_size(p, call)
    [] call.type = "SET_HOP_RANGE" -> suscan_local_analyzer_set_hop_range(p, call)

\* A range upside down, and anything outside wide spectrum mode, is refused.
CopySweep ==
  /\ Calling(SweepCalls)
  /\ IF Wide /\ (Call.type = "SET_HOP_RANGE" => Call.max - Call.min >= 0)
     THEN /\ sweep' = [sweep EXCEPT !.pending = Base(sweep)]
          /\ main' = [main EXCEPT !.at = "store", !.call = Call]
     ELSE UNCHANGED <<sweep, main>>
  /\ UNCHANGED <<mode, queues, srv, thread, workers, tuned, cb, rates, flags, freed, hist>>

StoreSweep ==
  /\ main.at \in {"store", "store_max"}
  /\ sweep' = [sweep EXCEPT !.pending = Changed(@, main.call)]
  /\ At(IF main.at = "store" /\ main.call.type = "SET_HOP_RANGE" THEN "store_max" ELSE "request")
  /\ UNCHANGED <<mode, program, queues, srv, thread, workers, tuned, cb, rates, flags, freed,
                 hist>>

RequestSweep ==
  /\ main.at = "request"
  /\ sweep' = [sweep EXCEPT !.requested = TRUE]
  /\ wanted' = CASE main.call.type # "SET_HOP_RANGE" -> Changed(wanted, main.call)
                 [] main.call.type = "SET_HOP_RANGE" ->
                      [wanted EXCEPT !.min = main.call.min, !.max = main.call.max]
  /\ main' = [main EXCEPT !.at = "idle", !.call = [type |-> "NONE"]]
  /\ UNCHANGED <<mode, program, queues, srv, thread, workers, tuned, cb, rates, flags, freed,
                 halts, asked, raced>>

----------------------------------------------------------------------------
(***************************************************************************)
(* The source worker.                                                      *)
(***************************************************************************)
Running(w, callback) ==
  wk[w].state = "RUNNING" /\ callback \in ToSet(wk[w].callbacks)
CanCall(w, callback) == Running(w, callback) /\ ~wk[w].halt_req

\* suscan_source_wide_wk_cb, to its end under loop_mutex.  The new
\* parameters, and then what says there are none.
TakeSweep ==
  /\ CanCall("source", "wide") /\ cb = "idle"
  /\ IF sweep.requested
     THEN sweep' = [sweep EXCEPT !.current = sweep.pending] /\ cb' = "clear"
     ELSE UNCHANGED sweep /\ cb' = "read"
  /\ UNCHANGED <<mode, program, main, queues, srv, thread, workers, tuned, rates, flags, freed,
                 hist>>

\* A request that was made since then is lost.
ClearSweep ==
  /\ cb = "clear" /\ cb' = "read"
  /\ sweep' = [sweep EXCEPT !.requested = FALSE]
  /\ raced' = (raced \/ (sweep.pending # sweep.current
                           /\ main.at \notin {"store", "store_max", "request"}))
  /\ UNCHANGED <<mode, program, main, queues, srv, thread, workers, tuned, rates, flags, freed,
                 halts, asked, wanted>>

\* A read fills a window of the detector; what is read right after a hop is
\* skipped.
ReadWide ==
  /\ cb = "read" /\ cb' = "idle" /\ ~forced_eos
  /\ IF tuned.samples + 1 > sweep.current.fft_min
     THEN /\ Tell("PSD")
          /\ \E hop \in suscan_local_analyzer_hop(sweep.current, tuned.freq, tuned.ndx) :
               tuned' = [freq |-> hop.freq, ndx |-> hop.ndx, samples |-> 0]
     ELSE /\ tuned' = [tuned EXCEPT !.samples = @ + 1]
          /\ UNCHANGED <<acks, told>>
  /\ UNCHANGED <<mode, program, main, mq_in, srv, thread, workers, sweep, rates, flags, freed,
                 hist>>

EndOfStream ==
  /\ eos' = TRUE /\ Tell("EOS")
  /\ wk' = [wk EXCEPT !["source"].callbacks = <<>>]
  /\ UNCHANGED <<mode, program, main, mq_in, srv, thread, forced_eos, sweep, tuned, rates,
                 running, halt_requested, freed, hist>>

\* The end of the stream, or an error, at any time.
EndWide == cb = "read" /\ cb' = "idle" /\ EndOfStream
EndChannel == CanCall("source", "channel") /\ EndOfStream /\ UNCHANGED cb

\* suscan_source_channel_wk_cb: what it does to the inspectors.  Requests are
\* committed; an inspector that fails halts; one that halts is closed.
ReadChannel ==
  /\ CanCall("source", "channel") /\ ~forced_eos
  /\ \/ srv.requests # {} /\ srv' = [srv EXCEPT !.requests = {}]
     \/ \E n \in DOMAIN srv.insp :
          \/ srv.insp[n].state = "running" /\ srv' = [srv EXCEPT !.insp[n].state = "halting"]
          \/ srv.insp[n].state = "halting" /\ srv' = [srv EXCEPT !.insp[n].state = "halted"]
  /\ UNCHANGED <<mode, program, main, queues, thread, workers, sweeps, rates, flags, freed, hist>>

SlowCallback ==
  /\ wk["slow"].state = "RUNNING" /\ ~wk["slow"].halt_req /\ wk["slow"].callbacks # <<>>
  /\ wk' = [wk EXCEPT !["slow"].callbacks = Tail(@)]
  /\ UNCHANGED <<mode, program, main, queues, srv, thread, forced_eos, sweeps, rates, flags,
                 freed, hist>>

\* suscan_worker_thread: it is halted, and then says so.
HaltWorker(w) ==
  /\ wk[w].state = "RUNNING" /\ wk[w].halt_req
  /\ w = "source" => cb = "idle"
  /\ wk' = [wk EXCEPT ![w].state = "HALTED"]
  /\ UNCHANGED <<mode, program, main, queues, srv, thread, forced_eos, sweeps, rates, flags,
                 freed, hist>>

AckHalt(w) ==
  /\ wk[w].state = "HALTED" /\ ~wk[w].acked
  /\ wk' = [wk EXCEPT ![w].acked = TRUE]
  /\ mq_in' = <<HALT>> \o mq_in
  /\ UNCHANGED <<mode, program, main, acks, told, srv, thread, forced_eos, sweeps, rates, flags,
                 freed, hist>>

----------------------------------------------------------------------------
(***************************************************************************)
(* The analyzer thread.                                                    *)
(***************************************************************************)

\* suscan_analyzer_thread: the source worker starts, and then the program is
\* told.
PushSource ==
  /\ thread = "push"
  /\ \/ /\ suscan_worker_push("source", IF Wide THEN "wide" ELSE "channel")
        /\ thread' = "success" /\ UNCHANGED <<acks, told>>
     \/ /\ ThreadFails /\ UNCHANGED workers
        /\ Tell("SOURCE_INIT") /\ thread' = "failed"
  /\ UNCHANGED <<mode, program, main, mq_in, srv, sweeps, rates, flags, freed, hist>>

\* suscan_local_analyzer_notify_params
suscan_local_analyzer_notify_params == Tell("PARAMS")

Greet ==
  /\ \/ thread = "success" /\ Tell("SOURCE_INIT") /\ thread' = "info"
     \/ thread = "info" /\ Tell("SOURCE_INFO") /\ thread' = "params"
     \/ thread = "params" /\ suscan_local_analyzer_notify_params /\ thread' = "loop"
  /\ UNCHANGED <<mode, program, main, mq_in, srv, workers, sweeps, rates, flags, freed, hist>>

Serving(type) ==
  /\ thread = "loop" /\ mq_in # <<>> /\ Head(mq_in).type = type
  /\ mq_in' = Tail(mq_in)

\* Anything that fails is the end of the loop, and nobody is told.
Serve(ok) == thread' = IF ok THEN "loop" ELSE "failed"

suscan_local_analyzer_ack_halt == acks' = acks + 1 /\ UNCHANGED told

ServeHalt ==
  /\ Serving("HALT")
  /\ suscan_local_analyzer_ack_halt
  /\ thread' = "acked"
  /\ UNCHANGED <<mode, program, main, srv, workers, sweeps, rates, flags, freed, hist>>

ServeInspector ==
  /\ Serving("INSPECTOR")
  /\ LET msg == Received(Head(mq_in).msg)
     IN \E handle \in IF msg.kind = "OPEN" THEN FreeHandles(srv) ELSE {NoHandle} :
          LET served == suscan_local_analyzer_parse_inspector_msg(srv, msg, handle)
          IN /\ srv' = served.srv
             /\ Serve(served.ok)
             /\ Tell("INSPECTOR")
  /\ UNCHANGED <<mode, program, main, workers, sweeps, rates, flags, freed, hist>>

\* In wide spectrum mode there is no seek, and asking for it ends the thread.
ServeSeek ==
  /\ Serving("SEEK")
  /\ Serve(~Wide)
  /\ IF Wide THEN UNCHANGED workers ELSE suscan_worker_push("slow", "seek")
  /\ UNCHANGED <<mode, program, main, acks, told, srv, sweeps, rates, flags, freed, hist>>

suscan_local_analyzer_override_throttle(rate) ==
  rates' = [effective |-> rate, psd |-> IF Wide THEN rates.psd ELSE rate]

\* 0 is the rate of the source.
suscan_local_analyzer_reset_throttle == suscan_local_analyzer_override_throttle(samp_rate)

\* In wide spectrum mode this, too, ends the thread: before the rate is
\* changed, or after it if it was to be the rate of the source.
ServeThrottle ==
  /\ Serving("THROTTLE")
  /\ Serve(~Wide)
  /\ CASE Head(mq_in).msg.samp_rate = 0 -> suscan_local_analyzer_reset_throttle
       [] Head(mq_in).msg.samp_rate # 0 /\ ~Wide ->
            suscan_local_analyzer_override_throttle(Head(mq_in).msg.samp_rate)
       [] Head(mq_in).msg.samp_rate # 0 /\ Wide -> UNCHANGED rates
  /\ IF Wide THEN UNCHANGED workers ELSE suscan_worker_push("slow", "throttle")
  /\ UNCHANGED <<mode, program, main, acks, told, srv, sweeps, flags, freed, hist>>

\* Wide spectrum: the detector is adjusted under loop_mutex.  Channel mode:
\* set_analyzer_params_overridable.
ServeParams ==
  /\ Serving("PARAMS")
  /\ thread' = "loop"
  /\ IF Wide THEN cb = "idle" /\ suscan_local_analyzer_notify_params /\ UNCHANGED workers
     ELSE suscan_worker_push("slow", "params") /\ UNCHANGED <<acks, told>>
  /\ UNCHANGED <<mode, program, main, srv, sweeps, rates, flags, freed, hist>>

ServeGetParams ==
  /\ Serving("GET_PARAMS")
  /\ thread' = "loop"
  /\ cb = "idle" /\ suscan_local_analyzer_notify_params
  /\ UNCHANGED <<mode, program, main, srv, workers, sweeps, rates, flags, freed, hist>>

\* Mutant: a thread that failed does not wait for the halt.
EndAtOnce ==
  /\ thread = "failed"
  /\ thread' = "acked"
  /\ UNCHANGED <<mode, program, main, queues, srv, workers, sweeps, rates, flags, freed, hist>>

\* After a failure there is only the halt to wait for.
suscan_local_analyzer_wait_for_halt ==
  /\ thread = "failed" /\ mq_in # <<>>
  /\ mq_in' = Tail(mq_in)
  /\ IF Head(mq_in) = HALT THEN suscan_local_analyzer_ack_halt /\ thread' = "acked"
     ELSE UNCHANGED <<acks, told, thread>>
  /\ UNCHANGED <<mode, program, main, srv, workers, sweeps, rates, flags, freed, hist>>

\* Only then does the analyzer no longer run.
EndThread ==
  /\ thread = "acked" /\ thread' = "ended"
  /\ running' = FALSE
  /\ UNCHANGED <<mode, program, main, queues, srv, workers, sweeps, rates, halt_requested, eos,
                 freed, hist>>

----------------------------------------------------------------------------
(***************************************************************************)
(* suscan_analyzer_destroy and suscan_local_analyzer_dtor.                 *)
(***************************************************************************)
suscan_analyzer_destroy ==
  /\ Idle /\ program = <<>>
  /\ forced_eos' = TRUE /\ UNCHANGED wk
  /\ IF running /\ ~halt_requested THEN ReqHalt /\ At("wait")
     ELSE At("join") /\ UNCHANGED <<halt_requested, mq_in>>
  /\ UNCHANGED <<mode, program, acks, told, srv, thread, sweeps, rates, running, eos, freed, hist>>

\* suscan_analyzer_consume_mq_until_halt and suscan_mq_wait
AwaitHalt ==
  /\ main.at = "wait" /\ acks > 0
  /\ acks' = acks - 1
  /\ At("join")
  /\ UNCHANGED <<mode, program, mq_in, told, srv, thread, workers, sweeps, rates, flags, freed,
                 hist>>

\* suscan_local_analyzer_dtor: the thread ...
JoinThread ==
  /\ main.at = "join" /\ thread = "ended"
  /\ main' = [main EXCEPT !.at = "halt", !.insp = "source"]
  /\ UNCHANGED <<mode, program, queues, srv, thread, workers, sweeps, rates, flags, freed, hist>>

\* ... then source_wk and slow_wk.  A worker that still runs is asked to halt
\* until it does not: the HALT that is read may be an older one.
suscan_analyzer_halt_worker ==
  /\ main.at = "halt"
  /\ LET w == main.insp
     IN IF wk[w].state = "RUNNING"
        THEN wk' = [wk EXCEPT ![w].halt_req = TRUE] /\ At("consume")
        ELSE At("destroy") /\ UNCHANGED wk
  /\ UNCHANGED <<mode, program, queues, srv, thread, forced_eos, sweeps, rates, flags, freed, hist>>

\* What is behind the first HALT of a queue; nothing if there is none.
AfterHalt(q) ==
  IF HALT \in ToSet(q) THEN SubSeq(q, SelectInSeq(q, LAMBDA m : m = HALT) + 1, Len(q)) ELSE <<>>

ConsumeUntilHalt ==
  /\ main.at = "consume" /\ mq_in # <<>>
  /\ mq_in' = AfterHalt(mq_in)
  /\ At(IF HALT \in ToSet(mq_in) THEN "halt" ELSE "consume")
  /\ UNCHANGED <<mode, program, acks, told, srv, thread, workers, sweeps, rates, flags, freed,
                 hist>>

\* suscan_worker_destroy joins the thread of a worker; one that runs is left
\* there, and so is the rest of the analyzer.  What remains of it is freed
\* after the last.
DestroyWorker ==
  /\ main.at = "destroy"
  /\ \/ /\ wk[main.insp].state = "RUNNING"
        /\ freed' = TRUE /\ At("gone") /\ UNCHANGED mq_in
     \/ /\ wk[main.insp].acked /\ main.insp = "source"
        /\ main' = [main EXCEPT !.at = "halt", !.insp = "slow"]
        /\ UNCHANGED <<mq_in, freed>>
     \/ /\ wk[main.insp].acked /\ main.insp = "slow"
        /\ freed' = TRUE /\ mq_in' = <<>> /\ At("gone")
  /\ UNCHANGED <<mode, program, acks, told, srv, thread, workers, sweeps, rates, flags, hist>>

----------------------------------------------------------------------------
Program ==
  \/ suscan_local_analyzer_write \/ SlowCall \/ suscan_local_analyzer_set_iq_reverse
  \/ AcquireInspector \/ CopySweep \/ suscan_analyzer_req_halt \/ suscan_analyzer_read
  \/ suscan_analyzer_destroy

GoOn == SubmitRequest \/ StoreSweep \/ RequestSweep

Destroying ==
  \/ AwaitHalt \/ JoinThread \/ suscan_analyzer_halt_worker \/ ConsumeUntilHalt \/ DestroyWorker

Thread ==
  \/ PushSource \/ Greet \/ ServeHalt \/ ServeInspector \/ ServeSeek \/ ServeThrottle
  \/ ServeParams \/ ServeGetParams \/ suscan_local_analyzer_wait_for_halt \/ EndThread

Sweeping == TakeSweep \/ ClearSweep \/ ReadWide

LocalNext ==
  \/ Program \/ GoOn \/ Destroying \/ Thread \/ Sweeping \/ EndWide
  \/ EndChannel \/ ReadChannel \/ SlowCallback \/ \E w \in DOMAIN wk : HaltWorker(w) \/ AckHalt(w)

\* Threads go on; loop_mutex is released between two callbacks, and then
\* whoever waits for it gets it.  A read of a source that was told to end
\* returns.  Whether the program calls is its own affair.
LocalSpec ==
  /\ LocalInit /\ [][LocalNext]_local_vars
  /\ WF_local_vars(GoOn) /\ WF_local_vars(Destroying) /\ SF_local_vars(Thread) /\ WF_local_vars(Sweeping)
  /\ WF_local_vars(forced_eos /\ EndWide)
  /\ \A w \in {"source", "slow"} : WF_local_vars(HaltWorker(w) \/ AckHalt(w))

----------------------------------------------------------------------------
(***************************************************************************)
(* Properties.                                                             *)
(***************************************************************************)
Alive == thread \notin {"failed", "acked", "ended"}

RequestIds(msgs) == SelectSeq([i \in DOMAIN msgs |-> msgs[i].req_id], LAMBDA id : id # 0)

InspectorMessages(q) ==
  LET msgs == SelectSeq(q, LAMBDA m : m.type = "INSPECTOR") IN [i \in DOMAIN msgs |-> msgs[i].msg]

\* While the analyzer thread serves, every request the program has made is
\* answered once, or still to be served, and in the order they were made,
\* whatever else is told meanwhile.
Answered == Alive => RequestIds(srv.sent) \o RequestIds(InspectorMessages(mq_in)) = asked

\* The handles that the program was given, less those it was told are
\* closed, because it asked or because they were inside of another.
Known ==
  FoldLeft(LAMBDA K, m : CASE m.kind = "OPEN"  -> K \cup {m.handle}
                           [] m.kind = "CLOSE" -> K \ {m.handle}
                           [] OTHER -> K, {}, srv.sent)

\* What the program was told is what the handle list holds: no inspector is
\* closed behind its back, none is left that it believes closed.
TableAsTold == Known = {h \in Handles : srv.table[h] # None}

Registered(n) == srv.insp[n].handle # NoHandle

\* An inspector that runs inside of another is reachable only as long as the
\* other is: closing takes everything that runs inside, also when some of it
\* has failed or was forgotten by its factory.
NoOrphan ==
  \A n \in DOMAIN srv.insp :
    srv.insp[n].state = "running" /\ srv.insp[n].parent # None => Registered(srv.insp[n].parent)

\* No request is held for an inspector that was closed: the program may ask
\* for one directly, while the analyzer thread closes the inspector.
NoLateRequest == \A r \in srv.requests : Registered(r.insp)

\* The analyzer is freed when its three threads are over, whatever HALTs were
\* left in its queue.
NoThreadLeft == freed => thread = "ended" /\ \A w \in DOMAIN wk : wk[w].state = "HALTED"

\* suscan_analyzer_destroy returns, also when the thread has failed before,
\* or was halted before.
DestroyReturns == []<>(main.at \in {"idle", "gone"})

\* Once the source worker has taken the last request, the sweep in force is
\* the one that was asked for, field by field; unless one was made in the
\* window where the worker clears the flag of the previous one.
SweepApplied ==
  Wide /\ ~raced /\ ~sweep.requested /\ main.at \notin {"store", "store_max", "request"}
    => sweep.current = wanted

\* A progressive sweep comes by every partition of its range again and again.
InProgress(f) ==
  LET p == sweep.current
  IN /\ CanCall("source", "wide") /\ ~forced_eos /\ p.strategy = "PROGRESSIVE"
     /\ p.max - p.min >= 1 /\ f \in p.min .. p.max /\ (f - p.min) % Step = 0
SweepCovers == \A f \in 0 .. 2 * samp_rate : []<>(InProgress(f) => tuned.freq = f)
=============================================================================
