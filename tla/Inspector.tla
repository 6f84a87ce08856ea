----------------------------- MODULE Inspector -----------------------------
(***************************************************************************)
(* An open inspector between the two threads that share it                 *)
(* (inspector/inspector.c, inspector/inspector.h, insp-server.c): the      *)
(* thread of the analyzer, which answers requests for its configuration    *)
(* one at a time, and the worker that feeds it blocks of samples.  A       *)
(* request only changes the requested parameters and raises a flag, with   *)
(* no lock; the worker looks at the flag between two feeds, and holds the  *)
(* inspector's mutex while it commits the parameters and lowers the flag.  *)
(* Reading a configuration takes one step for each structure.              *)
(*                                                                         *)
(* Samples are not numbered.  Feeding takes some of a block and puts some  *)
(* in the output buffer, as many as the clock happens to give.             *)
(***************************************************************************)
EXTENDS InspConfig

CONSTANTS
  SAMPLER_BUF_SIZE,   \* SUSCAN_INSPECTOR_SAMPLER_BUF_SIZE
  Scenarios           \* [class, changes, foreign, bandwidths, watermarks, block,
                      \*  sets]: what the program may change in a configuration,
                      \* of which other classes it may send one, the size of the
                      \* blocks, and how many configurations it sets

VARIABLES
  scenario,
  insp,        \* [req, cur, blocks, params_requested, new_bandwidth,
               \*  bandwidth_notified, sampler_ptr, sample_msg_watermark]
  parser,      \* the SET_CONFIG being handled: [config, todo]
  pc, block,   \* of the worker: where it is, and what is left of the block
  client,      \* the configuration the program knows
  sets,        \* how many it may still set
  asked, told_bw,    \* what it asked for, for the properties
  spoilt,      \* the request was refused, or met the worker half-way
  unmatched    \* the clock was not running when the filter should have changed

ivars == <<scenario, insp, parser, pc, block, client, sets, asked, told_bw, spoilt,
           unmatched>>

NoBandwidth == 0
Quiet == [config |-> <<>>, todo |-> <<>>]

class == scenario.class

IStart ==
  /\ scenario \in Scenarios
  /\ insp = [req |-> Zeroed(Defaults(class)), cur |-> Defaults(class),
             blocks |-> new(class, Defaults(class)), params_requested |-> FALSE,
             new_bandwidth |-> NoBandwidth, bandwidth_notified |-> FALSE,
             sampler_ptr |-> 0, sample_msg_watermark |-> 0]
  /\ parser = Quiet
  /\ pc = "idle" /\ block = 0
  /\ client = get_config(class, Defaults(class)).cfg
  /\ sets = scenario.sets
  /\ asked = client /\ told_bw = NoBandwidth
  /\ spoilt = FALSE /\ unmatched = TRUE

----------------------------------------------------------------------------
(***************************************************************************)
(* The thread of the analyzer.  It handles one message at a time.          *)
(***************************************************************************)

Change(config, change) ==
  [config EXCEPT !.values = [i \in DOMAIN @ |->
     LET name == config.desc.fields[i].name
     IN IF name \in DOMAIN change THEN [set |-> TRUE, v |-> change[name]] ELSE @[i]]]

\* What the program knows with something changed in it, or a configuration
\* of another class.
Requests ==
  {Change(client, c) : c \in scenario.changes}
    \union {get_config(c, Defaults(c)).cfg : c \in scenario.foreign}

\* SET_CONFIG: suscan_inspector_set_config raises the flag before it reads.
SetConfig ==
  /\ parser.todo = <<>> /\ sets > 0
  /\ \E config \in Requests :
       /\ parser' = [config |-> config, todo |-> parse_config(class)]
       /\ asked' = config
  /\ insp' = [insp EXCEPT !.params_requested = TRUE]
  /\ sets' = sets - 1
  /\ spoilt' = FALSE
  /\ UNCHANGED <<scenario, pc, block, client, told_bw, unmatched>>

\* One structure; the first one that cannot be read ends it.
Parse ==
  /\ parser.todo # <<>>
  /\ IF Head(parser.todo) = "initialize"
       THEN /\ insp' = [insp EXCEPT !.req = Defaults(class)]
            /\ parser' = [parser EXCEPT !.todo = Tail(@)]
            /\ UNCHANGED spoilt
       ELSE \E r \in {ParseParams(insp.req, Head(parser.todo), parser.config)} :
              /\ insp' = [insp EXCEPT !.req = r.params]
              /\ parser' = IF r.ok /\ Tail(parser.todo) # <<>>
                             THEN [parser EXCEPT !.todo = Tail(@)] ELSE Quiet
              /\ spoilt' = (spoilt \/ ~r.ok)
  /\ UNCHANGED <<scenario, pc, block, client, sets, asked, told_bw, unmatched>>

\* GET_CONFIG
GetConfig ==
  /\ parser.todo = <<>>
  /\ client' = get_config(class, insp.cur).cfg
  /\ UNCHANGED <<scenario, insp, parser, pc, block, sets, asked, told_bw, spoilt,
                 unmatched>>

\* suscan_inspector_notify_bandwidth
NotifyBandwidth ==
  /\ \E bw \in scenario.bandwidths :
       /\ insp' = [insp EXCEPT !.new_bandwidth = bw, !.bandwidth_notified = TRUE]
       /\ told_bw' = bw
  /\ UNCHANGED <<scenario, parser, pc, block, client, sets, asked, spoilt, unmatched>>

\* SET_WATERMARK
SetWatermark ==
  /\ parser.todo = <<>>
  /\ \E wm \in scenario.watermarks :
       /\ ~(wm > SAMPLER_BUF_SIZE)
       /\ insp' = [insp EXCEPT !.sample_msg_watermark = wm]
  /\ UNCHANGED <<scenario, parser, pc, block, client, sets, asked, told_bw, spoilt,
                 unmatched>>

----------------------------------------------------------------------------
(***************************************************************************)
(* The worker: suscan_inspector_sampler_loop.                              *)
(***************************************************************************)

WorkerOnly == UNCHANGED <<scenario, parser, client, sets, asked, told_bw>>

\* A block arrives; then, between two feeds, new parameters first.
Block ==
  /\ pc = "idle"
  /\ block' = scenario.block /\ pc' = "params"
  /\ WorkerOnly /\ UNCHANGED <<insp, spoilt, unmatched>>

\* suscan_inspector_assert_params, first half: the parameters are copied
\* and the blocks changed, and only then the flag is lowered.
Commit ==
  /\ pc = "params" /\ insp.params_requested
  /\ insp' = [insp EXCEPT
                !.blocks = commit_config(class, insp.blocks, insp.cur, insp.req),
                !.cur    = insp.req]
  /\ unmatched' = (class # "audio" /\ ~mf_rebuilt(insp.cur, insp.req)
                     /\ (unmatched \/ ~insp.req.br_running))
  /\ pc' = "lower"
  /\ WorkerOnly /\ UNCHANGED <<block, spoilt>>

Lower ==
  /\ pc = "lower"
  /\ insp' = [insp EXCEPT !.params_requested = FALSE]
  /\ spoilt' = (spoilt \/ parser.todo # <<>> \/ insp.cur # insp.req)
  /\ pc' = "bandwidth"
  /\ WorkerOnly /\ UNCHANGED <<block, unmatched>>

NothingRequested ==
  /\ pc = "params" /\ ~insp.params_requested
  /\ pc' = "bandwidth"
  /\ WorkerOnly /\ UNCHANGED <<insp, block, spoilt, unmatched>>

\* Second half.
NewBandwidth ==
  /\ pc = "bandwidth"
  /\ insp' = IF ~insp.bandwidth_notified THEN insp
               ELSE [insp EXCEPT
                       !.blocks = IF class = "audio"
                                    THEN suscan_audio_inspector_new_bandwidth(@, insp.new_bandwidth)
                                    ELSE @,
                       !.bandwidth_notified = FALSE]
  /\ pc' = "feed"
  /\ WorkerOnly /\ UNCHANGED <<block, spoilt, unmatched>>

\* Whether samples can come out: a clock that is stopped gives none.
Produces ==
  LET stages == feed(class, insp.cur, insp.blocks)
  IN IF class = "audio" THEN insp.cur.demod # DEMOD.DISABLED ELSE stages.clock[1] > 0

suscan_inspector_sampler_buf_avail == SAMPLER_BUF_SIZE - insp.sampler_ptr

\* suscan_inspector_feed_bulk takes fed samples and puts out of them in the
\* buffer, and takes all unless the buffer fills up.  A disabled
\* demodulator takes them without looking at the buffer.
Fed(fed, out) ==
  /\ out <= fed /\ out <= suscan_inspector_sampler_buf_avail
  /\ IF class = "audio" /\ insp.cur.demod = DEMOD.DISABLED
       THEN fed = block /\ out = 0
       ELSE /\ out > 0 => Produces
            /\ fed < block => out = suscan_inspector_sampler_buf_avail
            /\ suscan_inspector_sampler_buf_avail = 0 => fed = 0

\* Mutant: the buffer is not emptied.
FeedWithoutReset ==
  /\ pc = "feed"
  /\ \E fed \in 0..block, out \in 0..SAMPLER_BUF_SIZE :
       LET length == insp.sampler_ptr + out
       IN /\ Fed(fed, out)
          /\ insp' = [insp EXCEPT !.sampler_ptr = length]
          /\ block' = block - fed
          /\ pc' = IF block = fed THEN "idle" ELSE "params"
  /\ WorkerOnly /\ UNCHANGED <<spoilt, unmatched>>

\* A turn of the loop: feed, and send the buffer when there is more in it
\* than the watermark says.
Feed ==
  /\ pc = "feed"
  /\ \E fed \in 0..block, out \in 0..SAMPLER_BUF_SIZE :
       LET length == insp.sampler_ptr + out
           send   == length > insp.sample_msg_watermark
       IN /\ Fed(fed, out)
          /\ insp' = [insp EXCEPT !.sampler_ptr = IF send THEN 0 ELSE length]
          /\ block' = block - fed
          /\ pc' = IF block = fed THEN "idle" ELSE "params"
  /\ WorkerOnly /\ UNCHANGED <<spoilt, unmatched>>

----------------------------------------------------------------------------

IActions ==
  \/ SetConfig
  \/ Parse
  \/ GetConfig
  \/ NotifyBandwidth
  \/ SetWatermark
  \/ Block
  \/ Commit
  \/ Lower
  \/ NothingRequested
  \/ NewBandwidth
  \/ Feed

----------------------------------------------------------------------------
(***************************************************************************)
(* Properties.                                                             *)
(***************************************************************************)

Value(field) == suscan_config_get_value(asked, field).v

\* The worker has taken what the last request asked for, and the request
\* did not meet it half-way.
Settled == pc = "feed" /\ ~insp.params_requested /\ ~spoilt /\ parser.todo = <<>>

GainAsked == IF Value("agc.enabled") THEN <<>> ELSE <<2 * SU_MAG_RAW(Value("agc.gain"))>>
Rate == IF Value("clock.running") THEN Value("clock.baud") ELSE 0
Clock == IF Value("clock.type") = MANUAL THEN <<Rate, Value("clock.phase")>>
           ELSE <<Rate, SU_MAG_RAW(Value("clock.gain")), BrDefaults.br_beta>>
Matched ==
  IF unmatched \/ Rate = 0 THEN <<>>
    ELSE "mf" :> (IF Value("mf.type") = MATCHED_FILTER.BYPASS THEN <<>>
                    ELSE <<RootRaisedCosine(Rate, Value("mf.roll-off"))>>)
Symbols == [gain |-> GainAsked, clock |-> Clock] @@ Matched

\* What the fields of a configuration mean, stage by stage.
Asked ==
  CASE class = "psk" ->
         Symbols @@
         [lo |-> 2 * Value("afc.offset"),
          carrier |-> IF Value("afc.costas-order") = MANUAL THEN <<>>
                        ELSE <<CostasLoop(COSTAS[Value("afc.costas-order")],
                                          Value("afc.loop-bw"))>>,
          eq |-> IF Value("equalizer.type") = EQUALIZER.BYPASS THEN <<>>
                   ELSE IF Value("equalizer.locked") THEN <<0>>
                   ELSE <<Value("equalizer.rate")>>]
    [] class = "fsk" ->
         Symbols @@ [phase |-> Value("fsk.phase"), quad |-> Value("fsk.quad-demod")]
    [] class = "ask" ->
         Symbols @@
         [lo |-> 2 * Value("ask.offset"), channel |-> Value("ask.channel"),
          carrier |-> IF Value("ask.use-pll") THEN <<2 * Value("ask.loop-bw")>> ELSE <<>>]
    [] class = "audio" ->
         IF Value("audio.demodulator") = DEMOD.DISABLED THEN [demod |-> DEMOD.DISABLED]
         ELSE [gain |-> GainAsked, demod |-> Value("audio.demodulator"),
               volume |-> Value("audio.volume"),
               filt |-> AudioFilter(Value("audio.demodulator"), Value("audio.cutoff"))]
              @@ (IF Value("audio.sample-rate") = 0 THEN <<>>
                    ELSE "rate" :> Value("audio.sample-rate"))
              @@ (IF told_bw = NoBandwidth \/ insp.bandwidth_notified THEN <<>>
                    ELSE "lo" :> IF Value("audio.demodulator") \in {DEMOD.USB, DEMOD.LSB}
                                   THEN <<told_bw>> ELSE <<>>)

\* Once the worker has taken the last request and the request did not meet
\* it half-way, every stage a sample goes through is set as the fields of
\* that configuration say, whatever was set before (parse_config,
\* commit_config and feed of the classes).  One stage is left out while the
\* code gets it wrong: a roll-off or a rate that was set while the clock was
\* stopped is not in the matched filter when the clock starts (psk.c:312).
ProcessedAsAsked ==
  Settled => \A stage \in DOMAIN Asked :
               feed(class, insp.cur, insp.blocks)[stage] = Asked[stage]

\* What GET_CONFIG answers then is what SET_CONFIG asked for, field by
\* field, so that a program may ask, change one field and set it again
\* (the *_params_parse and *_params_save of params.c).  Three fields are
\* not stored: the bits per symbol follow from the order of the loop, the
\* decision of ask is not used, and the demodulator of fsk is lost, which
\* the code gets wrong (params.c:636).
NotStored == {"afc.bits-per-symbol", "amplitude-decision", "fsk.quad-demod"}

ConfigComesBack ==
  Settled =>
    \E answer \in {get_config(class, insp.cur)} :
      /\ answer.ok
      /\ \A i \in DOMAIN asked.desc.fields :
           asked.desc.fields[i].name \in NotStored
             \/ answer.cfg.values[i].v = asked.values[i].v

\* Every turn of the worker's loop takes a sample or empties a buffer that
\* had some, or it would be in the loop forever (sampler_loop).  It is, when
\* the watermark is the size of the buffer, which SET_WATERMARK accepts
\* (inspector.h:162).
TurnsAdvance ==
  [][pc = "feed" /\ pc' # "feed" =>
       \/ block' < block
       \/ insp.sampler_ptr > 0 /\ insp'.sampler_ptr = 0
       \/ insp.sample_msg_watermark = SAMPLER_BUF_SIZE]_ivars

=============================================================================
