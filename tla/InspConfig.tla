----------------------------- MODULE InspConfig -----------------------------
(***************************************************************************)
(* What an inspector can be asked to do, and what its blocks do then: the  *)
(* fields of the configurations (inspector/params.c) and, for the classes  *)
(* psk, fsk, ask and audio (inspector/impl), the parameters they start     *)
(* with, how these are read from a configuration and written to one, how   *)
(* they are committed to the blocks, and which blocks a sample then goes   *)
(* through.                                                                *)
(*                                                                         *)
(* Frequencies and rates that sigutils wants normalised are written in     *)
(* units of 1 / equiv_fs, so that a baud rate keeps its number and a       *)
(* frequency is doubled.  Gains are powers of two, and one decibel here is *)
(* a factor of two.  The class raw has no parameters.                      *)
(***************************************************************************)
EXTENDS Config

CONSTANTS
  EQUIV_FS,       \* sampling frequency of the channel, Hz
  BW              \* its bandwidth, Hz

Classes == {"psk", "fsk", "ask", "audio"}

\* No gain at all has minus infinity decibels.
Silence == -1
SU_MAG_RAW(db) == IF db = Silence THEN 0 ELSE 2 ^ db
SU_DB_RAW(mag) == IF mag = 0 THEN Silence ELSE CHOOSE db \in 0..mag : 2 ^ db = mag

SU_ABS2NORM_FREQ(f) == 2 * f
SU_ABS2NORM_BAUD(b) == b
SU_NORM2ABS_BAUD(b) == b

MANUAL == 0
GAIN_CONTROL    == [MANUAL |-> MANUAL, AUTOMATIC |-> 1]
MATCHED_FILTER  == [BYPASS |-> 0, MANUAL |-> 1]
EQUALIZER       == [BYPASS |-> 0, CMA |-> 1]
COSTAS          == <<"BPSK", "QPSK", "8PSK">>
ASK_CHANNEL     == [BOTH |-> 0, I |-> 1, Q |-> 2]
DEMOD           == [DISABLED |-> 0, AM |-> 1, FM |-> 2, USB |-> 3, LSB |-> 4]

----------------------------------------------------------------------------
(***************************************************************************)
(* The fields, in the order in which they are described, read and saved.   *)
(***************************************************************************)

suscan_config_desc_add_gc_params ==
  << Field("BOOLEAN", "agc.enabled"), Field("FLOAT", "agc.gain") >>
suscan_inspector_gc_params_parse ==
  << <<"FLOAT", "agc.gain", "gc_gain">>, <<"BOOLEAN", "agc.enabled", "gc_ctrl">> >>
suscan_inspector_gc_params_save(params) == suscan_inspector_gc_params_parse

suscan_config_desc_add_fc_params ==
  << Field("INTEGER", "afc.costas-order"), Field("INTEGER", "afc.bits-per-symbol"),
     Field("FLOAT", "afc.offset"), Field("FLOAT", "afc.loop-bw") >>
suscan_inspector_fc_params_parse ==
  << <<"INTEGER", "afc.costas-order", "fc_ctrl">>, <<"FLOAT", "afc.offset", "fc_off">>,
     <<"FLOAT", "afc.loop-bw", "fc_loopbw">> >>
suscan_inspector_fc_params_save(params) ==
  << <<"INTEGER", "afc.costas-order", "fc_ctrl">> >>
    \o (IF params.fc_ctrl = MANUAL THEN <<>>
          ELSE << <<"INTEGER", "afc.bits-per-symbol", "fc_ctrl">> >>)
    \o << <<"FLOAT", "afc.offset", "fc_off">>, <<"FLOAT", "afc.loop-bw", "fc_loopbw">> >>

suscan_config_desc_add_mf_params ==
  << Field("INTEGER", "mf.type"), Field("FLOAT", "mf.roll-off") >>
suscan_inspector_mf_params_parse ==
  << <<"INTEGER", "mf.type", "mf_conf">>, <<"FLOAT", "mf.roll-off", "mf_rolloff">> >>
suscan_inspector_mf_params_save(params) == suscan_inspector_mf_params_parse

suscan_config_desc_add_eq_params ==
  << Field("INTEGER", "equalizer.type"), Field("FLOAT", "equalizer.rate"),
     Field("BOOLEAN", "equalizer.locked") >>
suscan_inspector_eq_params_parse ==
  << <<"INTEGER", "equalizer.type", "eq_conf">>, <<"FLOAT", "equalizer.rate", "eq_mu">>,
     <<"BOOLEAN", "equalizer.locked", "eq_locked">> >>
suscan_inspector_eq_params_save(params) == suscan_inspector_eq_params_parse

suscan_config_desc_add_br_params ==
  << Field("INTEGER", "clock.type"), Field("FLOAT", "clock.baud"),
     Field("FLOAT", "clock.gain"), Field("FLOAT", "clock.phase"),
     Field("BOOLEAN", "clock.running") >>
suscan_inspector_br_params_parse ==
  << <<"INTEGER", "clock.type", "br_ctrl">>, <<"FLOAT", "clock.gain", "br_alpha">>,
     <<"FLOAT", "clock.baud", "baud">>, <<"FLOAT", "clock.phase", "sym_phase">>,
     <<"BOOLEAN", "clock.running", "br_running">> >>
suscan_inspector_br_params_save(params) == suscan_inspector_br_params_parse

suscan_config_desc_add_fsk_params ==
  << Field("INTEGER", "fsk.bits-per-symbol"), Field("FLOAT", "fsk.phase"),
     Field("BOOLEAN", "fsk.quad-demod") >>
suscan_inspector_fsk_params_parse ==
  << <<"INTEGER", "fsk.bits-per-symbol", "bits_per_tone">>, <<"FLOAT", "fsk.phase", "phase">>,
     <<"BOOLEAN", "fsk.quad-demod", "quad_demod">> >>
\* The demodulator is not saved.
suscan_inspector_fsk_params_save(params) ==
  << <<"INTEGER", "fsk.bits-per-symbol", "bits_per_tone">>, <<"FLOAT", "fsk.phase", "phase">> >>

suscan_config_desc_add_ask_params ==
  << Field("BOOLEAN", "amplitude-decision"), Field("INTEGER", "ask.bits-per-symbol"),
     Field("BOOLEAN", "ask.use-pll"), Field("FLOAT", "ask.offset"),
     Field("FLOAT", "ask.loop-bw"), Field("INTEGER", "ask.channel") >>
suscan_inspector_ask_params_parse ==
  << <<"INTEGER", "ask.bits-per-symbol", "bits_per_level">>,
     <<"BOOLEAN", "ask.use-pll", "uses_pll">>, <<"FLOAT", "ask.offset", "offset">>,
     <<"FLOAT", "ask.loop-bw", "cutoff">>, <<"INTEGER", "ask.channel", "channel">> >>
\* Mutant: two fields swapped.
SaveAskSwapped(params) ==
  << <<"INTEGER", "ask.bits-per-symbol", "bits_per_level">>,
     <<"BOOLEAN", "ask.use-pll", "uses_pll">>, <<"FLOAT", "ask.loop-bw", "offset">>,
     <<"FLOAT", "ask.offset", "cutoff">>, <<"INTEGER", "ask.channel", "channel">> >>
suscan_inspector_ask_params_save(params) ==
  << <<"INTEGER", "ask.bits-per-symbol", "bits_per_level">>,
     <<"BOOLEAN", "ask.use-pll", "uses_pll">>, <<"FLOAT", "ask.loop-bw", "cutoff">>,
     <<"FLOAT", "ask.offset", "offset">>, <<"INTEGER", "ask.channel", "channel">> >>

suscan_config_desc_add_audio_params ==
  << Field("FLOAT", "audio.volume"), Field("FLOAT", "audio.cutoff"),
     Field("INTEGER", "audio.sample-rate"), Field("INTEGER", "audio.demodulator"),
     Field("BOOLEAN", "audio.squelch"), Field("FLOAT", "audio.squelch-level") >>
suscan_inspector_audio_params_parse ==
  << <<"FLOAT", "audio.volume", "volume">>, <<"FLOAT", "audio.cutoff", "cutoff">>,
     <<"INTEGER", "audio.sample-rate", "sample_rate">>,
     <<"INTEGER", "audio.demodulator", "demod">>, <<"BOOLEAN", "audio.squelch", "squelch">>,
     <<"FLOAT", "audio.squelch-level", "squelch_level">> >>
suscan_inspector_audio_params_save(params) == suscan_inspector_audio_params_parse

\* The description of each class.
cfgdesc(class) ==
  suscan_config_desc(class,
    CASE class = "psk" -> suscan_config_desc_add_gc_params
                            \o suscan_config_desc_add_fc_params
                            \o suscan_config_desc_add_mf_params
                            \o suscan_config_desc_add_eq_params
                            \o suscan_config_desc_add_br_params
      [] class = "fsk" -> suscan_config_desc_add_gc_params
                            \o suscan_config_desc_add_fsk_params
                            \o suscan_config_desc_add_mf_params
                            \o suscan_config_desc_add_br_params
      [] class = "ask" -> suscan_config_desc_add_gc_params
                            \o suscan_config_desc_add_ask_params
                            \o suscan_config_desc_add_mf_params
                            \o suscan_config_desc_add_br_params
      [] class = "audio" -> suscan_config_desc_add_gc_params
                              \o suscan_config_desc_add_audio_params)

----------------------------------------------------------------------------
(***************************************************************************)
(* Parameters, by the names of the structures' fields.                     *)
(***************************************************************************)

GcDefaults == [gc_ctrl |-> GAIN_CONTROL.AUTOMATIC, gc_gain |-> 1]
MfDefaults == [mf_conf |-> MATCHED_FILTER.BYPASS, mf_rolloff |-> 35]
BrDefaults == [br_ctrl |-> MANUAL, br_alpha |-> 2, br_beta |-> 3, sym_phase |-> 0,
               baud |-> SU_NORM2ABS_BAUD(BW \div 2), br_running |-> FALSE]

suscan_psk_inspector_params_initialize ==
  GcDefaults @@ MfDefaults @@ BrDefaults
    @@ [fc_ctrl |-> MANUAL, fc_off |-> 0, fc_phi |-> 0, fc_loopbw |-> EQUIV_FS \div 200]
    @@ [eq_conf |-> EQUALIZER.BYPASS, eq_mu |-> 1, eq_locked |-> FALSE]

suscan_fsk_inspector_params_initialize ==
  GcDefaults @@ MfDefaults @@ BrDefaults
    @@ [bits_per_tone |-> 1, quad_demod |-> FALSE, phase |-> 0]

suscan_ask_inspector_params_initialize ==
  GcDefaults @@ MfDefaults @@ BrDefaults
    @@ [bits_per_level |-> 1, uses_pll |-> TRUE, offset |-> 0,
        cutoff |-> EQUIV_FS \div 200, channel |-> ASK_CHANNEL.BOTH]

suscan_audio_inspector_params_initialize ==
  GcDefaults @@ [sample_rate |-> 44, demod |-> DEMOD.DISABLED, cutoff |-> 22,
                 volume |-> 0, squelch |-> FALSE, squelch_level |-> 0]

Defaults(class) ==
  CASE class = "psk"   -> suscan_psk_inspector_params_initialize
    [] class = "fsk"   -> suscan_fsk_inspector_params_initialize
    [] class = "ask"   -> suscan_ask_inspector_params_initialize
    [] class = "audio" -> suscan_audio_inspector_params_initialize

\* calloc
Flags == {"br_running", "eq_locked", "quad_demod", "uses_pll", "squelch"}
Zeroed(params) == [p \in DOMAIN params |-> IF p \in Flags THEN FALSE ELSE 0]

----------------------------------------------------------------------------
(***************************************************************************)
(* From a configuration to parameters and back.  The structures are read   *)
(* one after the other, the classes but audio after they were initialised; *)
(* what was read before a field that is missing or has another type stays. *)
(***************************************************************************)

Read(p, v) ==
  CASE p \in {"gc_gain", "br_alpha"} -> SU_MAG_RAW(v)
    [] p = "gc_ctrl" -> IF v THEN GAIN_CONTROL.AUTOMATIC ELSE GAIN_CONTROL.MANUAL
    [] OTHER         -> v

Written(p, v) ==
  CASE p \in {"gc_gain", "br_alpha"} -> SU_DB_RAW(v)
    [] p = "gc_ctrl" -> v = GAIN_CONTROL.AUTOMATIC
    [] OTHER         -> v

suscan_psk_inspector_parse_config ==
  << "initialize", "gc", "fc", "mf", "eq", "br" >>
suscan_fsk_inspector_parse_config ==
  << "initialize", "gc", "mf", "br", "fsk" >>
suscan_ask_inspector_parse_config ==
  << "initialize", "gc", "mf", "br", "ask" >>
suscan_audio_inspector_parse_config == << "gc", "audio" >>

parse_config(class) ==
  CASE class = "psk"   -> suscan_psk_inspector_parse_config
    [] class = "fsk"   -> suscan_fsk_inspector_parse_config
    [] class = "ask"   -> suscan_ask_inspector_parse_config
    [] class = "audio" -> suscan_audio_inspector_parse_config

FieldsRead(part) ==
  CASE part = "gc"  -> suscan_inspector_gc_params_parse
    [] part = "fc"  -> suscan_inspector_fc_params_parse
    [] part = "mf"  -> suscan_inspector_mf_params_parse
    [] part = "eq"  -> suscan_inspector_eq_params_parse
    [] part = "br"  -> suscan_inspector_br_params_parse
    [] part = "fsk" -> suscan_inspector_fsk_params_parse
    [] part = "ask" -> suscan_inspector_ask_params_parse
    [] part = "audio" -> suscan_inspector_audio_params_parse

\* One structure.
ParseParams(params, part, config) ==
  LET read(r, f) ==
        LET id == suscan_config_desc_lookup_field_id(config.desc, f[2])
        IN IF r.ok /\ id # 0 /\ config.desc.fields[id].type = f[1]
             THEN [r EXCEPT !.params[f[3]] =
                     Read(f[3], suscan_config_get_value(config, f[2]).v)]
             ELSE [r EXCEPT !.ok = FALSE]
  IN Reduce(read, [ok |-> TRUE, params |-> params], FieldsRead(part))

\* The fields that are saved, in order.
suscan_psk_inspector_get_config(params) ==
  suscan_inspector_gc_params_save(params) \o suscan_inspector_fc_params_save(params)
    \o suscan_inspector_mf_params_save(params) \o suscan_inspector_eq_params_save(params)
    \o suscan_inspector_br_params_save(params)

suscan_fsk_inspector_get_config(params) ==
  suscan_inspector_gc_params_save(params) \o suscan_inspector_mf_params_save(params)
    \o suscan_inspector_br_params_save(params) \o suscan_inspector_fsk_params_save(params)

suscan_ask_inspector_get_config(params) ==
  suscan_inspector_gc_params_save(params) \o suscan_inspector_mf_params_save(params)
    \o suscan_inspector_br_params_save(params) \o suscan_inspector_ask_params_save(params)

suscan_audio_inspector_get_config(params) ==
  suscan_inspector_gc_params_save(params) \o suscan_inspector_audio_params_save(params)

\* A new configuration of the class with the parameters in it.
get_config(class, params) ==
  LET saved == CASE class = "psk"   -> suscan_psk_inspector_get_config(params)
                 [] class = "fsk"   -> suscan_fsk_inspector_get_config(params)
                 [] class = "ask"   -> suscan_ask_inspector_get_config(params)
                 [] class = "audio" -> suscan_audio_inspector_get_config(params)
      set(cfg, type, name, v) ==
        CASE type = "INTEGER" -> suscan_config_set_integer(cfg, name, v)
          [] type = "FLOAT"   -> suscan_config_set_float(cfg, name, v)
          [] type = "BOOLEAN" -> suscan_config_set_bool(cfg, name, v)
      save(r, f) == IF r.ok THEN set(r.cfg, f[1], f[2], Written(f[3], params[f[3]])) ELSE r
  IN Reduce(save, [ok |-> TRUE, cfg |-> suscan_config_new(cfgdesc(class))], saved)

----------------------------------------------------------------------------
(***************************************************************************)
(* Blocks.  Only what a configuration reaches is kept of them.             *)
(***************************************************************************)

CeilDiv(a, b) == (a + b - 1) \div b

\* su_iir_rrc_init with the span and the period of a rate, in samples.
MF_SPAN == 1024
mf_span(span) == IF span > MF_SPAN THEN MF_SPAN ELSE span
RootRaisedCosine(rate, rolloff) ==
  [span |-> mf_span((6 * EQUIV_FS) \div rate), period |-> CeilDiv(EQUIV_FS, rate),
   rolloff |-> rolloff]

CostasLoop(kind, loopbw) == [kind |-> kind, arm |-> BW, loop |-> SU_ABS2NORM_FREQ(loopbw)]

\* What psk, fsk and ask have in common when they are made.
SymbolBlocks(params) ==
  [cd |-> [rate |-> BW \div 2, alpha |-> 2, beta |-> 3],
   sampler |-> [rate   |-> IF params.br_running THEN SU_ABS2NORM_BAUD(params.baud) ELSE 0,
                addend |-> 0],
   mf |-> RootRaisedCosine(BW, params.mf_rolloff),
   lo |-> 0]

suscan_psk_inspector_new(params) ==
  SymbolBlocks(params)
    @@ [phase |-> 0, costas |-> CostasLoop("BPSK", params.fc_loopbw), mu |-> 1]
suscan_fsk_inspector_new(params) == SymbolBlocks(params) @@ [phase |-> params.phase]
suscan_ask_inspector_new(params) ==
  SymbolBlocks(params) @@ [phase |-> 0, pll |-> SU_ABS2NORM_FREQ(params.cutoff)]
suscan_audio_inspector_new(params) ==
  [filt |-> <<"lpf", 5, SU_ABS2NORM_FREQ(params.cutoff)>>, lo |-> BW \div 2,
   sampler |-> [rate |-> 0, addend |-> 0]]

new(class, params) ==
  CASE class = "psk"   -> suscan_psk_inspector_new(params)
    [] class = "fsk"   -> suscan_fsk_inspector_new(params)
    [] class = "ask"   -> suscan_ask_inspector_new(params)
    [] class = "audio" -> suscan_audio_inspector_new(params)

actual_baud(req) == IF req.br_running THEN req.baud ELSE 0

\* The filter is only made again when the rate or the roll-off changes, and
\* when there is a rate.
mf_changed(cur, req) ==
  cur.baud # actual_baud(req) \/ cur.mf_rolloff # req.mf_rolloff
mf_rebuilt(cur, req) == mf_changed(cur, req) /\ SU_ABS2NORM_BAUD(actual_baud(req)) > 0

CommitSymbols(blocks, cur, req) ==
  LET rate == SU_ABS2NORM_BAUD(actual_baud(req))
  IN [blocks EXCEPT
        !.cd      = [rate |-> rate, alpha |-> req.br_alpha, beta |-> req.br_beta],
        !.sampler = [rate |-> rate, addend |-> req.sym_phase],
        !.mf      = IF mf_rebuilt(cur, req) THEN RootRaisedCosine(rate, req.mf_rolloff)
                                            ELSE @]

\* Mutant: the kind of the loop is set first, and lost with the old loop.
CommitKindFirst(blocks, cur, req) ==
  LET kind == IF req.fc_ctrl \in DOMAIN COSTAS
                THEN [blocks.costas EXCEPT !.kind = COSTAS[req.fc_ctrl]] ELSE blocks.costas
  IN [CommitSymbols(blocks, cur, req) EXCEPT
        !.lo     = SU_ABS2NORM_FREQ(req.fc_off),
        !.phase  = req.fc_phi,
        !.mu     = IF req.eq_locked THEN 0 ELSE req.eq_mu,
        !.costas = IF cur.fc_loopbw # req.fc_loopbw THEN CostasLoop("BPSK", req.fc_loopbw)
                                                    ELSE kind]

suscan_psk_inspector_commit_config(blocks, cur, req) ==
  LET costas == IF cur.fc_loopbw # req.fc_loopbw THEN CostasLoop("BPSK", req.fc_loopbw)
                                                 ELSE blocks.costas
  IN [CommitSymbols(blocks, cur, req) EXCEPT
        !.lo     = SU_ABS2NORM_FREQ(req.fc_off),
        !.phase  = req.fc_phi,
        !.mu     = IF req.eq_locked THEN 0 ELSE req.eq_mu,
        !.costas = IF req.fc_ctrl \in DOMAIN COSTAS
                     THEN [costas EXCEPT !.kind = COSTAS[req.fc_ctrl]] ELSE costas]

suscan_fsk_inspector_commit_config(blocks, cur, req) ==
  [CommitSymbols(blocks, cur, req) EXCEPT !.phase = req.phase]

suscan_ask_inspector_commit_config(blocks, cur, req) ==
  [CommitSymbols(blocks, cur, req) EXCEPT
     !.pll = IF cur.cutoff # req.cutoff THEN SU_ABS2NORM_FREQ(req.cutoff) ELSE @,
     !.lo  = SU_ABS2NORM_FREQ(req.offset)]

\* The low pass filter of a demodulator.
AudioFilter(demod, cutoff) ==
  CASE demod = DEMOD.FM -> <<"lpf", 5, SU_ABS2NORM_FREQ(cutoff)>>
    [] demod = DEMOD.AM -> <<"lpf", 3, SU_ABS2NORM_FREQ(cutoff)>>
    [] OTHER            -> <<"brickwall", 200, SU_ABS2NORM_FREQ(cutoff)>>

suscan_audio_inspector_commit_config(blocks, cur, req) ==
  [blocks EXCEPT
     !.filt = IF req.demod = DEMOD.DISABLED THEN @ ELSE AudioFilter(req.demod, req.cutoff),
     !.sampler.rate = IF req.sample_rate > 0 THEN SU_ABS2NORM_BAUD(req.sample_rate) ELSE @]

commit_config(class, blocks, cur, req) ==
  CASE class = "psk"   -> suscan_psk_inspector_commit_config(blocks, cur, req)
    [] class = "fsk"   -> suscan_fsk_inspector_commit_config(blocks, cur, req)
    [] class = "ask"   -> suscan_ask_inspector_commit_config(blocks, cur, req)
    [] class = "audio" -> suscan_audio_inspector_commit_config(blocks, cur, req)

\* Only audio cares; su_ncqo_set_freq wants half of the bandwidth.
suscan_audio_inspector_new_bandwidth(blocks, bw) ==
  [blocks EXCEPT !.lo = SU_ABS2NORM_FREQ(bw) \div 2]

----------------------------------------------------------------------------
(***************************************************************************)
(* What is done to a sample: the blocks it goes through and how these are  *)
(* set, one field for each stage.                                          *)
(***************************************************************************)

GainStage(params) ==
  IF params.gc_ctrl = GAIN_CONTROL.MANUAL THEN <<2 * params.gc_gain>> ELSE <<>>

FilterStage(params, blocks) ==
  IF params.mf_conf = MATCHED_FILTER.MANUAL THEN <<blocks.mf>> ELSE <<>>

ClockStage(params, blocks) ==
  IF params.br_ctrl = MANUAL THEN <<blocks.sampler.rate, blocks.sampler.addend>>
    ELSE <<blocks.cd.rate, blocks.cd.alpha, blocks.cd.beta>>

suscan_psk_inspector_feed(params, blocks) ==
  [lo |-> blocks.lo, phase |-> blocks.phase, gain |-> GainStage(params),
   carrier |-> IF params.fc_ctrl # MANUAL THEN <<blocks.costas>> ELSE <<>>,
   mf |-> FilterStage(params, blocks), clock |-> ClockStage(params, blocks),
   eq |-> IF params.eq_conf = EQUALIZER.CMA THEN <<blocks.mu>> ELSE <<>>]

suscan_fsk_inspector_feed(params, blocks) ==
  [lo |-> blocks.lo, gain |-> GainStage(params), quad |-> params.quad_demod,
   mf |-> FilterStage(params, blocks), clock |-> ClockStage(params, blocks),
   phase |-> blocks.phase]

suscan_ask_inspector_feed(params, blocks) ==
  [lo |-> blocks.lo, phase |-> blocks.phase, gain |-> GainStage(params),
   carrier |-> IF params.uses_pll THEN <<blocks.pll>> ELSE <<>>,
   channel |-> params.channel,
   mf |-> FilterStage(params, blocks), clock |-> ClockStage(params, blocks)]

\* A squelch is compared with the level only for some demodulators.
suscan_audio_inspector_feed(params, blocks) ==
  IF params.demod = DEMOD.DISABLED THEN [demod |-> params.demod]
  ELSE [gain |-> GainStage(params), demod |-> params.demod,
        squelch |-> IF ~params.squelch THEN <<>>
                      ELSE IF params.demod = DEMOD.FM THEN <<"power">>
                      ELSE <<"level", params.squelch_level>>,
        lo |-> IF params.demod \in {DEMOD.USB, DEMOD.LSB} THEN <<blocks.lo>> ELSE <<>>,
        volume |-> params.volume, filt |-> blocks.filt, rate |-> blocks.sampler.rate]

feed(class, params, blocks) ==
  CASE class = "psk"   -> suscan_psk_inspector_feed(params, blocks)
    [] class = "fsk"   -> suscan_fsk_inspector_feed(params, blocks)
    [] class = "ask"   -> suscan_ask_inspector_feed(params, blocks)
    [] class = "audio" -> suscan_audio_inspector_feed(params, blocks)

=============================================================================
