------------------------------- MODULE MCWire -------------------------------
(***************************************************************************)
(* Every kind of PDU once with distinct values, and once more for every    *)
(* field with each of the values at which its encoding changes; apart from *)
(* the connection, a process that edits, saves, loads and discovers        *)
(* profiles; and, apart from both, an inspector that is configured while   *)
(* it processes samples.                                                   *)
(***************************************************************************)
EXTENDS Profiles, Inspector

\* Numbers next to the limits of the encodings, by the width of the field.
N8  == {23, 24, Byte - 1}
N16 == N8 \union {Byte, Byte^2 - 1}
N32 == N16 \union {Byte^2, Byte^4 - 1}
N64 == N32 \union {Byte^4}
S32 == {-1, -24, -Byte, -(Byte^2), -(Byte^4 \div 2), Byte^4 \div 2 - 1}

With(m, fields, values) == {[m EXCEPT ![f] = v] : f \in fields, v \in values}

MCKnownClasses == {<<7>>, <<8>>}

\* --- messages ------------------------------------------------------------
Status == [type |-> MSGTYPE.EOS, code |-> 1, err_msg |-> <<5, 6>>]
StatusMsgs ==
  {[Status EXCEPT !.type = t] : t \in StatusTypes}
    \union With(Status, {"code"}, S32) \union With(Status, {"err_msg"}, {NullStr, <<>>})

Psd == [type |-> MSGTYPE.PSD, fc |-> 1, inspector_id |-> 2, timestamp_sec |-> 3,
        timestamp_usec |-> 4, rt_time_sec |-> 5, rt_time_usec |-> 6,
        looped |-> FALSE, samp_rate |-> 7, measured_samp_rate |-> 8, N0 |-> 9,
        psd_data |-> <<10, 11>>]
PsdMsgs ==
  {Psd, [Psd EXCEPT !.looped = TRUE], [Psd EXCEPT !.psd_data = <<>>],
   [Psd EXCEPT !.psd_data = [i \in 1..9 |-> 3]]}
    \union With(Psd, {"fc"}, S32 \union {Byte^4})
    \union With(Psd, {"inspector_id", "timestamp_usec"}, N32)
    \union With(Psd, {"timestamp_sec"}, N64)

Samples == [type |-> MSGTYPE.SAMPLES, inspector_id |-> 1,
            samples |-> << <<1, 2>>, <<3, 4>> >>]
SampleMsgs == {Samples, [Samples EXCEPT !.samples = <<>>]}
                \union With(Samples, {"inspector_id"}, N32)

ThrottleMsgs == {[type |-> MSGTYPE.THROTTLE, samp_rate |-> n] : n \in N64}
SeekMsgs == {[type |-> MSGTYPE.SEEK, position_sec |-> n, position_usec |-> 24] : n \in N64}
ParamsMsg == [type |-> MSGTYPE.PARAMS, mode |-> -1, window |-> 2, window_size |-> 3,
              det_fc |-> 4, alpha |-> 5, decimation |-> 6, samp_rate |-> 7,
              channel_update_int |-> 8, psd_update_int |-> 9, min_freq |-> 10,
              max_freq |-> 11]

Gain(n) == [name |-> <<n>>, min |-> 1, max |-> 2, step |-> 3, value |-> n]
Info == [type |-> MSGTYPE.SOURCE_INFO, permissions |-> 1, source_samp_rate |-> 2,
         effective_samp_rate |-> 3, measured_samp_rate |-> 4, frequency |-> 5,
         freq_min |-> 6, freq_max |-> 7, lnb |-> 8, bandwidth |-> 9, ppm |-> 10,
         antenna |-> <<11>>, dc_remove |-> TRUE, iq_reverse |-> FALSE,
         agc |-> FALSE, have_qth |-> FALSE, time_sec |-> 12, time_usec |-> 13,
         seekable |-> FALSE, gain_list |-> <<Gain(1), Gain(2)>>,
         antenna_list |-> << <<1, 2>>, <<>> >>]
Qth   == [lat |-> 1, lon |-> 2, height |-> 3]
Times == [start_sec |-> 24, start_usec |-> 25, end_sec |-> 26, end_usec |-> 27]
Infos ==
  {Info, [Info EXCEPT !.gain_list = <<>>, !.antenna_list = <<>>, !.antenna = NullStr],
   Qth @@ [Info EXCEPT !.have_qth = TRUE],
   Times @@ [Info EXCEPT !.seekable = TRUE, !.iq_reverse = TRUE],
   Qth @@ Times @@ [Info EXCEPT !.have_qth = TRUE, !.seekable = TRUE, !.agc = TRUE]}
    \union With(Info, {"permissions", "source_samp_rate"}, N64)

\* --- inspector messages --------------------------------------------------
Insp(kind) == [type |-> MSGTYPE.INSPECTOR, kind |-> kind, inspector_id |-> 1,
               req_id |-> 2, handle |-> 3, status |-> 4, rt_time_sec |-> 5,
               rt_time_usec |-> 6]

\* Descriptions: one the receiver knows, one with a file it knows, and one
\* it has to deduce.
KnownDesc == suscan_config_desc(<<1>>, <<Field("INTEGER", <<1>>), Field("BOOLEAN", <<2>>)>>)
FileDesc  == suscan_config_desc(<<2>>, <<Field("FILE", <<1>>)>>)
NewDesc   == suscan_config_desc(<<3>>, <<Field("FLOAT", <<1>>), Field("STRING", <<2>>),
                                         Field("FILE", <<3>>), Field("BOOLEAN", <<4>>),
                                         Field("INTEGER", <<5>>)>>)
MCInitialDescs == {KnownDesc, FileDesc}

Conf(desc, values) ==
  [desc |-> desc, values |-> [i \in DOMAIN values |-> [set |-> TRUE, v |-> values[i]]]]
Confs == {Conf(KnownDesc, <<24, TRUE>>), Conf(KnownDesc, <<-1, FALSE>>),
          Conf(FileDesc, << <<9>> >>),
          Conf(NewDesc, <<1, <<2>>, <<3>>, TRUE, 5>>),
          Conf(NewDesc, <<0, <<>>, <<>>, FALSE, -(Byte^2)>>)}

Channel == [ch_fc |-> 1, f_lo |-> 2, f_hi |-> 3, bw |-> 4, snr |-> 5, S0 |-> 6,
            ch_N0 |-> 7, ft |-> 8, age |-> 24, present |-> 1]
Open == Insp(MSGKIND.OPEN) @@ Channel
          @@ [class_name |-> <<1>>, config |-> NullConfig, precise |-> TRUE,
              fs |-> 25, equiv_fs |-> 26, bandwidth |-> 27, lo |-> 28,
              estimator_list |-> << <<7>> >>, spectsrc_list |-> << <<8>>, <<9>> >>]
Opens == {Open, [Open EXCEPT !.estimator_list = <<>>, !.spectsrc_list = <<>>],
          [Open EXCEPT !.class_name = NullStr]}
           \union {[Open EXCEPT !.config = c] : c \in Confs}
SetConfigs == {Insp(MSGKIND.SET_CONFIG) @@ [config |-> c] : c \in Confs}
Orbit == [name |-> <<1>>, ep_year |-> -1, ep_day |-> 2, rev |-> 3, drevdt |-> 4,
          d2revdt2 |-> 5, bstar |-> 6, eqinc |-> 7, ecc |-> 8, mnan |-> 9,
          argp |-> 10, ascn |-> 11, smjaxs |-> 12, norb |-> 13, satno |-> 14]

Kinds ==
  {Insp(k) : k \in EmptyKinds \ {MSGKIND.GET_CONFIG}}
    \union {Insp(MSGKIND.GET_CONFIG) @@ [config |-> Conf(KnownDesc, <<1, TRUE>>)],
            Insp(MSGKIND.ESTIMATOR) @@ [estimator_id |-> 1, enabled |-> TRUE, value |-> 2],
            Insp(MSGKIND.SPECTRUM) @@ [spectsrc_id |-> 1, fc |-> 2, N0 |-> 3,
                                       samp_rate |-> 4, spectrum_data |-> <<5, 6>>],
            Insp(MSGKIND.SET_FREQ) @@ [ch_fc |-> 1, ft |-> 2],
            Insp(MSGKIND.SET_BANDWIDTH) @@ [bw |-> 1],
            Insp(MSGKIND.SET_WATERMARK) @@ [watermark |-> Byte^4],
            Insp(MSGKIND.SET_TLE) @@ [tle_enable |-> FALSE],
            Insp(MSGKIND.SET_TLE) @@ [tle_enable |-> TRUE] @@ Orbit,
            Insp(MSGKIND.ORBIT_REPORT) @@
              [rx_time_sec |-> 24, rx_time_usec |-> 1, azimuth |-> 2, elevation |-> 3,
               distance |-> 4, freq_corr |-> 5, vlos_vel |-> 6]}
    \union With(Insp(MSGKIND.NOOP), {"inspector_id", "req_id", "handle"}, N32)
    \union With(Insp(MSGKIND.NOOP), {"status"}, S32)

Msgs == StatusMsgs \union PsdMsgs \union SampleMsgs \union ThrottleMsgs \union SeekMsgs
          \union {ParamsMsg, [type |-> MSGTYPE.GET_PARAMS], [type |-> MSGTYPE.INTERNAL],
                  [type |-> MSGTYPE.CHANNEL]}
          \union Infos \union Opens \union SetConfigs \union Kinds

\* --- calls, hellos, profiles -----------------------------------------------
Call(m) == [what |-> "call", v |-> m]
Untyped(i) == [f \in DOMAIN i \ {"type"} |-> i[f]]
Calls ==
  {Call([type |-> REMOTE.MESSAGE, msg |-> m]) : m \in Msgs}
    \union {Call([type |-> REMOTE.SOURCE_INFO, source_info |-> Untyped(i)]) : i \in Infos}
    \union {Call(c) : c \in
       {[type |-> REMOTE.AUTH_INFO,
         client_auth |-> [client_name |-> <<1>>, version_major |-> 24,
                          version_minor |-> 2, user |-> <<>>,
                          sha256buf |-> <<5, 6>>, flags |-> 1]],
        [type |-> REMOTE.SET_FREQUENCY, freq |-> 1, lnb |-> 2],
        [type |-> REMOTE.SET_GAIN, name |-> <<1>>, value |-> 2],
        [type |-> REMOTE.SET_ANTENNA, antenna |-> NullStr],
        [type |-> REMOTE.SET_BANDWIDTH, bandwidth |-> 1],
        [type |-> REMOTE.SET_PPM, ppm |-> 1],
        [type |-> REMOTE.SET_DC_REMOVE, dc_remove |-> TRUE],
        [type |-> REMOTE.SET_IQ_REVERSE, iq_reverse |-> FALSE],
        [type |-> REMOTE.SET_AGC, agc |-> TRUE],
        [type |-> REMOTE.FORCE_EOS], [type |-> REMOTE.REQ_HALT],
        [type |-> REMOTE.AUTH_REJECTED], [type |-> REMOTE.STARTUP_ERROR],
        [type |-> REMOTE.SET_SWEEP_STRATEGY, sweep_strategy |-> 1],
        [type |-> REMOTE.SET_SPECTRUM_PARTITIONING, spectrum_partitioning |-> 0],
        [type |-> REMOTE.SET_HOP_RANGE, min |-> 1, max |-> 2],
        [type |-> REMOTE.SET_HOP_RANGE, min |-> 2, max |-> 2],
        [type |-> REMOTE.SET_BUFFERING_SIZE, buffering_size |-> Byte^4 - 1]}}

Hello == [server_name |-> <<1>>, version_major |-> 0, version_minor |-> 8,
          auth_mode |-> 1, enc_type |-> 0, sha256buf |-> <<3, 4>>, flags |-> 0]
Hellos == {[what |-> "hello", v |-> h] : h \in
            {Hello,
             [Hello EXCEPT !.flags = 1] @@ [multicast_addr |-> Byte^4 - 1,
                                            multicast_port |-> Byte^2 - 1]}
              \union With(Hello, {"version_minor"}, N8)}

Profile == [label |-> <<1>>, interface |-> Interfaces.remote, type |-> SourceTypes.sdr,
            freq |-> 2, lnb_freq |-> 3, bandwidth |-> 4, iq_balance |-> TRUE,
            dc_remove |-> FALSE, ppm |-> 5, start_sec |-> 6, start_usec |-> 7,
            samp_rate |-> 8, average |-> 24, loop |-> TRUE, antenna |-> NullStr,
            channel |-> 9, device |-> "some", desc |-> <<2>>, driver |-> <<3>>,
            host |-> <<4>>, port |-> Byte^2 - 1,
            gain_list |-> << [name |-> <<5>>, min |-> 1, max |-> 2, step |-> 3,
                              def |-> 4, val |-> 5] >>]
Profiles == {[what |-> "profile", v |-> p] : p \in
              {Profile, [Profile EXCEPT !.gain_list = <<>>, !.label = NullStr],
               [Profile EXCEPT !.type = SourceTypes.file],
               [Profile EXCEPT !.interface = Interfaces.local],
               [Profile EXCEPT !.device = NoDevice]}}

MCPDUs == Calls \union Hellos \union Profiles

\* Configurations one after the other, the second read with what the first
\* registered, and source information followed by what updates it.
MCPairs ==
  LET msg(m) == Call([type |-> REMOTE.MESSAGE, msg |-> m])
      perms  == Call([type |-> REMOTE.SOURCE_INFO,
                      source_info |-> Untyped([Info EXCEPT !.permissions = 24])])
  IN {<<msg(m), msg(n)>> : m \in SetConfigs, n \in SetConfigs \union {Open}}
       \union {<<perms, msg(Info)>>, <<perms, msg(Psd)>>,
               <<msg(Psd), Call([type |-> REMOTE.FORCE_EOS])>>}

MCPieces == {5}

\* --- profiles ----------------------------------------------------------------
\* Two devices: one that can be plugged in two variants, which differ in
\* their gains, and one that is only there sometimes, with a rate it should
\* not have, or unable to list its gains.
Radio == [driver |-> <<30>>, label |-> <<31>>]
Stick == [driver |-> Drivers.rtlsdr, label |-> <<32>>]
MCHardware == <<Radio, Stick>>
DevGain(n, min, max, def) == [name |-> <<n>>, min |-> min, max |-> max, def |-> def]
Offer(gains, rates) == [ranges |-> << <<1, 5>>, <<3, 9>> >>, antennas |-> << <<1>>, <<2>> >>,
                        gains |-> gains, rates |-> rates, listed |-> TRUE]
MCOffers == Radio :> [v \in 1..2 |->
                        Offer(IF v = 1 THEN <<DevGain(1, 0, 5, 2), DevGain(2, 1, 3, 1)>>
                                       ELSE <<DevGain(1, 3, 9, 3)>>, <<4, 8>>)]
         @@ Stick :> [v \in 1..2 |->
                        IF v = 1 THEN Offer(<<DevGain(1, 0, 9, 0)>>, <<1, 2>>)
                        ELSE [Offer(<<>>, <<1, 2>>) EXCEPT !.listed = FALSE]]
MCPlugged == {NoArgs, Radio :> 1, Radio :> 2 @@ Stick :> 2, Radio :> 1 @@ Stick :> 1}

\* An old file: "RAW", no gains, a class that is not a profile, and an
\* average that is refused.
Object(fields) == [class |-> "source_config", fields |-> fields]
MCOldFiles ==
  {NoFile,
   [whole |-> TRUE, objects |->
      <<Object([type |-> "FILE", format |-> "RAW", path |-> <<41>>, samp_rate |-> 2]),
        [class |-> "palette", fields |-> <<>>],
        Object([type |-> "SDR", average |-> 0]),
        Object([type |-> "SDR", label |-> <<42>>, sdr_args |-> Radio])>>]}
MCFiles == << 40 >> :> [there |-> TRUE, audio |-> TRUE, ext |-> "wav", frames |-> 8]
        @@ << 41 >> :> [there |-> TRUE, audio |-> FALSE, ext |-> "s16", frames |-> 8]
MCEdits == {<<"path", <<40>> >>, <<"path", <<41>> >>, <<"freq", 17>>, <<"loop", FALSE>>,
            <<"average", 0>>, <<"samp_rate", 3>>,
            <<"interface", Interfaces.remote>>, <<"antenna", <<2>> >>,
            <<"type", <<TYPE.FILE, FORMAT.RAW_SIGNED8>> >>}
MCGainEdits == {<< <<1>>, 7>>, << <<9>>, 1>>}

ServerGain(n, val) == [name |-> <<n>>, min |-> 1, max |-> 5, step |-> 1, def |-> 2, val |-> val]
Server(gains) == [Profile EXCEPT !.gain_list = gains]
MCAnnounced == {<<Server(<<ServerGain(1, 3), ServerGain(2, 4)>>), <<50>> >>,
                <<Server(<<ServerGain(1, 5)>>), <<50>> >>,
                <<Server(<<ServerGain(1, 4)>>), <<51>> >>}

Budget(e, p, d, s) == [edits |-> e, plugs |-> p, datagrams |-> d, saves |-> s]
MCBudgets == {Budget(3, 0, 0, 1), Budget(1, 1, 0, 1), Budget(1, 1, 2, 0)}

\* --- an inspector -------------------------------------------------------------
GcChanges == {"agc.enabled" :> FALSE @@ "agc.gain" :> 1}
ClockChanges == {"clock.running" :> TRUE, "clock.running" :> FALSE, "clock.baud" :> 2,
                 "clock.baud" :> 2 @@ "clock.running" :> TRUE @@ "mf.type" :> 1,
                 "clock.type" :> 1 @@ "clock.gain" :> 2 @@ "clock.phase" :> 3,
                 "mf.roll-off" :> 20}
PskChanges == {"afc.costas-order" :> 2 @@ "afc.offset" :> 5,
               "afc.costas-order" :> 1, "afc.loop-bw" :> 7,
               "equalizer.type" :> 1 @@ "equalizer.rate" :> 4, "equalizer.locked" :> TRUE}
FskChanges == {"fsk.bits-per-symbol" :> 2 @@ "fsk.phase" :> 1, "fsk.quad-demod" :> TRUE}
AskChanges == {"ask.bits-per-symbol" :> 2 @@ "ask.use-pll" :> FALSE @@ "ask.channel" :> 1,
               "ask.offset" :> 3 @@ "ask.loop-bw" :> 4, "amplitude-decision" :> TRUE}
AudioChanges == {"audio.demodulator" :> d : d \in 1..4}
                  \union {"audio.volume" :> 2 @@ "audio.cutoff" :> 9,
                          "audio.sample-rate" :> 8, "audio.sample-rate" :> 0,
                          "audio.squelch" :> TRUE @@ "audio.squelch-level" :> 3}

Scenario(cls, changes, foreign, bws, wms, size, n) ==
  [class |-> cls, changes |-> changes, foreign |-> foreign, bandwidths |-> bws,
   watermarks |-> wms, block |-> size, sets |-> n]
MCScenarios ==
  {Scenario("psk", ClockChanges \union PskChanges \union GcChanges, {}, {}, {}, 1, 2),
   Scenario("psk", ClockChanges, {}, {}, {}, 1, 3),
   Scenario("fsk", ClockChanges \union FskChanges, {"psk"}, {}, {}, 1, 2),
   Scenario("ask", ClockChanges \union AskChanges, {"fsk"}, {}, {}, 1, 2),
   Scenario("audio", AudioChanges \union GcChanges, {"ask"}, {9, 12}, {}, 1, 2),
   Scenario("fsk", {"clock.running" :> TRUE}, {}, {}, 0..3, 5, 1),
   Scenario("audio", {"audio.demodulator" :> d : d \in {0, 2}}, {}, {}, 0..3, 5, 2)}

PIdle ==
  /\ on = FALSE /\ hw = NoArgs /\ devices = <<>> /\ mine = NoConfig /\ configs = <<>>
  /\ context = <<>> /\ disk = <<>> /\ remotes = <<>> /\ saved = <<>> /\ heard = <<>>
  /\ fresh = FALSE /\ left = <<>>

NoInspector == [class |-> "none"]
IIdle ==
  /\ scenario = NoInspector /\ insp = NoInspector /\ parser = Quiet /\ pc = "none"
  /\ block = 0 /\ client = NoInspector /\ sets = 0 /\ asked = NoInspector
  /\ told_bw = NoBandwidth /\ spoilt = FALSE /\ unmatched = TRUE

\* Connections, the process of the profiles and the inspector are explored
\* each without the others.
WIdle == Init /\ threshold = 0 /\ receiver = "pdu"
MCInit == \/ Init /\ PIdle /\ IIdle
          \/ WIdle /\ Start /\ IIdle
          \/ WIdle /\ PIdle /\ IStart

MCNext == \/ ~on /\ scenario = NoInspector /\ Next /\ UNCHANGED <<pvars, ivars>>
          \/ PNext /\ UNCHANGED <<vars, ivars>>
          \/ scenario # NoInspector /\ IActions /\ UNCHANGED <<vars, pvars>>

MCSpec == MCInit /\ [][MCNext]_<<vars, pvars, ivars>>

=============================================================================
