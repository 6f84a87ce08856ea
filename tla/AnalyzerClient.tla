--------------------------- MODULE AnalyzerClient ---------------------------
(***************************************************************************)
(* What a program asks of an analyzer (analyzer/analyzer.c, from           *)
(* suscan_analyzer_set_freq on, and analyzer/client.c), whatever the       *)
(* interface behind it: settings, for most of which the source must grant  *)
(* a permission, and messages.  A call is                                  *)
(*   [perm |-> the permission it tests ("" for none), call |-> what the    *)
(*    interface is asked]                                                  *)
(* and what the interface is asked is named as the remote call it becomes  *)
(* when the analyzer is a remote one (analyzer/impl/remote.c).             *)
(***************************************************************************)
EXTENDS Integers, Sequences

CHECK_PERMISSION(perm, call) == [perm |-> perm, call |-> call]
Unchecked(call) == [perm |-> "", call |-> call]

----------------------------------------------------------------------------
(***************************************************************************)
(* Settings, as a remote analyzer fills its call with them.                *)
(***************************************************************************)
suscan_remote_analyzer_set_frequency(freq, lnb) ==
  [type |-> "SET_FREQUENCY", freq |-> freq, lnb |-> lnb]
suscan_remote_analyzer_set_gain(name, value) ==
  [type |-> "SET_GAIN", name |-> name, value |-> value]
suscan_remote_analyzer_set_antenna(name) == [type |-> "SET_ANTENNA", antenna |-> name]
suscan_remote_analyzer_set_bandwidth(value) == [type |-> "SET_BANDWIDTH", bandwidth |-> value]
suscan_remote_analyzer_set_ppm(value) == [type |-> "SET_PPM", ppm |-> value]
suscan_remote_analyzer_set_dc_remove(remove) == [type |-> "SET_DC_REMOVE", dc_remove |-> remove]
suscan_remote_analyzer_set_iq_reverse(reverse) ==
  [type |-> "SET_IQ_REVERSE", iq_reverse |-> reverse]
suscan_remote_analyzer_set_agc(set) == [type |-> "SET_AGC", agc |-> set]
suscan_remote_analyzer_set_sweep_strategy(s) ==
  [type |-> "SET_SWEEP_STRATEGY", sweep_strategy |-> s]
suscan_remote_analyzer_set_spectrum_partitioning(p) ==
  [type |-> "SET_SPECTRUM_PARTITIONING", spectrum_partitioning |-> p]
suscan_remote_analyzer_set_hop_range(min, max) ==
  [type |-> "SET_HOP_RANGE", min |-> min, max |-> max]
suscan_remote_analyzer_set_buffering_size(size) ==
  [type |-> "SET_BUFFERING_SIZE", buffering_size |-> size]
suscan_remote_analyzer_force_eos == [type |-> "FORCE_EOS"]
suscan_remote_analyzer_req_halt == [type |-> "REQ_HALT"]
suscan_remote_analyzer_write(type, msg) == [type |-> "MESSAGE", msg_type |-> type, msg |-> msg]

\* Only a local analyzer has these: they do not wait for the analyzer thread.
suscan_local_analyzer_set_inspector_frequency(handle, freq) ==
  [type |-> "INSPECTOR_FREQUENCY", handle |-> handle, value |-> freq]
suscan_local_analyzer_set_inspector_bandwidth(handle, bw) ==
  [type |-> "INSPECTOR_BANDWIDTH", handle |-> handle, value |-> bw]

\* The wrappers that programs call.
suscan_analyzer_set_freq(freq, lnb) ==
  CHECK_PERMISSION("SET_FREQ", suscan_remote_analyzer_set_frequency(freq, lnb))
suscan_analyzer_set_gain(name, value) ==
  CHECK_PERMISSION("SET_GAIN", suscan_remote_analyzer_set_gain(name, value))
suscan_analyzer_set_antenna(name) ==
  CHECK_PERMISSION("SET_ANTENNA", suscan_remote_analyzer_set_antenna(name))
suscan_analyzer_set_bw(bw) ==
  CHECK_PERMISSION("SET_BW", suscan_remote_analyzer_set_bandwidth(bw))
suscan_analyzer_set_ppm(ppm) == CHECK_PERMISSION("SET_PPM", suscan_remote_analyzer_set_ppm(ppm))
suscan_analyzer_set_dc_remove(val) ==
  CHECK_PERMISSION("SET_DC_REMOVE", suscan_remote_analyzer_set_dc_remove(val))
suscan_analyzer_set_iq_reverse(val) ==
  CHECK_PERMISSION("SET_IQ_REVERSE", suscan_remote_analyzer_set_iq_reverse(val))
suscan_analyzer_set_agc(val) == CHECK_PERMISSION("SET_AGC", suscan_remote_analyzer_set_agc(val))
suscan_analyzer_set_sweep_stratrgy(s) == Unchecked(suscan_remote_analyzer_set_sweep_strategy(s))
suscan_analyzer_set_spectrum_partitioning(p) ==
  Unchecked(suscan_remote_analyzer_set_spectrum_partitioning(p))
suscan_analyzer_set_hop_range(min, max) ==
  Unchecked(suscan_remote_analyzer_set_hop_range(min, max))
suscan_analyzer_set_buffering_size(size) ==
  Unchecked(suscan_remote_analyzer_set_buffering_size(size))
suscan_analyzer_set_inspector_freq_overridable(handle, freq) ==
  Unchecked(suscan_local_analyzer_set_inspector_frequency(handle, freq))
suscan_analyzer_set_inspector_bandwidth_overridable(handle, bw) ==
  Unchecked(suscan_local_analyzer_set_inspector_bandwidth(handle, bw))
suscan_analyzer_force_eos == Unchecked(suscan_remote_analyzer_force_eos)
suscan_analyzer_write(type, msg) == Unchecked(suscan_remote_analyzer_write(type, msg))

----------------------------------------------------------------------------
(***************************************************************************)
(* Messages to the analyzer.  A setting of the analyzer itself carries no  *)
(* request identifier: the one it is given is dropped.                     *)
(***************************************************************************)
suscan_analyzer_set_params_async(params, req_id) ==
  suscan_analyzer_write("PARAMS", [params |-> params])
suscan_analyzer_set_throttle_async(samp_rate, req_id) ==
  suscan_analyzer_write("THROTTLE", [samp_rate |-> samp_rate])
suscan_analyzer_seek_async(pos, req_id) ==
  suscan_analyzer_write("SEEK", [position |-> pos])

\* suscan_analyzer_inspector_msg_new and the fields a request fills: its
\* handle and what it is about.
Request(kind, handle, req_id, args) ==
  suscan_analyzer_write("INSPECTOR",
    [kind |-> kind, req_id |-> req_id, handle |-> handle, args |-> args])

suscan_analyzer_open_ex_async(class, channel, precise, parent, req_id) ==
  Request("OPEN", parent, req_id, [class_name |-> class, channel |-> channel, precise |-> precise])
suscan_analyzer_open_async(class, channel, req_id) ==
  suscan_analyzer_open_ex_async(class, channel, FALSE, -1, req_id)
suscan_analyzer_close_async(handle, req_id) == Request("CLOSE", handle, req_id, <<>>)
suscan_analyzer_set_inspector_bandwidth_async(handle, bw, req_id) ==
  Request("SET_BANDWIDTH", handle, req_id, [bw |-> bw])
suscan_analyzer_set_inspector_freq_async(handle, freq, req_id) ==
  Request("SET_FREQ", handle, req_id, [fc |-> freq, ft |-> 0])
suscan_analyzer_set_inspector_config_async(handle, config, req_id) ==
  Request("SET_CONFIG", handle, req_id, [config |-> config])
suscan_analyzer_set_inspector_id_async(handle, inspector_id, req_id) ==
  Request("SET_ID", handle, req_id, [inspector_id |-> inspector_id])
suscan_analyzer_inspector_estimator_cmd_async(handle, estimator_id, enabled, req_id) ==
  Request("ESTIMATOR", handle, req_id, [estimator_id |-> estimator_id, enabled |-> enabled])
suscan_analyzer_inspector_set_spectrum_async(handle, spectsrc_id, req_id) ==
  Request("SPECTRUM", handle, req_id, [spectsrc_id |-> spectsrc_id])
suscan_analyzer_inspector_set_tle_async(handle, orbit, req_id) ==
  Request("SET_TLE", handle, req_id, [tle_enable |-> orbit # <<>>, tle_orbit |-> orbit])
suscan_analyzer_reset_equalizer_async(handle, req_id) ==
  Request("RESET_EQUALIZER", handle, req_id, <<>>)
suscan_analyzer_set_inspector_watermark_async(handle, watermark, req_id) ==
  Request("SET_WATERMARK", handle, req_id, [watermark |-> watermark])
=============================================================================
