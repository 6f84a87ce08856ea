------------------------------ MODULE MCLocal ------------------------------
(***************************************************************************)
(* Programs that open inspectors, one inside of the other, and close them, *)
(* with handles that are right, wrong or those of closed ones; programs    *)
(* that change a sweep; and one that asks for what only channel mode has.  *)
(***************************************************************************)
EXTENDS Local

MCClasses == [psk |-> [subcarriers |-> TRUE, estimators |-> 1, spectsrcs |-> 1],
              audio |-> [subcarriers |-> FALSE, estimators |-> 0, spectsrcs |-> 0]]

Channel(calls) == [mode |-> "CHANNEL", program |-> calls]
WideBand(calls) == [mode |-> "WIDE", program |-> calls]

\* 1 is a handle that the first inspector may get.
OpenTwo(class) ==
  <<suscan_analyzer_open_async("psk", "valid", 1),
    suscan_analyzer_open_ex_async(class, "valid", FALSE, 1, 2)>>

\* Every setting of an inspector, some of them out of range.
Settings ==
  <<suscan_analyzer_open_async("psk", "valid", 1),
    suscan_analyzer_set_inspector_id_async(1, 5, 2),
    suscan_analyzer_inspector_estimator_cmd_async(1, 0, TRUE, 3),
    suscan_analyzer_inspector_set_spectrum_async(1, 1, 4),
    suscan_analyzer_set_inspector_config_async(1, "other", 5),
    Request("GET_CONFIG", 1, 6, <<>>),
    suscan_analyzer_inspector_set_tle_async(1, <<"orbit">>, 7),
    suscan_analyzer_reset_equalizer_async(1, 8),
    suscan_analyzer_set_inspector_watermark_async(1, 3, 9),
    suscan_analyzer_set_inspector_bandwidth_async(1, 2, 10),
    Request("NOOP", 1, 11, <<>>), Request("UNKNOWN", 1, 12, <<>>),
    suscan_analyzer_set_inspector_config_async(2, "other", 13),
    suscan_analyzer_close_async(1, 14)>>

\* What is not for an inspector.
Others ==
  <<suscan_analyzer_set_throttle_async(2, 0), suscan_analyzer_set_throttle_async(0, 0),
    suscan_analyzer_seek_async(0, 0), suscan_analyzer_set_params_async("params", 0),
    suscan_analyzer_write("GET_PARAMS", <<>>),
    suscan_analyzer_set_freq(1, 0), suscan_analyzer_set_iq_reverse(TRUE)>>

MCSetups ==
  { Channel(OpenTwo("psk") \o
      <<suscan_analyzer_open_ex_async("audio", "valid", FALSE, 2, 3),
        suscan_analyzer_close_async(1, 4),
        suscan_analyzer_set_inspector_freq_overridable(1, 7)>>),
    Channel(<<suscan_analyzer_open_async("audio", "valid", 1),
        suscan_analyzer_open_ex_async("audio", "valid", FALSE, 1, 2),
        suscan_analyzer_open_async("audio", "invalid", 3)>>),
    Channel(Settings), Channel(Others), WideBand(Others), WideBand(Tail(Tail(Others))),
    WideBand(Tail(Tail(Tail(Others)))),
    WideBand(<<suscan_analyzer_set_sweep_stratrgy("PROGRESSIVE"),
               suscan_analyzer_set_hop_range(2, 6),
               suscan_analyzer_set_buffering_size(1)>>),
    WideBand(<<suscan_analyzer_set_hop_range(2, 1),
               suscan_analyzer_set_spectrum_partitioning("CONTINUOUS"),
               suscan_analyzer_set_hop_range(1, 1)>>) }

MCInitialSweep ==
  [strategy |-> "STOCHASTIC", partitioning |-> "DISCRETE", min |-> 0, max |-> 8, fft_min |-> 0]
=============================================================================
