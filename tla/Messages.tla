------------------------------ MODULE Messages ------------------------------
(***************************************************************************)
(* What the analyzers say to each other, and how it is written to and read *)
(* from a buffer: the messages of analyzer/msg.c, the source information   *)
(* and parameters of analyzer/analyzer.c, the configurations of util/cfg.c *)
(* and the remote calls of analyzer/impl/remote.c.                         *)
(*                                                                         *)
(* A structure is a record of its fields; strings are sequences of bytes.  *)
(* A serializer is the list of its SUSCAN_PACK lines, each <<type, field>>,*)
(* and a deserializer the list of its SUSCAN_UNPACK lines, taken from the  *)
(* two functions one by one: nothing makes the lists agree except the      *)
(* code.  A deserializer runs on a reader: the buffer, what is consumed,   *)
(* the fields read so far, whether every step succeeded and the            *)
(* descriptions of configurations the process has registered.              *)
(***************************************************************************)
EXTENDS Config

CONSTANT KnownClasses     \* names of estimators and spectrum sources

REMOTE ==
  [NONE |-> 0, AUTH_INFO |-> 1, SOURCE_INFO |-> 2, SET_FREQUENCY |-> 3,
   SET_GAIN |-> 4, SET_ANTENNA |-> 5, SET_PPM |-> 6, SET_BANDWIDTH |-> 7,
   SET_DC_REMOVE |-> 8, SET_IQ_REVERSE |-> 9, SET_AGC |-> 10,
   FORCE_EOS |-> 11, SET_SWEEP_STRATEGY |-> 12,
   SET_SPECTRUM_PARTITIONING |-> 13, SET_HOP_RANGE |-> 14,
   SET_BUFFERING_SIZE |-> 15, MESSAGE |-> 16, REQ_HALT |-> 17,
   AUTH_REJECTED |-> 18, STARTUP_ERROR |-> 19]

MSGTYPE ==
  [SOURCE_INFO |-> 0, SOURCE_INIT |-> 1, CHANNEL |-> 2, EOS |-> 3,
   READ_ERROR |-> 4, INTERNAL |-> 5, SAMPLES_LOST |-> 6, INSPECTOR |-> 7,
   PSD |-> 8, SAMPLES |-> 9, THROTTLE |-> 10, PARAMS |-> 11,
   GET_PARAMS |-> 12, SEEK |-> 13]

MSGKIND ==
  [NOOP |-> 0, OPEN |-> 1, SET_ID |-> 2, GET_CONFIG |-> 3, SET_CONFIG |-> 4,
   ESTIMATOR |-> 5, SPECTRUM |-> 6, RESET_EQUALIZER |-> 7, CLOSE |-> 8,
   SET_FREQ |-> 9, SET_BANDWIDTH |-> 10, SET_WATERMARK |-> 11,
   WRONG_HANDLE |-> 12, WRONG_OBJECT |-> 13, INVALID_ARGUMENT |-> 14,
   WRONG_KIND |-> 15, INVALID_CHANNEL |-> 16, SET_TLE |-> 17,
   ORBIT_REPORT |-> 18, INVALID_CORRECTION |-> 19]

\* The kinds that carry nothing but their header.
EmptyKinds ==
  {MSGKIND.NOOP, MSGKIND.SET_ID, MSGKIND.GET_CONFIG, MSGKIND.RESET_EQUALIZER,
   MSGKIND.CLOSE, MSGKIND.WRONG_HANDLE, MSGKIND.WRONG_OBJECT,
   MSGKIND.INVALID_ARGUMENT, MSGKIND.WRONG_KIND, MSGKIND.INVALID_CHANNEL,
   MSGKIND.INVALID_CORRECTION}

StatusTypes == {MSGTYPE.READ_ERROR, MSGTYPE.SOURCE_INIT, MSGTYPE.EOS}

----------------------------------------------------------------------------
(***************************************************************************)
(* Structures without conditions.                                          *)
(***************************************************************************)

status_msg_serialize   == << <<"int", "code">>, <<"str", "err_msg">> >>
status_msg_deserialize == << <<"int32", "code">>, <<"str", "err_msg">> >>

psd_msg_serialize ==
  << <<"int", "fc">>, <<"uint", "inspector_id">>,
     <<"uint", "timestamp_sec">>, <<"uint", "timestamp_usec">>,
     <<"uint", "rt_time_sec">>, <<"uint", "rt_time_usec">>,
     <<"bool", "looped">>, <<"float", "samp_rate">>,
     <<"float", "measured_samp_rate">>, <<"float", "N0">>,
     <<"singles", "psd_data">> >>
\* Mutant: the two times of a spectrum are read in the other order.
PsdTimesSwapped ==
  << <<"int64", "fc">>, <<"uint32", "inspector_id">>,
     <<"uint64", "rt_time_sec">>, <<"uint32", "rt_time_usec">>,
     <<"uint64", "timestamp_sec">>, <<"uint32", "timestamp_usec">>,
     <<"bool", "looped">>, <<"float", "samp_rate">>,
     <<"float", "measured_samp_rate">>, <<"float", "N0">> >>
psd_msg_deserialize_partial ==
  << <<"int64", "fc">>, <<"uint32", "inspector_id">>,
     <<"uint64", "timestamp_sec">>, <<"uint32", "timestamp_usec">>,
     <<"uint64", "rt_time_sec">>, <<"uint32", "rt_time_usec">>,
     <<"bool", "looped">>, <<"float", "samp_rate">>,
     <<"float", "measured_samp_rate">>, <<"float", "N0">> >>
psd_msg_deserialize ==
  psd_msg_deserialize_partial \o << <<"singles", "psd_data">> >>

sigutils_channel_serialize ==
  << <<"freq", "ch_fc">>, <<"freq", "f_lo">>, <<"freq", "f_hi">>,
     <<"float", "bw">>, <<"float", "snr">>, <<"float", "S0">>,
     <<"float", "ch_N0">>, <<"freq", "ft">>, <<"uint", "age">>,
     <<"uint", "present">> >>
sigutils_channel_deserialize ==
  << <<"freq", "ch_fc">>, <<"freq", "f_lo">>, <<"freq", "f_hi">>,
     <<"float", "bw">>, <<"float", "snr">>, <<"float", "S0">>,
     <<"float", "ch_N0">>, <<"freq", "ft">>, <<"uint32", "age">>,
     <<"uint32", "present">> >>

serialize_estimator ==
  << <<"uint", "estimator_id">>, <<"bool", "enabled">>, <<"float", "value">> >>
deserialize_estimator ==
  << <<"uint32", "estimator_id">>, <<"bool", "enabled">>, <<"float", "value">> >>

serialize_spectrum ==
  << <<"uint", "spectsrc_id">>, <<"freq", "fc">>, <<"float", "N0">>,
     <<"uint", "samp_rate">>, <<"singles", "spectrum_data">> >>
deserialize_spectrum ==
  << <<"uint32", "spectsrc_id">>, <<"freq", "fc">>, <<"float", "N0">>,
     <<"uint64", "samp_rate">>, <<"singles", "spectrum_data">> >>

serialize_set_freq         == << <<"freq", "ch_fc">>, <<"freq", "ft">> >>
deserialize_set_freq       == << <<"freq", "ch_fc">>, <<"freq", "ft">> >>
serialize_set_bandwidth    == << <<"float", "bw">> >>
deserialize_set_bandwidth  == << <<"float", "bw">> >>
serialize_set_watermark    == << <<"uint", "watermark">> >>
deserialize_set_watermark  == << <<"uint64", "watermark">> >>

\* The orbit of a SET_TLE message, present when tle_enable is.
serialize_tle_orbit ==
  << <<"str", "name">>, <<"int", "ep_year">>, <<"double", "ep_day">>,
     <<"double", "rev">>, <<"double", "drevdt">>, <<"double", "d2revdt2">>,
     <<"double", "bstar">>, <<"double", "eqinc">>, <<"double", "ecc">>,
     <<"double", "mnan">>, <<"double", "argp">>, <<"double", "ascn">>,
     <<"double", "smjaxs">>, <<"int", "norb">>, <<"int", "satno">> >>
deserialize_tle_orbit ==
  << <<"str", "name">>, <<"int32", "ep_year">>, <<"double", "ep_day">>,
     <<"double", "rev">>, <<"double", "drevdt">>, <<"double", "d2revdt2">>,
     <<"double", "bstar">>, <<"double", "eqinc">>, <<"double", "ecc">>,
     <<"double", "mnan">>, <<"double", "argp">>, <<"double", "ascn">>,
     <<"double", "smjaxs">>, <<"int64", "norb">>, <<"int32", "satno">> >>

serialize_orbit_report ==
  << <<"uint", "rx_time_sec">>, <<"uint", "rx_time_usec">>,
     <<"double", "azimuth">>, <<"double", "elevation">>,
     <<"double", "distance">>, <<"float", "freq_corr">>,
     <<"double", "vlos_vel">> >>
deserialize_orbit_report ==
  << <<"uint64", "rx_time_sec">>, <<"uint32", "rx_time_usec">>,
     <<"double", "azimuth">>, <<"double", "elevation">>,
     <<"double", "distance">>, <<"float", "freq_corr">>,
     <<"double", "vlos_vel">> >>

sample_batch_msg_serialize   == << <<"int", "inspector_id">>, <<"complex", "samples">> >>
sample_batch_msg_deserialize == << <<"uint32", "inspector_id">>, <<"complex", "samples">> >>

throttle_msg_serialize   == << <<"uint", "samp_rate">> >>
throttle_msg_deserialize == << <<"uint64", "samp_rate">> >>

seek_msg_serialize   == << <<"uint", "position_sec">>, <<"uint", "position_usec">> >>
seek_msg_deserialize == << <<"uint64", "position_sec">>, <<"uint32", "position_usec">> >>

gain_info_serialize ==
  << <<"str", "name">>, <<"float", "min">>, <<"float", "max">>,
     <<"float", "step">>, <<"float", "value">> >>
gain_info_deserialize ==
  << <<"str", "name">>, <<"float", "min">>, <<"float", "max">>,
     <<"float", "step">>, <<"float", "value">> >>

params_serialize ==
  << <<"int", "mode">>, <<"int", "window">>, <<"uint", "window_size">>,
     <<"float", "det_fc">>, <<"float", "alpha">>, <<"uint", "decimation">>,
     <<"uint", "samp_rate">>, <<"float", "channel_update_int">>,
     <<"float", "psd_update_int">>, <<"freq", "min_freq">>,
     <<"freq", "max_freq">> >>
params_deserialize ==
  << <<"int32", "mode">>, <<"int32", "window">>, <<"uint64", "window_size">>,
     <<"float", "det_fc">>, <<"float", "alpha">>, <<"uint64", "decimation">>,
     <<"uint64", "samp_rate">>, <<"float", "channel_update_int">>,
     <<"float", "psd_update_int">>, <<"freq", "min_freq">>,
     <<"freq", "max_freq">> >>

----------------------------------------------------------------------------
(***************************************************************************)
(* Structures with conditions, lists or other structures in them.          *)
(***************************************************************************)

PackMany(list, fields) ==
  FlattenSeq([i \in DOMAIN list |-> Pack(list[i], fields)])

PackStrings(list) == FlattenSeq([i \in DOMAIN list |-> cbor_pack_str(list[i])])

UnpackString(s) == Unpack(s, << <<"str", "elem">> >>)

\* A nested structure, read by Read into the field of that name.
Nested(s, Read(_), field) ==
  ReadMore(s, LAMBDA r :
    Applied(LAMBDA q : [q EXCEPT !.m = (field :> @) @@ r.m], Read([r EXCEPT !.m = <<>>])))

ListOf(s, n, Step(_), field) ==
  IF n.ok THEN UnpackMany([s EXCEPT !.at = n.at], n.v, Step, field) ELSE Fails(s)

\* The list announced by a count that unpacker Count reads.
UnpackList(s, Count(_, _), Step(_), field) ==
  ReadMore(s, LAMBDA r : Applied(LAMBDA n : ListOf(r, n, Step, field), Count(r.b, r.at)))

\* --- suscan_analyzer_source_info ---------------------------------------
source_info_head ==
  << <<"uint", "permissions">>, <<"uint", "source_samp_rate">>,
     <<"uint", "effective_samp_rate">>, <<"float", "measured_samp_rate">>,
     <<"freq", "frequency">>, <<"freq", "freq_min">>, <<"freq", "freq_max">>,
     <<"freq", "lnb">>, <<"float", "bandwidth">>, <<"float", "ppm">>,
     <<"str", "antenna">>, <<"bool", "dc_remove">>, <<"bool", "iq_reverse">>,
     <<"bool", "agc">>, <<"bool", "have_qth">> >>
qth_fields    == << <<"double", "lat">>, <<"double", "lon">>, <<"double", "height">> >>
source_times  == << <<"uint", "start_sec">>, <<"uint", "start_usec">>,
                    <<"uint", "end_sec">>, <<"uint", "end_usec">> >>

source_info_serialize(self) ==
  Pack(self, source_info_head)
    \o (IF self.have_qth THEN Pack(self, qth_fields) ELSE <<>>)
    \o Pack(self, << <<"uint", "time_sec">>, <<"uint", "time_usec">>,
                     <<"bool", "seekable">> >>)
    \o (IF self.seekable THEN Pack(self, source_times) ELSE <<>>)
    \o cbor_pack_map_start(Len(self.gain_list))
    \o PackMany(self.gain_list, gain_info_serialize)
    \o cbor_pack_map_start(Len(self.antenna_list))
    \o PackStrings(self.antenna_list)

source_info_deserialize_head ==
  << <<"uint64", "permissions">>, <<"uint64", "source_samp_rate">>,
     <<"uint64", "effective_samp_rate">>, <<"float", "measured_samp_rate">>,
     <<"freq", "frequency">>, <<"freq", "freq_min">>, <<"freq", "freq_max">>,
     <<"freq", "lnb">>, <<"float", "bandwidth">>, <<"float", "ppm">>,
     <<"str", "antenna">>, <<"bool", "dc_remove">>, <<"bool", "iq_reverse">>,
     <<"bool", "agc">>, <<"bool", "have_qth">> >>

source_info_deserialize_time(m) ==
  (IF m.have_qth THEN qth_fields ELSE <<>>)
    \o << <<"uint64", "time_sec">>, <<"uint32", "time_usec">>, <<"bool", "seekable">> >>

source_info_deserialize_seek(m) ==
  IF m.seekable THEN << <<"uint64", "start_sec">>, <<"uint32", "start_usec">>,
                        <<"uint64", "end_sec">>, <<"uint32", "end_usec">> >>
                ELSE <<>>

UnpackGain(s) == Nested(s, LAMBDA r : Unpack(r, gain_info_deserialize), "elem")

source_info_deserialize(s) ==
  UnpackList(
    UnpackList(
      UnpackMore(UnpackMore(Unpack(s, source_info_deserialize_head),
                            source_info_deserialize_time),
                 source_info_deserialize_seek),
      cbor_unpack_map_start, UnpackGain, "gain_list"),
    cbor_unpack_map_start, UnpackString, "antenna_list")

\* The copy a client keeps of the information it receives: the location of
\* the receiver is not among the fields copied.
source_info_init_copy(origin) ==
  [f \in (DOMAIN origin) \ {"lat", "lon", "height"} |->
     IF f = "have_qth" THEN FALSE ELSE origin[f]]

\* --- suscan_analyzer_inspector_msg -------------------------------------
NullConfig == <<>>          \* no configuration: a null pointer
NullConfigName == <<60, 62>>

serialize_open(self) ==
  cbor_pack_str(self.class_name)
    \o Pack(self, sigutils_channel_serialize)
    \o (IF self.config # NullConfig THEN suscan_config_serialize(self.config)
        ELSE cbor_pack_str(NullConfigName) \o cbor_pack_map_start(0))
    \o Pack(self, << <<"uint", "handle">>, <<"bool", "precise">>, <<"uint", "fs">>,
                     <<"float", "equiv_fs">>, <<"float", "bandwidth">>,
                     <<"float", "lo">> >>)
    \o cbor_pack_array_start(Len(self.estimator_list))
    \o PackStrings(self.estimator_list)
    \o cbor_pack_array_start(Len(self.spectsrc_list))
    \o PackStrings(self.spectsrc_list)

\* A class the receiver does not know becomes a null pointer.
UnpackClass(s) ==
  ReadMore(UnpackString(s),
           LAMBDA r : IF r.m.elem \in KnownClasses THEN r ELSE [r EXCEPT !.m.elem = NullStr])

deserialize_open(s) ==
  LET head == << <<"str", "class_name">> >> \o sigutils_channel_deserialize
      rest == << <<"uint32", "handle">>, <<"bool", "precise">>, <<"uint32", "fs">>,
                 <<"float", "equiv_fs">>, <<"float", "bandwidth">>, <<"float", "lo">> >>
  IN UnpackList(
       UnpackList(
         Unpack(ReadMore(Unpack(s, head), suscan_config_deserialize), rest),
         cbor_unpack_array_start, UnpackClass, "estimator_list"),
       cbor_unpack_array_start, UnpackClass, "spectsrc_list")

serialize_set_tle(self) ==
  cbor_pack_bool(self.tle_enable)
    \o IF self.tle_enable THEN Pack(self, serialize_tle_orbit) ELSE <<>>

deserialize_set_tle(s) ==
  UnpackMore(Unpack(s, << <<"bool", "tle_enable">> >>),
             LAMBDA m : IF m.tle_enable THEN deserialize_tle_orbit ELSE <<>>)

inspector_head ==
  << <<"int", "kind">>, <<"int", "inspector_id">>, <<"int", "req_id">>,
     <<"int", "handle">>, <<"int", "status">>, <<"uint", "rt_time_sec">>,
     <<"uint", "rt_time_usec">> >>

inspector_msg_serialize(self) ==
  LET k == self.kind
  IN Pack(self, inspector_head)
       \o CASE k = MSGKIND.OPEN       -> serialize_open(self)
            [] k = MSGKIND.SET_CONFIG -> suscan_config_serialize(self.config)
            [] k = MSGKIND.SET_TLE    -> serialize_set_tle(self)
            [] k \in EmptyKinds       -> <<>>
            [] OTHER ->
                 Pack(self, CASE k = MSGKIND.ESTIMATOR     -> serialize_estimator
                              [] k = MSGKIND.SPECTRUM      -> serialize_spectrum
                              [] k = MSGKIND.SET_FREQ      -> serialize_set_freq
                              [] k = MSGKIND.SET_BANDWIDTH -> serialize_set_bandwidth
                              [] k = MSGKIND.SET_WATERMARK -> serialize_set_watermark
                              [] k = MSGKIND.ORBIT_REPORT  -> serialize_orbit_report)

FieldKinds == {MSGKIND.ESTIMATOR, MSGKIND.SPECTRUM, MSGKIND.SET_FREQ, MSGKIND.SET_BANDWIDTH,
               MSGKIND.SET_WATERMARK, MSGKIND.ORBIT_REPORT}

\* What follows the head of the kinds that have nothing but fields.
deserialize_kind(k) ==
  CASE k = MSGKIND.ESTIMATOR     -> deserialize_estimator
    [] k = MSGKIND.SPECTRUM      -> deserialize_spectrum
    [] k = MSGKIND.SET_FREQ      -> deserialize_set_freq
    [] k = MSGKIND.SET_BANDWIDTH -> deserialize_set_bandwidth
    [] k = MSGKIND.SET_WATERMARK -> deserialize_set_watermark
    [] k = MSGKIND.ORBIT_REPORT  -> deserialize_orbit_report
    [] OTHER                     -> <<>>

inspector_deserialize_head ==
  << <<"uint32", "kind">>, <<"uint32", "inspector_id">>, <<"uint32", "req_id">>,
     <<"uint32", "handle">>, <<"int32", "status">>, <<"uint64", "rt_time_sec">>,
     <<"uint32", "rt_time_usec">> >>

\* A kind that is not known is refused.
inspector_msg_deserialize(s) ==
  ReadMore(Unpack(s, inspector_deserialize_head), LAMBDA r :
    CASE r.m.kind = MSGKIND.OPEN       -> deserialize_open(r)
      [] r.m.kind = MSGKIND.SET_CONFIG -> suscan_config_deserialize(r)
      [] r.m.kind = MSGKIND.SET_TLE    -> deserialize_set_tle(r)
      [] r.m.kind \in FieldKinds \union EmptyKinds -> Unpack(r, deserialize_kind(r.m.kind))
      [] OTHER                         -> Fails(r))

----------------------------------------------------------------------------
(***************************************************************************)
(* Messages.  Lists of channels cannot be sent; INTERNAL and SAMPLES_LOST  *)
(* are written as their type alone, which the receiver refuses.            *)
(***************************************************************************)

CanSerialize(m) == m.type # MSGTYPE.CHANNEL

msg_serialize(self) ==
  LET t == self.type
  IN cbor_pack_uint(t)
       \o CASE t = MSGTYPE.SOURCE_INFO -> source_info_serialize(self)
            [] t = MSGTYPE.INSPECTOR   -> inspector_msg_serialize(self)
            [] OTHER ->
                 Pack(self, CASE t \in StatusTypes     -> status_msg_serialize
                              [] t = MSGTYPE.PSD      -> psd_msg_serialize
                              [] t = MSGTYPE.SAMPLES  -> sample_batch_msg_serialize
                              [] t = MSGTYPE.THROTTLE -> throttle_msg_serialize
                              [] t = MSGTYPE.PARAMS   -> params_serialize
                              [] t = MSGTYPE.SEEK     -> seek_msg_serialize
                              [] OTHER                -> <<>>)

msg_deserialize_partial(s) == Unpack(s, << <<"uint32", "type">> >>)

\* What follows the type of the messages that have nothing but fields.
deserialize_type(t) ==
  CASE t \in StatusTypes     -> status_msg_deserialize
    [] t = MSGTYPE.PSD      -> psd_msg_deserialize
    [] t = MSGTYPE.SAMPLES  -> sample_batch_msg_deserialize
    [] t = MSGTYPE.THROTTLE -> throttle_msg_deserialize
    [] t = MSGTYPE.PARAMS   -> params_deserialize
    [] t = MSGTYPE.SEEK     -> seek_msg_deserialize
    [] OTHER                -> <<>>

\* The messages that a peer may send and that have nothing but fields.
FieldTypes == StatusTypes \union
  {MSGTYPE.PSD, MSGTYPE.SAMPLES, MSGTYPE.THROTTLE, MSGTYPE.PARAMS, MSGTYPE.SEEK,
   MSGTYPE.GET_PARAMS}

msg_deserialize(s) ==
  ReadMore(msg_deserialize_partial(s), LAMBDA r :
    CASE r.m.type = MSGTYPE.SOURCE_INFO -> source_info_deserialize(r)
      [] r.m.type = MSGTYPE.INSPECTOR   -> inspector_msg_deserialize(r)
      [] r.m.type \in FieldTypes        -> Unpack(r, deserialize_type(r.m.type))
      [] OTHER                          -> Fails(r))

=============================================================================
