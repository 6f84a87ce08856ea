----------------------------- MODULE RemoteCall -----------------------------
(***************************************************************************)
(* What travels between a device server and a remote analyzer              *)
(* (analyzer/impl/remote.c): the server's hello, the client's              *)
(* authentication and the remote calls, messages among them; and the       *)
(* source profile a server announces to its network (analyzer/source.c).   *)
(***************************************************************************)
EXTENDS Messages

CONSTANT SHA256_BLOCK_SIZE        \* bytes of a salt or a token (32)

ASSUME BlockAssumption == SHA256_BLOCK_SIZE \in Nat /\ SHA256_BLOCK_SIZE > 0

MULTICAST(flags) == flags % 2 = 1

multicast_info_serialize   == << <<"uint", "multicast_addr">>, <<"uint", "multicast_port">> >>
multicast_info_deserialize == << <<"uint32", "multicast_addr">>, <<"uint16", "multicast_port">> >>

server_hello_serialize(self) ==
  Pack(self, << <<"str", "server_name">>, <<"uint", "version_major">>,
                <<"uint", "version_minor">>, <<"uint", "auth_mode">>,
                <<"uint", "enc_type">>, <<"blob", "sha256buf">>,
                <<"uint", "flags">> >>)
    \o IF MULTICAST(self.flags) THEN Pack(self, multicast_info_serialize) ELSE <<>>

server_hello_deserialize_head ==
  << <<"str", "server_name">>, <<"uint8", "version_major">>,
     <<"uint8", "version_minor">>, <<"uint8", "auth_mode">>,
     <<"uint8", "enc_type">>, <<"blob", "sha256buf">>, <<"uint32", "flags">> >>

server_hello_deserialize(s) ==
  UnpackMore(
    Check(Unpack(s, server_hello_deserialize_head),
          LAMBDA m : Len(m.sha256buf) = SHA256_BLOCK_SIZE),
    LAMBDA m : IF MULTICAST(m.flags) THEN multicast_info_deserialize ELSE <<>>)

client_auth_serialize ==
  << <<"str", "client_name">>, <<"uint", "version_major">>,
     <<"uint", "version_minor">>, <<"str", "user">>, <<"blob", "sha256buf">>,
     <<"uint", "flags">> >>

client_auth_deserialize(s) ==
  UnpackMore(
    Check(Unpack(s, << <<"str", "client_name">>, <<"uint8", "version_major">>,
                       <<"uint8", "version_minor">>, <<"str", "user">>,
                       <<"blob", "sha256buf">> >>),
          LAMBDA m : Len(m.sha256buf) = SHA256_BLOCK_SIZE),
    LAMBDA m : << <<"uint32", "flags">> >>)

----------------------------------------------------------------------------
(***************************************************************************)
(* Remote calls.                                                           *)
(***************************************************************************)

\* The calls that have nothing but fields, as they are written.
serialize_call(t) ==
  CASE t = REMOTE.SET_FREQUENCY      -> << <<"freq", "freq">>, <<"freq", "lnb">> >>
    [] t = REMOTE.SET_GAIN           -> << <<"str", "name">>, <<"float", "value">> >>
    [] t = REMOTE.SET_ANTENNA        -> << <<"str", "antenna">> >>
    [] t = REMOTE.SET_BANDWIDTH      -> << <<"float", "bandwidth">> >>
    [] t = REMOTE.SET_PPM            -> << <<"float", "ppm">> >>
    [] t = REMOTE.SET_DC_REMOVE      -> << <<"bool", "dc_remove">> >>
    [] t = REMOTE.SET_IQ_REVERSE     -> << <<"bool", "iq_reverse">> >>
    [] t = REMOTE.SET_AGC            -> << <<"bool", "agc">> >>
    [] t = REMOTE.SET_SWEEP_STRATEGY -> << <<"uint", "sweep_strategy">> >>
    [] t = REMOTE.SET_SPECTRUM_PARTITIONING -> << <<"uint", "spectrum_partitioning">> >>
    [] t = REMOTE.SET_HOP_RANGE      -> << <<"freq", "min">>, <<"freq", "max">> >>
    [] t = REMOTE.SET_BUFFERING_SIZE -> << <<"uint", "buffering_size">> >>
    [] OTHER                         -> <<>>

remote_call_serialize(self) ==
  LET t == self.type
  IN cbor_pack_uint(t)
       \o CASE t = REMOTE.AUTH_INFO   -> Pack(self.client_auth, client_auth_serialize)
            [] t = REMOTE.SOURCE_INFO -> source_info_serialize(self.source_info)
            [] t = REMOTE.MESSAGE     -> msg_serialize(self.msg)
            [] OTHER                  -> Pack(self, serialize_call(t))

remote_call_deserialize_partial(s) == Unpack(s, << <<"uint32", "type">> >>)

\* The same calls as they are read.
deserialize_call(t) ==
  CASE t = REMOTE.SET_FREQUENCY      -> << <<"freq", "freq">>, <<"freq", "lnb">> >>
    [] t = REMOTE.SET_GAIN           -> << <<"str", "name">>, <<"float", "value">> >>
    [] t = REMOTE.SET_ANTENNA        -> << <<"str", "antenna">> >>
    [] t = REMOTE.SET_BANDWIDTH      -> << <<"float", "bandwidth">> >>
    [] t = REMOTE.SET_PPM            -> << <<"float", "ppm">> >>
    [] t = REMOTE.SET_DC_REMOVE      -> << <<"bool", "dc_remove">> >>
    [] t = REMOTE.SET_IQ_REVERSE     -> << <<"bool", "iq_reverse">> >>
    [] t = REMOTE.SET_AGC            -> << <<"bool", "agc">> >>
    [] t = REMOTE.SET_SWEEP_STRATEGY -> << <<"uint32", "sweep_strategy">> >>
    [] t = REMOTE.SET_SPECTRUM_PARTITIONING -> << <<"uint32", "spectrum_partitioning">> >>
    [] t = REMOTE.SET_HOP_RANGE      -> << <<"freq", "min">>, <<"freq", "max">> >>
    [] t = REMOTE.SET_BUFFERING_SIZE -> << <<"uint32", "buffering_size">> >>
    [] OTHER                         -> <<>>

\* The two enumerations and the hop range are checked; a type that is not
\* known is accepted with nothing behind it.
ValidCall(m) ==
  CASE m.type = REMOTE.SET_SWEEP_STRATEGY        -> m.sweep_strategy < 2
    [] m.type = REMOTE.SET_SPECTRUM_PARTITIONING -> m.spectrum_partitioning < 2
    [] m.type = REMOTE.SET_HOP_RANGE             -> m.min < m.max
    [] OTHER                                     -> TRUE

remote_call_deserialize(s) ==
  ReadMore(remote_call_deserialize_partial(s), LAMBDA r :
    CASE r.m.type = REMOTE.AUTH_INFO   -> Nested(r, client_auth_deserialize, "client_auth")
      [] r.m.type = REMOTE.SOURCE_INFO -> Nested(r, source_info_deserialize, "source_info")
      [] r.m.type = REMOTE.MESSAGE     -> Nested(r, msg_deserialize, "msg")
      [] OTHER -> Check(Unpack(r, deserialize_call(r.m.type)), ValidCall))

----------------------------------------------------------------------------
(***************************************************************************)
(* Source profiles.  Without a device the port is written as a string and  *)
(* the gains are left out.                                                 *)
(***************************************************************************)

Interfaces == [local |-> <<1>>, remote |-> <<2>>]
SourceTypes == [file |-> <<3>>, sdr |-> <<4>>, unknown |-> <<5>>]
NoDevice == "none"

source_gain == << <<"str", "name">>, <<"float", "min">>, <<"float", "max">>,
                  <<"float", "step">>, <<"float", "def">>, <<"float", "val">> >>

source_config_serialize(self) ==
  Pack(self, << <<"str", "label">>, <<"str", "interface">>, <<"str", "type">>,
                <<"freq", "freq">>, <<"freq", "lnb_freq">>, <<"float", "bandwidth">>,
                <<"bool", "iq_balance">>, <<"bool", "dc_remove">>, <<"float", "ppm">>,
                <<"uint", "start_sec">>, <<"uint", "start_usec">>,
                <<"uint", "samp_rate">>, <<"uint", "average">>, <<"bool", "loop">>,
                <<"str", "antenna">>, <<"uint", "channel">> >>)
    \o IF self.device = NoDevice
         THEN cbor_pack_str(<<>>) \o cbor_pack_str(<<>>) \o cbor_pack_str(<<>>)
                \o cbor_pack_str(<<48>>)
         ELSE Pack(self, << <<"str", "desc">>, <<"str", "driver">>, <<"str", "host">>,
                            <<"uint", "port">> >>)
                \o cbor_pack_uint(Len(self.gain_list))
                \o PackMany(self.gain_list, source_gain)

\* The device of a profile with a driver is created; otherwise it is the
\* null device, which has neither gains nor a description.
source_config_deserialize_rest ==
  << <<"freq", "freq">>, <<"freq", "lnb_freq">>, <<"float", "bandwidth">>,
     <<"bool", "iq_balance">>, <<"bool", "dc_remove">>, <<"float", "ppm">>,
     <<"uint64", "start_sec">>, <<"uint32", "start_usec">>,
     <<"uint32", "samp_rate">>, <<"uint32", "average">>, <<"bool", "loop">>,
     <<"str", "antenna">>, <<"uint32", "channel">>, <<"str", "desc">>,
     <<"str", "driver">>, <<"str", "host">>, <<"uint16", "port">> >>

OfDevice(r, d) == [r EXCEPT !.m = ("device" :> d) @@ @]

\* The gains of the device that is created.
source_config_deserialize_gains(s) ==
  ReadMore(UnpackList(s, LAMBDA b, at : CborUnpack("uint32", b, at),
                      LAMBDA t : Nested(t, LAMBDA q : Unpack(q, source_gain), "elem"),
                      "gain_list"),
           LAMBDA g : OfDevice(g, "remote"))

source_config_deserialize_ex(s) ==
  LET iface(m) == m.interface = Interfaces.remote
      known(m) == m.type \in {SourceTypes.file, SourceTypes.sdr}
  IN ReadMore(
       Unpack(Check(Unpack(Check(Unpack(s, << <<"str", "label">>, <<"str", "interface">> >>),
                                 iface),
                           << <<"str", "type">> >>),
                    known),
              source_config_deserialize_rest),
       LAMBDA r : IF r.m.driver = <<>> THEN OfDevice(r, "null")
                    ELSE source_config_deserialize_gains(r))

=============================================================================
