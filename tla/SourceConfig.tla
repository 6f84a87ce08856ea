---------------------------- MODULE SourceConfig ----------------------------
(***************************************************************************)
(* Source profiles (analyzer/source.c): what a program does with one, and  *)
(* its three copies: the clone, the object that is saved on disk           *)
(* (util/object.c) and the datagram in which a device server announces it. *)
(* A profile points to a device of the list by its index.                  *)
(***************************************************************************)
EXTENDS Devices

CONSTANTS
  Files,       \* what is behind a path: whether it is there, audio, how long
  SEC          \* units of a second that struct timeval counts

TYPE   == [FILE |-> 0, SDR |-> 1]
FORMAT == [AUTO |-> 0, RAW_FLOAT32 |-> 1, WAV |-> 2, RAW_UNSIGNED8 |-> 3,
           RAW_SIGNED16 |-> 4, RAW_SIGNED8 |-> 5]
FALLBACK == FORMAT.RAW_FLOAT32

DEFAULTS == [name |-> <<20>>, freq |-> 4, samp_rate |-> 2, bandwidth |-> 2]

suscan_source_config_is_remote(c) == c.interface = Interfaces.remote

----------------------------------------------------------------------------
(***************************************************************************)
(* Gains: the visible ones are described by the device, the hidden ones    *)
(* are kept because somebody asked for them.                               *)
(***************************************************************************)

Named(list, name) == {k \in DOMAIN list : list[k].name = name}
FirstOf(S) == CHOOSE k \in S : \A j \in S : k <= j

suscan_source_gain_value_new(g, val) ==
  [name |-> g.name, val |-> CASE val < g.min -> g.min [] val > g.max -> g.max [] OTHER -> val]

suscan_source_config_clear_gains(c) == [c EXCEPT !.gains = <<>>, !.hidden = <<>>]

\* The list that has the gain, and its place there.
suscan_source_config_lookup_gain(c, name) ==
  CASE Named(c.gains, name)  # {} -> [list |-> "gains",  k |-> FirstOf(Named(c.gains, name))]
    [] Named(c.hidden, name) # {} -> [list |-> "hidden", k |-> FirstOf(Named(c.hidden, name))]
    [] OTHER -> [list |-> "none", k |-> 0]

\* The gain is added when it is not there: to the visible ones when the
\* device has it now.
suscan_source_config_assert_gain(c, devs, name, value) ==
  LET d    == devs[c.device]
      desc == suscan_source_device_lookup_gain_desc(d, name)
  IN CASE suscan_source_config_lookup_gain(c, name).list # "none" -> c
       [] desc # {} -> [c EXCEPT !.gains = Append(@,
                          suscan_source_gain_value_new(d.gains[FirstOf(desc)], value))]
       [] OTHER -> [c EXCEPT !.hidden = Append(@, [name |-> name, val |-> value])]

suscan_source_config_get_gain(c, name) ==
  LET at == suscan_source_config_lookup_gain(c, name)
  IN IF at.list = "none" THEN 0 ELSE c[at.list][at.k].val

\* The value is taken as it is, within the limits of the device or not.
suscan_source_config_set_gain(c, devs, name, value) ==
  LET n  == suscan_source_config_assert_gain(c, devs, name, value)
      at == suscan_source_config_lookup_gain(n, name)
  IN [n EXCEPT ![at.list][at.k].val = value]

suscan_source_config_walk_gains(c) == c.gains \o c.hidden

\* All of the device's descriptions, those of older epochs too.
suscan_source_config_set_gains_from_device(c, d) ==
  [suscan_source_config_clear_gains(c) EXCEPT
     !.gains = [k \in DOMAIN d.gains |->
                  suscan_source_gain_value_new(d.gains[k], d.gains[k].def)]]

suscan_source_config_set_device(c, devs, i) ==
  LET d == devs[i]
  IN [suscan_source_config_set_gains_from_device(c, d) EXCEPT
        !.args = d.args, !.interface = d.interface, !.device = i]

----------------------------------------------------------------------------
(***************************************************************************)
(* New profiles and their fields.                                          *)
(***************************************************************************)

suscan_source_config_new(devs, type, format) ==
  suscan_source_config_set_device(
    [type |-> type, format |-> format, label |-> NullStr, path |-> NullStr,
     antenna |-> NullStr, interface |-> Interfaces.local, freq |-> 0, lnb_freq |-> 0,
     bandwidth |-> 0, iq_balance |-> FALSE, dc_remove |-> TRUE, ppm |-> 0,
     start_time |-> 0, loop |-> TRUE, samp_rate |-> 0, average |-> 1,
     channel |-> 0, args |-> NoArgs, device |-> NULL_DEVICE, gains |-> <<>>,
     hidden |-> <<>>],
    devs, NULL_DEVICE)

suscan_source_config_set_label(c, label) == [c EXCEPT !.label = label]

suscan_source_config_get_label(c) == IF c.label = NullStr THEN <<19>> ELSE c.label

suscan_source_config_set_type_format(c, type, format) ==
  [c EXCEPT !.type = type, !.format = format]

\* freq, lnb_freq, bandwidth, iq_balance, dc_remove, loop.
suscan_source_config_set_value(c, field, value) == [c EXCEPT ![field] = value]

suscan_source_config_set_path(c, path) == [c EXCEPT !.path = path]

suscan_source_config_set_antenna(c, antenna) == [c EXCEPT !.antenna = antenna]

suscan_source_config_set_average(c, average) ==
  [ok |-> average >= 1, c |-> IF average < 1 THEN c ELSE [c EXCEPT !.average = average]]

suscan_source_config_set_interface(c, interface) ==
  [ok |-> interface \in {Interfaces.local, Interfaces.remote},
   c  |-> IF interface \in {Interfaces.local, Interfaces.remote}
            THEN [c EXCEPT !.interface = interface] ELSE c]

suscan_source_config_new_default(devs) ==
  LET c == suscan_source_config_set_label(
             suscan_source_config_new(devs, TYPE.SDR, FORMAT.AUTO), DEFAULTS.name)
  IN suscan_source_config_set_device(
       [c EXCEPT !.freq = DEFAULTS.freq, !.samp_rate = DEFAULTS.samp_rate,
                 !.bandwidth = DEFAULTS.bandwidth, !.dc_remove = TRUE],
       devs, suscan_source_device_find_first_sdr(devs))

\* Mutant: a gain that is there already keeps its value.
SetGainOnce(c, devs, name, value) ==
  LET n  == suscan_source_config_assert_gain(c, devs, name, value)
      at == suscan_source_config_lookup_gain(c, name)
  IN IF at.list = "none" THEN n ELSE c

CloneFirstValue(c, devs) ==
  LET new  == [suscan_source_config_new(devs, c.type, c.format) EXCEPT
                 !.device = c.device, !.interface = c.interface]
      gain == Reduce(LAMBDA n, g : SetGainOnce(n, devs, g.name, g.val),
                       new, suscan_source_config_walk_gains(c))
  IN [c EXCEPT !.gains = gain.gains, !.hidden = gain.hidden]

\* Gains are set by name, so that one that is there twice is copied once,
\* with its last value, and one that the device had in an older epoch is
\* hidden in the copy.  A local file has no arguments to copy.
suscan_source_config_clone(c, devs) ==
  LET new  == [suscan_source_config_new(devs, c.type, c.format) EXCEPT
                 !.device = c.device, !.interface = c.interface]
      gain == Reduce(LAMBDA n, g : suscan_source_config_set_gain(n, devs, g.name, g.val),
                       new, suscan_source_config_walk_gains(c))
      args == IF c.type = TYPE.SDR \/ suscan_source_config_is_remote(c)
                THEN c.args @@ new.args ELSE new.args
  IN Applied(LAMBDA n : [c EXCEPT !.gains = n.gains, !.hidden = n.hidden, !.args = args], gain)

----------------------------------------------------------------------------
(***************************************************************************)
(* The file of a profile: libsndfile reads audio files whatever their      *)
(* name, and raw ones in the format it is told.                            *)
(***************************************************************************)

\* The raw formats of libsndfile by their numbers there.
SF == [PCM_S8 |-> 1, PCM_16 |-> 2, PCM_U8 |-> 5, FLOAT |-> 6]
NotOpen == 0
AsAudio == 100

suscan_source_config_open_file_raw(c, sf_format) ==
  IF Files[c.path].there THEN sf_format ELSE NotOpen

\* The format guessed from the extension; the fallback is a number of
\* enum suscan_source_format, not of libsndfile.
GuessByExtension(ext) ==
  CASE ext \in {"cu8", "u8"}   -> SF.PCM_U8
    [] ext \in {"cs16", "s16"} -> SF.PCM_16
    [] ext \in {"cf32", "raw"} -> SF.FLOAT
    [] OTHER                   -> FALLBACK

suscan_source_config_sf_open(c) ==
  LET audio == Files[c.path].there /\ Files[c.path].audio
      raw(f) == suscan_source_config_open_file_raw(c, f)
  IN CASE c.path = NullStr -> NotOpen
       [] c.format \in {FORMAT.WAV, FORMAT.AUTO} /\ audio -> AsAudio
       [] c.format = FORMAT.WAV  -> NotOpen
       [] c.format = FORMAT.AUTO -> raw(GuessByExtension(Files[c.path].ext))
       [] c.format = FORMAT.RAW_FLOAT32   -> raw(SF.FLOAT)
       [] c.format = FORMAT.RAW_UNSIGNED8 -> raw(SF.PCM_U8)
       [] c.format = FORMAT.RAW_SIGNED16  -> raw(SF.PCM_16)
       [] c.format = FORMAT.RAW_SIGNED8   -> raw(SF.PCM_S8)

suscan_source_config_file_is_valid(c) == suscan_source_config_sf_open(c) # NotOpen

\* The time of the last sample, at the rate of the profile.
suscan_source_config_get_end_time(c) ==
  LET last == Files[c.path].frames - 1
      sec  == last \div c.samp_rate
  IN c.start_time + IF last < 0 THEN 0
                    ELSE sec * SEC + (SEC * (last - sec * c.samp_rate)) \div c.samp_rate

----------------------------------------------------------------------------
(***************************************************************************)
(* The object that is saved.  Numbers are written with as many digits as   *)
(* they need; a frequency is a double that goes through a single.          *)
(***************************************************************************)

Single(v) == IF v < 16 THEN v ELSE v - (v % 2)

suscan_source_config_helper_type_to_str(type) ==
  CASE type = TYPE.FILE -> "FILE" [] type = TYPE.SDR -> "SDR"

suscan_source_type_config_helper_str_to_type(str) ==
  IF str = "FILE" THEN TYPE.FILE ELSE TYPE.SDR

FormatNames == [AUTO |-> "AUTO", RAW_FLOAT32 |-> "RAW_FLOAT32", WAV |-> "WAV",
                RAW_UNSIGNED8 |-> "RAW_UNSIGNED8", RAW_SIGNED16 |-> "RAW_SIGNED16",
                RAW_SIGNED8 |-> "RAW_SIGNED8"]

suscan_source_config_helper_format_to_str(format) ==
  FormatNames[CHOOSE f \in DOMAIN FORMAT : FORMAT[f] = format]

\* "RAW" is what older versions wrote.
suscan_source_type_config_helper_str_to_format(str) ==
  CASE str = "RAW" -> FORMAT.RAW_FLOAT32
    [] str \in DOMAIN FORMAT -> FORMAT[str]
    [] OTHER -> FORMAT.AUTO

\* suscan_object_get_field_*.
GetField(o, name, default) == IF name \in DOMAIN o.fields THEN o.fields[name] ELSE default

Texts   == {"label", "path", "antenna", "interface"}
Numbers == {"freq", "lnb_freq", "bandwidth", "iq_balance", "dc_remove", "ppm",
            "start_time", "loop", "samp_rate", "average", "channel"}

\* Mutant: the gains that the device does not have are not saved.
ToObjectVisibleGains(c) ==
  [class |-> "source_config",
   fields |-> ("type" :> suscan_source_config_helper_type_to_str(c.type))
     @@ (IF c.type = TYPE.FILE
           THEN "format" :> suscan_source_config_helper_format_to_str(c.format) ELSE <<>>)
     @@ [f \in {t \in Texts : c[t] # NullStr} |-> c[f]]
     @@ [f \in Numbers |-> IF f \in {"freq", "lnb_freq"} THEN Single(c[f]) ELSE c[f]]
     @@ ("sdr_args" :> IF c.type = TYPE.SDR \/ suscan_source_config_is_remote(c)
                         THEN c.args ELSE NoArgs)
     @@ ("gains" :> IF c.type = TYPE.SDR \/ suscan_source_config_is_remote(c)
                      THEN c.gains ELSE <<>>)]

\* A gain that is there twice is saved once, in the first place and with the
\* last value.
suscan_source_config_to_object(c) ==
  LET radio == c.type = TYPE.SDR \/ suscan_source_config_is_remote(c)
      put(l, g) == IF Named(l, g.name) = {} THEN Append(l, g)
                   ELSE [l EXCEPT ![FirstOf(Named(l, g.name))] = g]
  IN [class |-> "source_config",
      fields |-> ("type" :> suscan_source_config_helper_type_to_str(c.type))
        @@ (IF c.type = TYPE.FILE
              THEN "format" :> suscan_source_config_helper_format_to_str(c.format) ELSE <<>>)
        @@ [f \in {t \in Texts : c[t] # NullStr} |-> c[f]]
        @@ [f \in Numbers |-> IF f \in {"freq", "lnb_freq"} THEN Single(c[f]) ELSE c[f]]
        @@ ("sdr_args" :> IF radio THEN c.args ELSE NoArgs)
        @@ ("gains" :> IF radio THEN Reduce(put, <<>>, suscan_source_config_walk_gains(c))
                       ELSE <<>>)]

Absent == [freq |-> 0, lnb_freq |-> 0, bandwidth |-> 0, iq_balance |-> FALSE,
           dc_remove |-> FALSE, ppm |-> 0, start_time |-> 0, loop |-> FALSE,
           samp_rate |-> 3, average |-> 1, channel |-> 0]

\* The profile with the fields of the object.
LoadFields(devs, o) ==
  LET new == suscan_source_config_new(devs,
               suscan_source_type_config_helper_str_to_type(GetField(o, "type", "")),
               suscan_source_type_config_helper_str_to_format(GetField(o, "format", "")))
      iface == GetField(o, "interface", Interfaces.local)
  IN [f \in DOMAIN new |->
        CASE f = "interface" -> IF iface = Interfaces.remote THEN iface ELSE Interfaces.local
          [] f \in Texts \ {"interface"} -> GetField(o, f, NullStr)
          [] f \in Numbers -> GetField(o, f, Absent[f])
          [] OTHER -> new[f]]

\* The device of the arguments becomes the profile's, and is asked what it
\* is unless it has said so.
AssertDevice(r, hw) ==
  LET with(a) == IF ~r.ok \/ a.index = 0 THEN [r EXCEPT !.ok = FALSE]
                 ELSE [r EXCEPT !.c.device = a.index,
                                !.devices = [a.devices EXCEPT ![a.index] = Populated(@, hw).d]]
  IN Applied(with, suscan_source_device_assert(r.devices, r.c.interface, r.c.args))

\* Arguments are added to those of the null device.
LoadArgs(r, hw, o) ==
  IF "sdr_args" \notin DOMAIN o.fields THEN r
    ELSE AssertDevice([r EXCEPT !.c.args = o.fields.sdr_args @@ @], hw)

\* Gains are set one by one, whatever the device has.
LoadGains(r, hw, o) ==
  LET gain(n, g) == [n EXCEPT !.c = suscan_source_config_set_gain(@, n.devices, g.name, g.val)]
  IN IF ~r.ok \/ "gains" \notin DOMAIN o.fields THEN r
     ELSE AssertDevice(Reduce(gain, r, o.fields.gains), hw)

\* The profile, and the list of devices with that of the profile.
suscan_source_config_from_object(devs, hw, o) ==
  LET radio(r) == r.ok /\ (r.c.type = TYPE.SDR \/ suscan_source_config_is_remote(r.c))
      fields(c) == [ok |-> c.average >= 1, c |-> c, devices |-> devs]
  IN Applied(LAMBDA r : IF ~radio(r) THEN r
                          ELSE Applied(LAMBDA n : LoadGains(n, hw, o), LoadArgs(r, hw, o)),
             Applied(fields, LoadFields(devs, o)))

----------------------------------------------------------------------------
(***************************************************************************)
(* The datagram that announces a profile, read into the default profile.   *)
(***************************************************************************)

\* What reading a datagram does besides filling fields: the device of the
\* sender gets the gains announced, and so does the profile, behind those
\* that the device had before, at their defaults.  A gain that is refused
\* ends it, and leaves the device unavailable.
suscan_source_config_deserialize_profile(devs, self, m, host) ==
  LET args == [label |-> m.desc, driver |-> m.driver, host |-> host, port |-> <<m.port>>]
      a    == suscan_source_device_assert(devs, m.interface, args)
      desc(e, g) == suscan_source_device_assert_gain_unsafe(e, g.name, g.min, g.max, g.step)
      c    == [f \in DOMAIN self |->
                 CASE f = "type"  -> IF m.type = SourceTypes.file THEN TYPE.FILE ELSE TYPE.SDR
                   [] f = "start_time" -> m.start_sec * SEC + m.start_usec
                   [] f \in DOMAIN m \ {"type", "device"} -> m[f]
                   [] OTHER -> self[f]]
      set  == suscan_source_config_set_device(c, a.devices, a.index)
      val(g) == [name |-> g.name, val |-> g.val]
      gains == AssertGains(a.devices[a.index], m.gain_list, desc)
  IN IF m.driver = <<>>
       THEN [ok |-> TRUE, devices |-> devs, c |-> [c EXCEPT !.device = NULL_DEVICE]]
       ELSE [ok |-> gains.ok,
             devices |-> [a.devices EXCEPT ![a.index] = [gains.d EXCEPT !.available = gains.ok]],
             c |-> [set EXCEPT !.gains = @ \o [k \in DOMAIN m.gain_list |-> val(m.gain_list[k])]]]

=============================================================================
