------------------------------ MODULE Devices ------------------------------
(***************************************************************************)
(* The list of devices of a process (analyzer/device.c).  A device is      *)
(* known by its interface and its arguments, is never removed, and keeps   *)
(* its place: profiles point to it.  A detection makes every device        *)
(* unavailable, raises its epoch, and forgets its antennas and rates; the  *)
(* descriptions of its gains stay, and count only when they were seen in   *)
(* the current epoch.  The operators take the list and return the one that *)
(* replaces it.                                                            *)
(***************************************************************************)
EXTENDS RemoteCall

CONSTANT Offers   \* what SoapySDR tells of a device, by arguments and variant

\* SoapySDRKwargs: a function from keys to values.
NoArgs == <<>>
SoapySDRKwargs_set(args, key, value) == (key :> value) @@ args
SoapySDRKwargs_get(args, key) == IF key \in DOMAIN args THEN args[key] ELSE NullStr

Drivers == [null |-> <<10>>, audio |-> <<11>>, rtlsdr |-> <<12>>, airspy |-> <<13>>]
NullArgs == ("driver" :> Drivers.null)
NULL_DEVICE == 1

suscan_source_device_is_remote(d) == d.interface = Interfaces.remote

suscan_source_device_is_populated(d) ==
  ~suscan_source_device_is_remote(d) /\ d.antennas # <<>>

Driver(d) == SoapySDRKwargs_get(d.args, "driver")

----------------------------------------------------------------------------
(***************************************************************************)
(* Gain descriptions.                                                      *)
(***************************************************************************)

suscan_source_gain_desc_new(name, min, max) ==
  [name |-> name, min |-> min, max |-> max, step |-> 0, def |-> 0, epoch |-> 0]

\* Positions of the descriptions of that name that count now.
suscan_source_device_lookup_gain_desc(d, name) ==
  {k \in DOMAIN d.gains : d.gains[k].name = name /\ d.gains[k].epoch = d.epoch}

\* The description of that name is updated, or made; its default is not
\* touched.  None is made of a range whose ends are the wrong way round.
suscan_source_device_assert_gain_unsafe(d, name, min, max, step) ==
  LET known == {k \in DOMAIN d.gains : d.gains[k].name = name}
      seen(g) == [g EXCEPT !.min = min, !.max = max, !.step = step, !.epoch = d.epoch]
      new == seen(suscan_source_gain_desc_new(name, min, max))
  IN CASE known # {} -> [ok |-> TRUE, d |-> [d EXCEPT !.gains[CHOOSE k \in known : TRUE] = seen(@)]]
       [] known = {} /\ min > max -> [ok |-> FALSE, d |-> d]
       [] known = {} /\ min <= max -> [ok |-> TRUE, d |-> [d EXCEPT !.gains = Append(@, new)]]

\* One gain after the other, up to the first that is refused.
AssertGains(d, gains, assert(_, _)) ==
  Reduce(LAMBDA r, g : IF r.ok THEN assert(r.d, g) ELSE r, [ok |-> TRUE, d |-> d], gains)

----------------------------------------------------------------------------
(***************************************************************************)
(* The list.                                                               *)
(***************************************************************************)

\* variant is what answered last when the device was asked what it is.
suscan_source_device_new(interface, args) ==
  [interface |-> interface, args |-> args, epoch |-> 0, available |-> FALSE,
   antennas |-> <<>>, gains |-> <<>>, rates |-> <<>>, freq |-> <<0, 0>>,
   variant |-> 0]

suscan_source_device_soapy_args_are_equal(a, b) ==
  DOMAIN a = DOMAIN b /\ \A k \in DOMAIN a : a[k] = b[k]

\* The place of the device, made when it is not known; 0 when it cannot be.
suscan_source_device_assert(devs, interface, args) ==
  LET known == {i \in DOMAIN devs :
                  /\ devs[i].interface = interface
                  /\ suscan_source_device_soapy_args_are_equal(devs[i].args, args)}
  IN CASE DOMAIN args = {} -> [devices |-> devs, index |-> NULL_DEVICE]
       [] known # {} -> [devices |-> devs, index |-> CHOOSE i \in known : TRUE]
       [] "driver" \notin DOMAIN args -> [devices |-> devs, index |-> 0]
       [] OTHER -> [devices |-> Append(devs, suscan_source_device_new(interface, args)),
                    index   |-> Len(devs) + 1]

suscan_source_register_null_device ==
  suscan_source_device_assert(<<>>, Interfaces.local, NullArgs).devices

\* The first device that can receive, or the null one.
suscan_source_device_find_first_sdr(devs) ==
  LET sdr == {i \in DOMAIN devs : /\ i # NULL_DEVICE /\ devs[i].available
                                  /\ Driver(devs[i]) # Drivers.audio}
  IN IF sdr = {} THEN NULL_DEVICE ELSE CHOOSE i \in sdr : \A j \in sdr : i <= j

\* Mutant: the epoch stays, and with it every gain seen before.
ResetKeepsEpoch(devs) ==
  [i \in DOMAIN devs |-> [devs[i] EXCEPT !.available = FALSE, !.antennas = <<>>,
                                         !.rates = <<>>]]

suscan_source_reset_devices(devs) ==
  [i \in DOMAIN devs |-> [devs[i] EXCEPT !.epoch = @ + 1, !.available = FALSE,
                                         !.antennas = <<>>, !.rates = <<>>]]

\* The limits over all the ranges; without ranges they stay infinite, and
\* are set to zero.
FreqLimits(ranges) ==
  LET lows  == {ranges[k][1] : k \in DOMAIN ranges}
      highs == {ranges[k][2] : k \in DOMAIN ranges}
  IN IF ranges = <<>> THEN <<0, 0>>
     ELSE <<CHOOSE x \in lows : \A y \in lows : x <= y,
            CHOOSE x \in highs : \A y \in highs : x >= y>>

\* Sample rates in units of 500 kHz.  Those that an RTL-SDR gives below one
\* MHz are not used; an Airspy has 10 MHz even if it does not say so.
MHz == 2

suscan_source_device_fix_airspy_rates(rates) ==
  IF \E k \in DOMAIN rates : rates[k] - 10 * MHz \in (1 - MHz)..(MHz - 1)
    THEN rates ELSE Append(rates, 10 * MHz)

suscan_source_device_fix_rtlsdr_rates(rates) == SelectSeq(rates, LAMBDA r : r >= MHz)

suscan_source_device_fix_rates(d, rates) ==
  CASE Driver(d) = Drivers.airspy -> suscan_source_device_fix_airspy_rates(rates)
    [] Driver(d) = Drivers.rtlsdr -> suscan_source_device_fix_rtlsdr_rates(rates)
    [] OTHER -> rates

\* What a device tells of itself, when SoapySDR can make it: hw maps the
\* arguments of the plugged devices to the variant that is plugged.  The rates
\* are read only if there is a list of gains.  With a gain that is refused, or
\* without rates, it fails, having already taken everything before.
suscan_source_device_populate_info(d, hw) ==
  LET offer == Offers[d.args][hw[d.args]]
      rates == suscan_source_device_fix_rates(d, offer.rates)
      told(e, g) == LET n == suscan_source_device_assert_gain_unsafe(
                               e, g.name, g.min, g.max, 1)
                    IN [n EXCEPT !.d.gains = [k \in DOMAIN @ |->
                          IF @[k].name = g.name THEN [@[k] EXCEPT !.def = g.def]
                                                ELSE @[k]]]
      gains == AssertGains([d EXCEPT !.available = TRUE,
                                     !.freq = FreqLimits(offer.ranges),
                                     !.antennas = @ \o offer.antennas,
                                     !.variant = hw[d.args]],
                           offer.gains, told)
  IN CASE suscan_source_device_is_remote(d) -> [ok |-> TRUE, d |-> [d EXCEPT !.available = TRUE]]
       [] d.args \notin DOMAIN hw -> [ok |-> FALSE, d |-> d]
       [] OTHER -> IF offer.listed /\ gains.ok
                     THEN [ok |-> rates # <<>>, d |-> [gains.d EXCEPT !.rates = rates]]
                     ELSE gains

\* A device is asked only when it has not told yet.
Populated(d, hw) ==
  IF suscan_source_device_is_populated(d) THEN [ok |-> TRUE, d |-> d]
    ELSE suscan_source_device_populate_info(d, hw)

\* Every device that SoapySDR enumerates is in the list, and every one that
\* is not populated is asked; those that are not there stay as they are.
suscan_source_detect_devices(devs, hw, enumerated) ==
  LET all == Reduce(LAMBDA l, a : suscan_source_device_assert(l, Interfaces.local, a).devices,
                      suscan_source_reset_devices(devs), enumerated)
  IN [i \in DOMAIN all |-> IF i = NULL_DEVICE THEN all[i] ELSE Populated(all[i], hw).d]

\* What the program is told about a device, and the device after asking.
suscan_source_device_get_info(d, hw) ==
  IF suscan_source_device_is_remote(d)
    THEN [ok |-> TRUE, d |-> d, gains |-> <<>>, antennas |-> <<>>, rates |-> <<>>]
    ELSE Applied(LAMBDA asked :
           LET e == asked.d
           IN [ok |-> asked.ok, d |-> e, antennas |-> e.antennas, rates |-> e.rates,
               gains |-> SelectSeq(e.gains, LAMBDA g : g.epoch = e.epoch)],
           Populated(d, hw))

=============================================================================
