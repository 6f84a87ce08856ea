------------------------------ MODULE SlowConf -------------------------------
(***************************************************************************)
(* The source of the local analyzer while it is used: hot configuration    *)
(* (analyzer/slow.c) and the loop of the source worker                     *)
(* (workers/channel.c) in channel mode, over Source and Throttle.          *)
(*                                                                         *)
(* A setting is requested by a thread of the user, or by the analyzer      *)
(* thread, which leaves the value in the analyzer and pushes a callback to *)
(* the slow worker; seeks are picked up by the source worker.  Only gains  *)
(* and antennas are exchanged under hotconf_mutex; the others use plain    *)
(* fields, a value and a flag, whose accesses are interleaved one by one   *)
(* here.  The order of those accesses is what matters, so each function of *)
(* slow.c is the sequence of its accesses, and an action is one access.    *)
(* The slow worker is the loop of Worker.tla.                              *)
(***************************************************************************)
EXTENDS Source, Throttle

CONSTANT
  Setups   \* sources, what is done with them, and the bounds

\* Requests.  "value", "hi", "lo" and "req" are assignments to fields, "slot"
\* and "list" the exchange under hotconf_mutex, "init" the throttle's, under
\* throttle_mutex until "unlock".
slow_set_freq == <<"hi", "lo", "req", "push">>
slow_set_bw == <<"value", "req", "push">>
slow_set_ppm == <<"value", "req", "push">>
slow_seek == <<"value", "req">>
set_inspector_throttle_overridable == <<"req", "value", "push">>
override_throttle == <<"init">> \o set_inspector_throttle_overridable \o <<"unlock">>

set_analyzer_params_overridable == <<"hi", "lo", "req", "push">>
slow_set_dc_remove == <<"push">>
slow_set_agc == <<"push">>
slow_set_antenna == <<"slot", "push">>
slow_set_gain == <<"list", "push">>

\* Callbacks.  "test" returns if there is no request; "apply" calls the source
\* and then updates and sends the source info; "compare" and "store" are the
\* two halves of req = value != v.
\* Mutant: the flag is cleared without looking at the value again.
SetFreqCbBlind == <<"test", "hi", "lo", "apply", "clear">>

set_freq_cb == <<"test", "hi", "lo", "apply", "compare", "store">>

set_bw_cb == <<"test", "value", "apply", "compare", "store">>
set_ppm_cb == <<"test", "value", "apply", "compare", "store">>
parse_seek_overridable == <<"test", "value", "apply", "compare", "store">>
set_inspector_throttle_cb == <<"test", "clear", "value", "apply">>
set_psd_params_cb == <<"test", "clear", "hi", "lo", "apply">>
set_dc_remove_cb == <<"apply">>
set_agc_cb == <<"apply">>
set_antenna_cb == <<"slot", "apply">>
set_gain_cb == <<"list", "apply">>

Setter ==
  [freq |-> slow_set_freq, bw |-> slow_set_bw, ppm |-> slow_set_ppm,
   seek |-> slow_seek, throttle |-> override_throttle,
   psd_params |-> set_analyzer_params_overridable,
   dc_remove |-> slow_set_dc_remove, agc |-> slow_set_agc,
   antenna |-> slow_set_antenna, gain |-> slow_set_gain]

Callback ==
  [freq |-> set_freq_cb, bw |-> set_bw_cb, ppm |-> set_ppm_cb,
   seek |-> parse_seek_overridable, throttle |-> set_inspector_throttle_cb,
   psd_params |-> set_psd_params_cb, dc_remove |-> set_dc_remove_cb,
   agc |-> set_agc_cb, antenna |-> set_antenna_cb, gain |-> set_gain_cb]

Settings == DOMAIN Setter

\* struct suscan_source_config and what a device has; a file is its length.
Configs ==
  [type : {"SDR", "FILE"}, format : {"RAW", "WAV"}, samp_rate : Nat, average : Nat,
   loop : BOOLEAN, start_time : Int, freq : Int, lnb_freq : Int, bandwidth : Int,
   ppm : Int, dc_remove : Int, antenna : Nat, gain : Int]
Devices ==
  [freq : Int, bandwidth : Int, ppm : Int, dc_remove : Int, agc : Int, antenna : Nat,
   gain : Int, samp_rate : Nat, rates : Seq(Nat), has_dc_mode : BOOLEAN]

\* The fields of a setup: the source, what it is asked for, and how many
\* requests, reads and ticks there are at most.
ASSUME SlowConfAssumption ==
  \A s \in Setups :
    /\ s.config \in Configs /\ s.sdr \in Devices
    /\ {s.frames, s.file_rate} \subseteq Int
    /\ s.used \subseteq Settings
    /\ {s.requests, s.reads, s.ticks} \subseteq Nat

\* The two threads that serve requests.
Workers == {"slow", "source"}

VARIABLES
  setup,      \* the one that was chosen
  requested,  \* requests made for each setting
  at,         \* how far the thread that makes one is; 0 if it is not
  value, req, \* the fields of struct suscan_local_analyzer
  slot,       \* antenna_req
  list,       \* gain_request_list
  queue,      \* callbacks in the queue of the slow worker, with cb_private
  serving,    \* the setting each worker serves, "none" if none
  pc,         \* how far it is
  local,      \* its local copy of the value
  request_list,  \* its local copy of the list
  again,      \* its value of the comparison, not stored yet
  told,       \* history: the last value of each setting its callback applied
  src, info,  \* source; source_info, as it was last sent
  refused,    \* history: settings whose last call was refused
  raced,      \* history: settings that lost a request in a race
  now,        \* the clock
  throttle,   \* and who holds throttle_mutex
  holder,
  reader,     \* the source worker: where it is, and its local variables
  tally       \* history: samples this throttle has granted (a stale portion is one
              \* of the throttle before it), and those through the decimator

hot_vars == <<setup, requested, at, value, req, slot, list, queue, serving, pc, local,
          request_list, again, told, src, info, refused, raced, now, throttle, holder,
          reader, tally>>
caller == <<setup, requested, at>>
servers == <<serving, pc, local, request_list, again>>
outcome == <<told, src, info, refused>>
loop == <<now, throttle, holder, reader, tally>>

Used == setup.used

\* The n-th request of a setting asks for n, or for 2n and n when the value is
\* made of two fields (so that a frequency minus that of the LNB is n again).
\* The analyzer divides the rate a throttle asks for by that of the source.
Asked(s, n) ==
  CASE s \in {"freq", "psd_params"} -> <<2 * n, n>>
    [] s = "throttle" -> LET factor == n \div suscan_source_get_samp_rate(src)
                         IN <<factor, factor>>
    [] OTHER -> <<n, n>>

\* The source info that the analyzer makes when it starts.
populate_source_info(s) ==
  [freq |-> <<suscan_source_get_freq(s), s.config.lnb_freq>>,
   bw |-> s.config.bandwidth, ppm |-> s.config.ppm,
   dc_remove |-> s.config.dc_remove, agc |-> 0, gain |-> s.config.gain,
   seekable |-> s.config.type = "FILE"]

\* The throttle is made before the capture starts.
source_init(opened) == suscan_throttle_init(0, suscan_source_get_samp_rate(opened))

HotInit ==
  /\ setup \in Setups
  /\ LET new == suscan_source_new(setup.config, setup.sdr, setup.frames,
                                  setup.file_rate, {})
         started == suscan_source_start_capture(new.src, TRUE)
     IN /\ new.ok
        /\ src = started.src
        /\ throttle = source_init(new.src)
        /\ info = populate_source_info(started.src)
  /\ requested = [s \in Settings |-> 0] /\ at = [s \in Settings |-> 0]
  /\ value = [s \in Settings |-> <<0, 0>>]
  /\ req = [s \in Settings |-> FALSE]
  /\ slot = 0 /\ list = <<>> /\ queue = <<>>
  /\ serving = [w \in Workers |-> "none"] /\ pc = [w \in Workers |-> 0]
  /\ local = [w \in Workers |-> <<0, 0>>]
  /\ request_list = <<>> /\ again = [w \in Workers |-> FALSE]
  /\ told = [s \in Settings |-> <<0, 0>>]
  /\ refused = {} /\ raced = {}
  /\ now = 0 /\ holder = "none"
  /\ reader = [at |-> "portion", reads |-> 0, portion |-> 0, wake |-> 0, got |-> 0]
  /\ tally = [since |-> 0, counted |-> 0, stale |-> FALSE, fed |-> 0, made |-> 0]

(***************************************************************************)
(* A request.                                                              *)
(***************************************************************************)
Request(s) ==
  /\ s \in Used
  /\ at[s] = 0 /\ MapThenSumSet(LAMBDA x : requested[x], Used) < setup.requests
  /\ requested' = [requested EXCEPT ![s] = @ + 1]
  /\ at' = [at EXCEPT ![s] = 1]
  /\ UNCHANGED <<setup, value, req, slot, list, queue, servers, outcome, raced, loop>>

Requesting(s, access) ==
  /\ at[s] > 0 /\ Setter[s][at[s]] = access
  /\ at' = [at EXCEPT ![s] = IF @ = Len(Setter[s]) THEN 0 ELSE @ + 1]
  /\ UNCHANGED <<setup, requested, servers, outcome, raced>>

SetValue(s, access) ==
  /\ Requesting(s, access)
  /\ LET v == Asked(s, requested[s]) IN
       value' = [value EXCEPT ![s] = CASE access = "value" -> v
                                       [] access = "hi" -> <<v[1], @[2]>>
                                       [] access = "lo" -> <<@[1], v[2]>>]
  /\ UNCHANGED <<req, slot, list, queue, loop>>

SetReq(s) ==
  /\ Requesting(s, "req")
  /\ req' = [req EXCEPT ![s] = TRUE]
  /\ UNCHANGED <<value, slot, list, queue, loop>>

SetSlot(s) ==
  /\ Requesting(s, "slot")
  /\ slot' = requested[s]
  /\ UNCHANGED <<value, req, list, queue, loop>>

AppendToList(s) ==
  /\ Requesting(s, "list")
  /\ list' = Append(list, requested[s])
  /\ UNCHANGED <<value, req, slot, queue, loop>>

\* suscan_worker_push
Push(s) ==
  /\ Requesting(s, "push")
  /\ queue' = Append(queue, [setting |-> s, cb_private |-> requested[s]])
  /\ UNCHANGED <<value, req, slot, list, loop>>

\* The throttle starts again, at the rate that is asked for.
InitThrottle(s) ==
  /\ Requesting(s, "init")
  /\ holder = "none" /\ holder' = "caller"
  /\ throttle' = suscan_throttle_init(now, requested[s])
  /\ tally' = [tally EXCEPT !.since = now, !.counted = 0, !.stale = reader.at # "portion"]
  /\ UNCHANGED <<value, req, slot, list, queue, now, reader>>

UnlockThrottle(s) ==
  /\ Requesting(s, "unlock")
  /\ holder' = "none"
  /\ UNCHANGED <<value, req, slot, list, queue, now, throttle, reader, tally>>

(***************************************************************************)
(* Its callback.                                                           *)
(***************************************************************************)
Take ==
  /\ serving["slow"] = "none" /\ queue # <<>>
  /\ serving' = [serving EXCEPT !["slow"] = Head(queue).setting]
  /\ pc' = [pc EXCEPT !["slow"] = 1]
  /\ LET n == Head(queue).cb_private IN
       local' = [local EXCEPT !["slow"] = <<n, n>>]
  /\ queue' = Tail(queue)
  /\ UNCHANGED <<caller, value, req, slot, list, request_list, again, outcome, raced, loop>>

Performing(w, access) ==
  /\ serving[w] # "none" /\ Callback[serving[w]][pc[w]] = access
  /\ UNCHANGED <<caller, queue, loop>>

Leave(w) == serving' = [serving EXCEPT ![w] = "none"] /\ pc' = [pc EXCEPT ![w] = 0]

GoOn(w) ==
  IF pc[w] = Len(Callback[serving[w]]) THEN Leave(w)
  ELSE pc' = [pc EXCEPT ![w] = @ + 1] /\ UNCHANGED serving

TestReq(w) ==
  /\ Performing(w, "test")
  /\ IF req[serving[w]] THEN GoOn(w) ELSE Leave(w)
  /\ UNCHANGED <<value, req, slot, list, local, request_list, again, outcome, raced>>

\* A flag that is set before its value, and cleared in between: the callback
\* that its request is about to push will find no request.
ClearReq(w) ==
  /\ Performing(w, "clear")
  /\ req' = [req EXCEPT ![serving[w]] = FALSE]
  /\ raced' = raced \cup {s \in {serving[w]} : at[s] > 0 /\ req[s]
                            /\ value[s] # Asked(s, requested[s])}
  /\ GoOn(w)
  /\ UNCHANGED <<value, slot, list, local, request_list, again, outcome>>

GetValue(w, access) ==
  /\ Performing(w, access)
  /\ LET v == value[serving[w]] IN
       local' = [local EXCEPT ![w] = CASE access = "value" -> v
                                       [] access = "hi" -> <<v[1], @[2]>>
                                       [] access = "lo" -> <<@[1], v[2]>>]
  /\ GoOn(w)
  /\ UNCHANGED <<value, req, slot, list, request_list, again, outcome, raced>>

TakeSlot(w) ==
  /\ Performing(w, "slot")
  /\ local' = [local EXCEPT ![w] = <<slot, slot>>]
  /\ slot' = 0
  /\ GoOn(w)
  /\ UNCHANGED <<value, req, list, request_list, again, outcome, raced>>

TakeList(w) ==
  /\ Performing(w, "list")
  /\ request_list' = list /\ list' = <<>>
  /\ GoOn(w)
  /\ UNCHANGED <<value, req, slot, local, again, outcome, raced>>

\* Settings whose callback sends a source info with the value it applied.
\* The source info has the antenna too, but set_antenna_cb leaves it alone.
Reported == {"freq", "bw", "ppm", "dc_remove", "agc", "gain"}

\* Settings whose source info changes whatever the source answers.
Unchecked == {"dc_remove", "agc"}

\* The call to the source, or to the inspectors and the PSD.  The antenna 0 is
\* NULL, that of a slot which an earlier callback has emptied.
Call(s, v, accepts) ==
  CASE s = "freq" -> suscan_source_set_freq2(src, v[1], v[2], accepts)
    [] s = "bw" -> suscan_source_set_bandwidth(src, v[1], accepts)
    [] s = "ppm" -> suscan_source_set_ppm(src, v[1], accepts)
    [] s = "dc_remove" -> suscan_source_set_dc_remove(src, v[1], accepts)
    [] s = "agc" -> suscan_source_set_agc(src, v[1], accepts)
    [] s = "antenna" -> suscan_source_set_antenna(src, v[1], accepts /\ v[1] # 0)
    [] s = "gain" -> suscan_source_set_gain(src, v[1], accepts)
    [] s = "seek" -> suscan_source_seek(src, v[1])
    [] OTHER -> Done(src)

Void(s, v) == s = "antenna" /\ v[1] = 0

Applied(s, v, call) ==
  /\ src' = call.src
  /\ told' = IF Void(s, v) THEN told ELSE [told EXCEPT ![s] = v]
  /\ refused' = CASE Void(s, v) -> refused
                  [] call.ok -> refused \ {s}
                  [] OTHER -> refused \cup {s}

InfoValue(s, v) == IF s = "freq" THEN v ELSE v[1]

Apply(w) ==
  /\ Performing(w, "apply")
  /\ serving[w] # "gain"
  /\ \E accepts \in BOOLEAN :
       LET s == serving[w]
           call == Call(s, local[w], accepts)
       IN /\ Applied(s, local[w], call)
          /\ info' = IF s \in Reported /\ (call.ok \/ s \in Unchecked)
                     THEN [info EXCEPT ![s] = InfoValue(s, local[w])] ELSE info
  /\ GoOn(w)
  /\ UNCHANGED <<value, req, slot, list, local, request_list, again, raced>>

\* Mutant: the source info keeps its old gains.
ApplyGainSilently(w) ==
  /\ Performing(w, "apply")
  /\ serving[w] = "gain"
  /\ IF request_list = <<>> THEN Leave(w) /\ UNCHANGED <<request_list, told, src, refused>>
     ELSE \E accepts \in BOOLEAN :
            LET call == Call("gain", <<Head(request_list), Head(request_list)>>, accepts) IN
              /\ Applied("gain", <<Head(request_list), Head(request_list)>>, call)
              /\ IF call.ok THEN request_list' = Tail(request_list) /\ UNCHANGED <<serving, pc>>
                 ELSE request_list' = <<>> /\ Leave(w)
  /\ UNCHANGED <<info, value, req, slot, list, local, again, raced>>

\* set_gain_cb goes through its list, one gain a step, and sends a source info
\* at the end; a gain that is refused ends it.
ApplyGain(w) ==
  /\ Performing(w, "apply")
  /\ serving[w] = "gain"
  /\ IF request_list = <<>>
     THEN /\ info' = [info EXCEPT !.gain = told["gain"][1]]
          /\ Leave(w)
          /\ UNCHANGED <<request_list, told, src, refused>>
     ELSE /\ \E accepts \in BOOLEAN :
               LET call == Call("gain", <<Head(request_list), Head(request_list)>>, accepts) IN
                 /\ Applied("gain", <<Head(request_list), Head(request_list)>>, call)
                 /\ IF call.ok THEN request_list' = Tail(request_list) /\ UNCHANGED <<serving, pc>>
                    ELSE request_list' = <<>> /\ Leave(w)
          /\ UNCHANGED info
  /\ UNCHANGED <<value, req, slot, list, local, again, raced>>

Compare(w) ==
  /\ Performing(w, "compare")
  /\ again' = [again EXCEPT ![w] = value[serving[w]] # local[w]]
  /\ GoOn(w)
  /\ UNCHANGED <<value, req, slot, list, local, request_list, outcome, raced>>

\* The value may have changed since it was compared.
Store(w) ==
  /\ Performing(w, "store")
  /\ req' = [req EXCEPT ![serving[w]] = again[w]]
  /\ raced' = raced \cup {s \in {serving[w]} :
                            req[s] /\ ~again[w] /\ value[s] # local[w]}
  /\ GoOn(w)
  /\ UNCHANGED <<value, slot, list, local, request_list, again, outcome>>

(***************************************************************************)
(* The loop of the source worker, suscan_source_channel_wk_cb.             *)
(***************************************************************************)
RealTime == src.config.type = "SDR"

Looping(place) ==
  /\ reader.at = place
  /\ serving["source"] = "none"
  /\ UNCHANGED <<caller, value, req, slot, list, queue, told, info, refused, raced>>

\* Files are read as fast as the throttle allows.
GetPortion ==
  /\ Looping("portion") /\ reader.reads < setup.reads
  /\ IF RealTime
     THEN /\ reader' = [reader EXCEPT !.at = "overridable", !.portion = BufferSize]
          /\ UNCHANGED <<throttle, holder>>
     ELSE /\ holder = "none"
          /\ LET got == suscan_throttle_get_portion(throttle, now, BufferSize) IN
               /\ throttle' = got.throttle
               /\ holder' = IF got.sleep > 0 THEN "source" ELSE "none"
               /\ reader' = [reader EXCEPT
                    !.at = IF got.sleep > 0 THEN "asleep" ELSE "overridable",
                    !.wake = now + got.sleep, !.portion = got.portion]
  /\ UNCHANGED <<servers, src, now, tally>>

\* It sleeps in the throttle, with its mutex.
Wake ==
  /\ Looping("asleep") /\ now >= reader.wake
  /\ reader' = [reader EXCEPT !.at = "overridable"]
  /\ holder' = "none"
  /\ UNCHANGED <<servers, src, now, throttle, tally>>

parse_overridable ==
  /\ Looping("overridable")
  /\ reader' = [reader EXCEPT !.at = "read"]
  /\ serving' = [serving EXCEPT !["source"] = "seek"]
  /\ pc' = [pc EXCEPT !["source"] = 1]
  /\ UNCHANGED <<local, request_list, again, src, now, throttle, holder, tally>>

\* Anything but samples ends the loop, with a message.
Read ==
  /\ Looping("read")
  /\ \E answer \in setup.answers :
       LET read == suscan_source_read(src, reader.portion, answer) IN
         /\ src' = read.src
         /\ reader' = [reader EXCEPT !.got = read.got, !.reads = @ + 1,
                         !.at = CASE read.got <= 0 -> "over"
                                  [] read.got > 0 /\ RealTime -> "portion"
                                  [] OTHER -> "advance"]
         /\ tally' = [tally EXCEPT !.fed = @ + Max({0, read.consumed}),
                                    !.made = @ + Max({0, read.got})]
  /\ UNCHANGED <<servers, now, throttle, holder>>

Advance ==
  /\ Looping("advance")
  /\ holder = "none"
  /\ throttle' = suscan_throttle_advance(throttle, reader.got)
  /\ reader' = [reader EXCEPT !.at = "portion"]
  /\ tally' = [tally EXCEPT !.counted = @ + (IF tally.stale THEN 0 ELSE reader.got),
                         !.stale = FALSE]
  /\ UNCHANGED <<servers, src, now, holder>>

\* suscan_source_force_eos, by a user or when the analyzer is destroyed.
ForceEos ==
  /\ setup.force /\ ~src.force_eos
  /\ src' = [src EXCEPT !.force_eos = TRUE]
  /\ UNCHANGED <<caller, value, req, slot, list, queue, servers, told, info, refused,
                 raced, loop>>

\* The analyzer thread stops the capture when it ends, before the workers do.
StopCapture ==
  /\ setup.force /\ src.capturing
  /\ \E accepts \in BOOLEAN : src' = suscan_source_stop_capture(src, accepts).src
  /\ UNCHANGED <<caller, value, req, slot, list, queue, servers, told, info, refused,
                 raced, loop>>

Tick ==
  /\ now < setup.ticks
  /\ now' = now + 1
  /\ UNCHANGED <<caller, value, req, slot, list, queue, servers, outcome, raced,
                 throttle, holder, reader, tally>>

Caller(s) ==
  \/ Request(s)
  \/ \E access \in {"value", "hi", "lo"} : SetValue(s, access)
  \/ SetReq(s) \/ SetSlot(s) \/ AppendToList(s) \/ Push(s)
  \/ InitThrottle(s) \/ UnlockThrottle(s)

Server(w) ==
  \/ TestReq(w) \/ ClearReq(w)
  \/ \E access \in {"value", "hi", "lo"} : GetValue(w, access)
  \/ TakeSlot(w) \/ TakeList(w)
  \/ Apply(w) \/ ApplyGain(w) \/ Compare(w) \/ Store(w)

channel_wk_cb == GetPortion \/ Wake \/ parse_overridable \/ Read \/ Advance

HotNext ==
  \/ \E s \in Settings : Caller(s)
  \/ Take
  \/ \E w \in Workers : Server(w)
  \/ channel_wk_cb \/ ForceEos \/ StopCapture \/ Tick

HotSpec == HotInit /\ [][HotNext]_hot_vars

(***************************************************************************)
(* Properties.                                                             *)
(***************************************************************************)
\* Nobody is requesting s, and no callback of it is queued or running.  A seek
\* is over when its flag is clear.
Quiet(s) ==
  /\ at[s] = 0
  /\ \A i \in DOMAIN queue : queue[i].setting # s
  /\ \A w \in Workers : serving[w] # s
  /\ s = "seek" => ~req[s]

\* Settings kept in a value and a flag that is stored after a comparison, or
\* set before the value.
Flagged == {"freq", "bw", "ppm", "seek", "throttle"}

\* What the device was told, where the settings of the analyzer end.
Hardware(s) ==
  CASE s = "freq" -> src.sdr.freq
    [] s = "bw" -> src.sdr.bandwidth
    [] s \in {"ppm", "dc_remove", "agc", "antenna", "gain"} -> src.sdr[s]

OfSource == {"freq", "bw", "ppm", "dc_remove", "agc", "antenna", "gain"}

\* Once a setting is quiet its last request has been applied, and unless the
\* device refused it, it is what the device has.  Flagged settings lose it only
\* if the flag was cleared in the window in which the next request had changed
\* the value or the flag; the others, exchanged under hotconf_mutex or carried
\* by the callback, and the PSD parameters, never do, but a refused gain drops
\* those behind it.
LastRequestApplied ==
  \A s \in Used :
    /\ Quiet(s)
    /\ requested[s] > 0
    /\ s \notin raced \cap Flagged
    /\ s = "gain" => s \notin refused
    => /\ told[s] = Asked(s, requested[s])
       /\ s \in OfSource \ refused /\ RealTime => Hardware(s) = requested[s]

\* When a setting of a radio is quiet, the last source info tells what the device
\* has, and so if the device refused it; but the switches are reported as they
\* were asked for, and a list of gains that ends with a refused one is not.
InfoIsCurrent ==
  RealTime =>
    \A s \in Used \cap Reported :
      Quiet(s) /\ ~(s \in refused \cap (Unchecked \cup {"gain"}))
        => Hardware(s) = IF s = "freq" THEN info.freq[1] - info.freq[2] ELSE info[s]

\* The file source ends only when it was told to, or at the end of a file that
\* does not loop: the throttle never makes it ask for nothing, which would look
\* like the end.
EndsOnlyAtEnd ==
  reader.at = "over" /\ ~RealTime =>
    \/ src.force_eos \/ ~src.capturing
    \/ src.pos = src.frames /\ ~src.config.loop

\* The time of a file source is that of its position, whatever the seeks, the
\* loops and the sizes of the reads, and not past its end until it is there; and
\* decimation keeps one sample in decim, once its filters are full.
SamplesAccounted ==
  /\ ~RealTime =>
       /\ src.total_samples = src.pos
       /\ src.pos < src.frames =>
            suscan_source_get_time_file(src) <= suscan_source_get_end_time(src)
  /\ src.decim > 1 =>
       tally.made = IF tally.fed < src.decim_length THEN 0
                    ELSE (tally.fed - src.decim_length) \div src.decim + 1

\* Of what it has granted since the throttle was set, at most a checkpoint more
\* has been read than the time that has passed allows.
RateBounded ==
  tally.counted * throttle.delta_t
    <= throttle.delta_s * (throttle.delta_t + now - tally.since)

==============================================================================
