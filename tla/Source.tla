------------------------------- MODULE Source --------------------------------
(***************************************************************************)
(* Signal sources (analyzer/source.c): a file, or a radio behind SoapySDR. *)
(* A source keeps its own copy of its configuration, which the setters     *)
(* change along with the device, some before and some after it has agreed. *)
(*                                                                         *)
(* Samples are only counted.  The device is the field sdr, what it was     *)
(* last told and did not refuse; a file is its length and a position.      *)
(* Functions that can fail return the source and ok.                       *)
(***************************************************************************)
EXTENDS Integers, FiniteSetsExt, SequencesExt

CONSTANTS
  BufferSize,     \* SUSCAN_SOURCE_DEFAULT_BUFSIZ and that of the decimator
  CountModulus,   \* values of a SUSCOUNT
  Microseconds    \* in a second

ASSUME SourceAssumption ==
  {BufferSize, CountModulus, Microseconds} \subseteq Nat \ {0}

\* SUSCAN_SOURCE_ANTIALIAS_REL_SIZE, the filters of the decimator.
RelSize == 5

\* Antennas, gains and switches are numbers, and the antenna NULL is 0.
NULL == 0

Done(src) == [src |-> src, ok |-> TRUE]
Refused(src) == [src |-> src, ok |-> FALSE]

suscan_source_config_check(config) ==
  /\ config.average >= 1
  /\ config.samp_rate >= 1 \/ (config.type = "FILE" /\ config.format = "WAV")

\* Filter k starts k * decim samples after the first one.
suscan_source_configure_decimation(src, decim) ==
  [src EXCEPT !.decim = decim,
              !.decim_length = decim * RelSize,
              !.ptrs = [k \in 0 .. RelSize - 1 |-> -k * decim]]

\* Every sample goes into every filter, and the first one that is full
\* produces a sample and starts again.
suscan_source_feed_decimator(src, len) ==
  LET Step(fed, i) ==
        LET ptrs == [k \in DOMAIN fed.ptrs |-> fed.ptrs[k] + 1]
            done == {k \in DOMAIN ptrs : ptrs[k] = src.decim_length}
        IN IF done = {} THEN [fed EXCEPT !.ptrs = ptrs]
           ELSE [ptrs |-> [ptrs EXCEPT ![Min(done)] = 0], samples |-> fed.samples + 1]
      all == FoldLeft(Step, [ptrs |-> src.ptrs, samples |-> 0], [i \in 1 .. len |-> i])
  IN [src |-> [src EXCEPT !.ptrs = all.ptrs], samples |-> all.samples]

(***************************************************************************)
(* Opening.                                                                *)
(***************************************************************************)
\* The file says its own rate; frames is its length, or a negative number if
\* it cannot be opened.
suscan_source_open_file(src) ==
  IF src.frames < 0 THEN Refused(src)
  ELSE Done([src EXCEPT !.samp_rate = src.file_rate, !.config.samp_rate = src.file_rate])

\* The first of the nearest rates of the device, or the rate itself if the
\* device has no list.
suscan_source_set_sample_rate_near(src) ==
  LET rates == src.sdr.rates
      asked == src.config.samp_rate
      Distance(r) == IF r > asked THEN r - asked ELSE asked - r
      nearest == {i \in DOMAIN rates : \A j \in DOMAIN rates :
                    Distance(rates[i]) <= Distance(rates[j])}
  IN IF rates = <<>> THEN asked ELSE rates[Min(nearest)]

\* The calls the device must not refuse; a refused gain is ignored.
Needed(src) ==
  {"make", "freq", "bandwidth", "ppm", "samp_rate", "stream"}
    \cup (IF src.config.antenna = NULL THEN {} ELSE {"antenna"})
    \cup (IF src.sdr.has_dc_mode THEN {"dc_remove"} ELSE {})

suscan_source_open_sdr(src, refused) ==
  LET c == src.config
      rate == suscan_source_set_sample_rate_near(src)
      antenna == IF c.antenna = NULL THEN src.sdr.antenna ELSE c.antenna
  IN IF Needed(src) \cap refused # {} THEN Refused(src)
     ELSE Done([src EXCEPT
            !.sdr = [src.sdr EXCEPT
              !.antenna = antenna,
              !.gain = IF "gain" \in refused THEN src.sdr.gain ELSE c.gain,
              !.freq = c.freq - c.lnb_freq,
              !.bandwidth = c.bandwidth,
              !.ppm = c.ppm,
              !.samp_rate = rate,
              !.dc_remove = IF src.sdr.has_dc_mode THEN c.dc_remove ELSE src.sdr.dc_remove],
            !.soft_dc = IF src.sdr.has_dc_mode THEN 0 ELSE c.dc_remove,
            !.samp_rate = rate,
            !.config = [c EXCEPT !.antenna = antenna]])

\* suscan_source_config_clone is in SourceConfig; sdr and frames are the device
\* and the file, as they are outside.
suscan_source_new(config, sdr, frames, file_rate, refused) ==
  LET empty == [config |-> config, sdr |-> sdr, frames |-> frames,
                file_rate |-> file_rate, samp_rate |-> 0, soft_dc |-> 0,
                capturing |-> FALSE, force_eos |-> FALSE, looped |-> FALSE,
                total_samples |-> 0, pos |-> 0,
                decim |-> 1, decim_length |-> 0, ptrs |-> [k \in 0 .. RelSize - 1 |-> 0]]
      new == IF config.average > 1
             THEN suscan_source_configure_decimation(empty, config.average)
             ELSE empty
  IN CASE ~suscan_source_config_check(config) -> Refused(empty)
       [] config.type = "FILE" -> suscan_source_open_file(new)
       [] config.type = "SDR" -> suscan_source_open_sdr(new, refused)
       [] OTHER -> Refused(empty)

\* The rate of what is read, which is not known before the capture starts.
suscan_source_get_samp_rate(src) ==
  IF src.capturing THEN src.samp_rate \div src.decim ELSE src.config.samp_rate

suscan_source_get_base_samp_rate(src) == src.config.samp_rate

suscan_source_start_capture(src, accepts) ==
  IF src.capturing THEN Done(src)
  ELSE IF src.config.type = "SDR" /\ ~accepts THEN Refused(src)
  ELSE Done([src EXCEPT !.capturing = TRUE])

suscan_source_stop_capture(src, accepts) ==
  IF ~src.capturing THEN Done(src)
  ELSE IF src.config.type = "SDR" /\ ~accepts THEN Refused(src)
  ELSE Done([src EXCEPT !.capturing = FALSE])

(***************************************************************************)
(* Reading.                                                                *)
(***************************************************************************)
EndOfStream == 0
ErrorAcquire == -2   \* SU_BLOCK_PORT_READ_ERROR_ACQUIRE

suscan_source_seek_file(src, pos) ==
  IF pos > src.frames THEN Refused(src)
  ELSE Done([src EXCEPT !.pos = pos, !.total_samples = pos])

\* Radios cannot seek.
suscan_source_seek(src, pos) ==
  IF src.config.type = "FILE" THEN suscan_source_seek_file(src, pos) ELSE Refused(src)

suscan_source_max_size_file(src) == src.frames

\* At the end of the file, or if it is asked for nothing, a file that loops
\* starts again.
suscan_source_read_file(src, max) ==
  LET size == Min({max, BufferSize})
      Left(s) == Min({size, s.frames - s.pos})
      again == [src EXCEPT !.pos = 0, !.looped = TRUE, !.total_samples = 0]
      from == IF Left(src) = 0 /\ src.config.loop THEN again ELSE src
  IN IF src.force_eos THEN [src |-> src, got |-> EndOfStream]
     ELSE [src |-> [from EXCEPT !.pos = @ + Left(from)], got |-> Left(from)]

\* The device answers with some samples or with an error; its time-outs,
\* overflows and underflows are asked again.
suscan_source_read_sdr(src, max, answer) ==
  [src |-> src, got |-> IF src.force_eos THEN EndOfStream
                        ELSE IF answer < 0 THEN ErrorAcquire ELSE Min({max, answer})]

ReadOnce(src, max, answer) ==
  IF src.config.type = "FILE" THEN suscan_source_read_file(src, max)
  ELSE suscan_source_read_sdr(src, max, answer)

\* What reading changes.
Moved(src, to) ==
  [src EXCEPT !.pos = to.pos, !.looped = to.looped, !.total_samples = to.total_samples,
              !.ptrs = to.ptrs]

Counted(read) == [read EXCEPT !.src.total_samples = (@ + read.got) % CountModulus]

\* Decimation reads until there is something to return.  Without it what was
\* read is unsigned, so that errors are counted as samples.  consumed, which is
\* not returned, is what was read before decimation.
suscan_source_read(src, max, answer) ==
  LET size == Min({max, BufferSize})
      After(last) ==
        LET read == ReadOnce(last.src, size, answer)
            fed == suscan_source_feed_decimator(Counted(read).src, read.got)
        IN IF read.got < 1
           THEN [last EXCEPT !.src = read.src, !.got = read.got, !.over = TRUE]
           ELSE [src |-> fed.src, got |-> fed.samples, over |-> fed.samples > 0,
                 consumed |-> last.consumed + read.got]
      tries[n \in Nat] ==
        IF n = 0 THEN After([src |-> src, got |-> 0, over |-> FALSE, consumed |-> 0])
        ELSE LET last == tries[n - 1] IN IF last.over THEN last ELSE After(last)
      ran == tries[src.decim_length]
      once == ReadOnce(src, max, answer)
      read == CASE ~src.capturing -> [src |-> src, got |-> 0, consumed |-> 0]
                [] src.capturing /\ src.decim > 1 ->
                     [src |-> Moved(src, ran.src), got |-> ran.got, consumed |-> ran.consumed]
                [] OTHER -> [src |-> IF once.got = 0 THEN once.src ELSE Counted(once).src,
                             got |-> once.got, consumed |-> once.got]
  IN read

\* Whole seconds and the rest, in microseconds, at the rate of the file.
TimeOf(src, samples) ==
  LET rate == src.config.samp_rate IN
    src.config.start_time + (samples \div rate) * Microseconds
      + (Microseconds * (samples % rate)) \div rate

suscan_source_get_time_file(src) == TimeOf(src, src.total_samples)

\* The time of the last sample.
suscan_source_get_end_time(src) ==
  IF suscan_source_max_size_file(src) = 0 THEN src.config.start_time
  ELSE TimeOf(src, suscan_source_max_size_file(src) - 1)

(***************************************************************************)
(* Setters.                                                                *)
(***************************************************************************)
\* A radio that is being read.
Tunable(src) == src.capturing /\ src.config.type # "FILE"

Tell(src, field, v, accepts) ==
  [src |-> IF accepts THEN [src EXCEPT !.sdr[field] = v] ELSE src, ok |-> accepts]

Tune(src, accepts) ==
  Tell(src, "freq", src.config.freq - src.config.lnb_freq, accepts)

suscan_source_set_agc(src, set, accepts) ==
  IF ~Tunable(src) THEN Refused(src) ELSE Tell(src, "agc", set, accepts)

suscan_source_set_dc_remove(src, remove, accepts) ==
  LET told == Tell(src, "dc_remove", remove, accepts) IN
    IF ~Tunable(src) THEN Refused(src)
    ELSE IF told.ok THEN [told EXCEPT !.src.config.dc_remove = remove] ELSE told

suscan_source_set_gain(src, val, accepts) ==
  IF ~Tunable(src) THEN Refused(src)
  ELSE Tell([src EXCEPT !.config.gain = val], "gain", val, accepts)

\* The configuration gets the antenna the device says it has.
suscan_source_set_antenna(src, name, accepts) ==
  LET told == Tell(src, "antenna", name, accepts) IN
    IF ~Tunable(src) THEN Refused(src)
    ELSE [told EXCEPT !.src.config.antenna = told.src.sdr.antenna]

suscan_source_set_bandwidth(src, bw, accepts) ==
  IF ~Tunable(src) THEN Refused(src)
  ELSE Tell([src EXCEPT !.config.bandwidth = bw], "bandwidth", bw, accepts)

suscan_source_set_ppm(src, ppm, accepts) ==
  IF ~Tunable(src) THEN Refused(src)
  ELSE Tell([src EXCEPT !.config.ppm = ppm], "ppm", ppm, accepts)

\* A file says yes, and stays where it is.
suscan_source_set_freq2(src, freq, lnb, accepts) ==
  IF ~src.capturing THEN Refused(src)
  ELSE IF src.config.type = "FILE" THEN Done(src)
  ELSE Tune([src EXCEPT !.config.freq = freq, !.config.lnb_freq = lnb], accepts)

suscan_source_get_freq(src) ==
  IF Tunable(src) THEN src.sdr.freq + src.config.lnb_freq ELSE src.config.freq

==============================================================================
