----------------------------- MODULE MCSlowConf ------------------------------
(***************************************************************************)
(* Settings only meet in the queue of the slow worker: three requests, for *)
(* any of them, are two of one setting and one of another between them.    *)
(* Files are short, and shorter than the buffer in one setup; the one that *)
(* is throttled lives long enough to be late and very late.                *)
(***************************************************************************)
EXTENDS SlowConf

Config(type, average, loops) ==
  [type |-> type, format |-> "RAW", samp_rate |-> 2, average |-> average,
   loop |-> loops, start_time |-> 0, freq |-> 3, lnb_freq |-> 1, bandwidth |-> 1,
   ppm |-> 0, dc_remove |-> 1, antenna |-> NULL, gain |-> 2]

Device == [freq |-> 0, bandwidth |-> 0, ppm |-> 0, dc_remove |-> 0, agc |-> 0,
           antenna |-> 5, gain |-> 0, samp_rate |-> 0, rates |-> <<4, 1, 2>>,
           has_dc_mode |-> TRUE]

Base == [config |-> Config("SDR", 1, FALSE), sdr |-> Device, frames |-> 4,
         file_rate |-> 1, used |-> {}, requests |-> 0, reads |-> 0, ticks |-> 0,
         answers |-> {0}, force |-> FALSE]

\* Every setting of a radio.
Radio == [Base EXCEPT !.used = Settings \ {"seek", "throttle"}, !.requests = 3]

\* A radio that is read while it is tuned, and decimated.
Reading == [Base EXCEPT !.config = Config("SDR", 2, FALSE), !.used = {"freq", "seek"},
              !.requests = 2, !.reads = 2, !.answers = {-1, 0, 1, 2, 3}, !.force = TRUE]

\* A file that is throttled.
Throttled == [Base EXCEPT !.config = Config("FILE", 1, FALSE), !.used = {"seek", "throttle"},
                !.requests = 2, !.reads = 4, !.ticks = 6]

\* Files that loop, the first one shorter than a read, the other decimated.
Looped == [Base EXCEPT !.config = Config("FILE", 1, TRUE), !.frames = 2, !.file_rate = 2,
             !.used = {"seek", "freq"}, !.requests = 2, !.reads = 4, !.ticks = 4, !.force = TRUE]
Decimated == [Base EXCEPT !.config = Config("FILE", 2, TRUE), !.frames = 7, !.file_rate = 4,
                !.used = {"seek"}, !.requests = 2, !.reads = 4, !.ticks = 4]

MCSetups == {Radio, Reading, Throttled, Looped, Decimated}
==============================================================================
