------------------------------ MODULE Throttle -------------------------------
(***************************************************************************)
(* The throttle that makes a file last as long as its samples              *)
(* (analyzer/throttle.c).  Time is divided in checkpoints of delta_t       *)
(* ticks, in each of which delta_s samples may be read.  Rates are in      *)
(* samples per Second, a number of ticks.                                  *)
(***************************************************************************)
EXTENDS Integers, FiniteSetsExt

CONSTANTS
  Second,              \* ticks
  CheckpointDuration,  \* SUSCAN_THROTTLE_CHECKPOINT_DURATION_NS
  LateDelay            \* SUSCAN_THROTTLE_LATE_DELAY_NS

ASSUME ThrottleAssumption ==
  /\ {Second, CheckpointDuration, LateDelay} \subseteq Nat \ {0}
  /\ CheckpointDuration <= LateDelay

MinBlockSize == 1

\* A checkpoint has a sample at least, if it takes a longer one.
suscan_throttle_init(t, samp_rate) ==
  LET samples == (samp_rate * CheckpointDuration) \div Second
      short == samples < MinBlockSize
      delta_s == IF short THEN MinBlockSize ELSE samples
      delta_t == IF short THEN (delta_s * Second) \div samp_rate ELSE CheckpointDuration
  IN [t0 |-> t, delta_s |-> delta_s, delta_t |-> delta_t, avail |-> delta_s]

\* Mutant: the checkpoint that is over is not replaced by a new one.
GetPortionOfNothing(self, t, h) ==
  LET elapsed == t - self.t0 IN
    IF 0 <= elapsed /\ elapsed < self.delta_t
    THEN [throttle |-> self, sleep |-> 0, portion |-> Min({h, self.avail})]
    ELSE [throttle |-> [self EXCEPT !.t0 = t, !.avail = self.delta_s],
          sleep |-> 0, portion |-> Min({h, self.delta_s})]

\* How many of h samples may be read at time t, after sleeping: when the
\* checkpoint is used up the reader waits for the next one, and when several
\* have passed their samples pile up, unless the reader is very late.  The
\* difference of the times is unsigned: a reader that woke too early is late.
suscan_throttle_get_portion(self, t, h) ==
  LET elapsed == t - self.t0
      skipped == elapsed \div self.delta_t
      early == 0 <= elapsed /\ elapsed < self.delta_t
      late == elapsed < 0 \/ (~early /\ elapsed >= LateDelay)
      new == CASE early /\ self.avail > 0 -> self
               [] early /\ self.avail = 0 ->
                    [self EXCEPT !.t0 = @ + self.delta_t, !.avail = self.delta_s]
               [] late -> [self EXCEPT !.t0 = t, !.avail = self.delta_s]
               [] OTHER -> [self EXCEPT !.t0 = @ + skipped * self.delta_t,
                                        !.avail = @ + skipped * self.delta_s]
  IN [throttle |-> new,
      sleep |-> IF early /\ self.avail = 0 THEN self.delta_t - elapsed ELSE 0,
      portion |-> Min({h, new.avail})]

suscan_throttle_advance(self, got) == [self EXCEPT !.avail = @ - Min({@, got})]

==============================================================================
