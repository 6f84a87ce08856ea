------------------------------- MODULE Sweep -------------------------------
(***************************************************************************)
(* The sweep of a wide spectrum analyzer (analyzer/workers/wide.c): where  *)
(* the source worker tunes to next, by the parameters                      *)
(*   p == [strategy, partitioning, min, max, fft_min]                      *)
(* in force.  Frequencies are integers, and half the sample rate is one.   *)
(***************************************************************************)
EXTENDS Integers

CONSTANT samp_rate

ASSUME SweepAssumption == samp_rate \in Nat \ {0} /\ samp_rate % 2 = 0

Step == samp_rate \div 2

\* Bandwidth of a partition: with the discrete one, half the sample rate.
PartBw(p) == IF p.partitioning = "DISCRETE" THEN Step ELSE 1

Centre(p) == (p.min + p.max) \div 2

\* Partitions in order, and round again.
Progressive(p, ndx) ==
  IF Step * ndx + p.min > p.max THEN [freq |-> p.min, ndx |-> 1]
  ELSE [freq |-> Step * ndx + p.min, ndx |-> ndx + 1]

\* suscan_local_analyzer_hop: where to go, [freq, ndx], from freq with the
\* index ndx.  A range narrower than one hertz is a single frequency, and a
\* random number is between 0 and 1 inclusive.
suscan_local_analyzer_hop(p, freq, ndx) ==
  LET bw == p.max - p.min
  IN CASE bw < 1 -> {[freq |-> Centre(p), ndx |-> ndx]}
       [] bw >= 1 /\ p.strategy = "STOCHASTIC" ->
            {[freq |-> PartBw(p) * k + p.min, ndx |-> ndx] : k \in 0 .. bw \div PartBw(p)}
       [] bw >= 1 /\ p.strategy = "PROGRESSIVE" -> {Progressive(p, ndx)}
=============================================================================
