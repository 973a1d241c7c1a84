---------------------------- MODULE MCLowStream -----------------------------
(* An instance of LowStream on a small scale: a second has four units, and *)
(* the counters wrap after three frames.  Two frames may have one timestamp,*)
(* or be half a second apart.                                              *)
EXTENDS LowStream
MCGaps == {0, 2}
=============================================================================
