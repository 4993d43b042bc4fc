------------------------------- MODULE MCSound -------------------------------
(* sweep: off, up and down, and off with a step, which still tests for an        *)
(* overflow; no DAC, an envelope that rises from silence, and one that fades.    *)
(* pulse: the same envelopes, two pulses and two periods.  wave: periods of two   *)
(* registers, a wave of three samples.  noise: a divider of 0,                   *)
(* the shortest period in both modes, and a shift; fewer counter values than      *)
(* the program's, more than any period.  samples: batches of four and frames     *)
(* of two.                                                                     *)
EXTENDS Sound

ChosenSweeps ==
  {NoSweep,
   [pace |-> 0, negative |-> FALSE, step |-> 1],
   [pace |-> 1, negative |-> FALSE, step |-> 1],
   [pace |-> 1, negative |-> TRUE, step |-> 1]}
ChosenVolumes ==
  {Mute, [level |-> 0, up |-> TRUE, pace |-> 1], [level |-> 1, up |-> FALSE, pace |-> 1]}
ChosenRandomness ==
  {[divider |-> 0, shift |-> 0, short |-> FALSE],
   [divider |-> 1, shift |-> 0, short |-> FALSE],
   [divider |-> 1, shift |-> 0, short |-> TRUE],
   [divider |-> 1, shift |-> 1, short |-> FALSE]}
=============================================================================
