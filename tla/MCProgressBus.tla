---------------------------- MODULE MCProgressBus ----------------------------
(* Browsers watching one run, with queues short enough to fill. *)
EXTENDS ProgressBus, TLC

CONSTANTS s1, s2

MCStream == {s1, s2}
MCSymmetry == Permutations(MCStream)
==============================================================================
