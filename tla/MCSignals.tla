----------------------------- MODULE MCSignals ------------------------------
(***************************************************************************)
(* SignalGroup on small instances.                                         *)
(***************************************************************************)
EXTENDS SignalGroup, TLC

SignalSymmetry == Permutations(Signals)
=============================================================================
