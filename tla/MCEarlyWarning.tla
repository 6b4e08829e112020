--------------------------- MODULE MCEarlyWarning ---------------------------
(* EarlyWarning for TLC.                                                     *)
EXTENDS EarlyWarning, TLC

\* One backtest, which just holds the floor.
MCEvidence == {[confirmed |-> 1, total |-> 2]}
MCFloor == <<1, 2>>
Symmetry == Permutations(AlertId) \cup Permutations(Signal) \cup Permutations(SignalVersion)
=============================================================================
