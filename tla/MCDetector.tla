------------------------------- MODULE MCDetector -------------------------------
(***************************************************************************)
(* Small instances of AnomalyDetector for TLC: a tick is one second, and a *)
(* rate is given in tenths of a request per second.                        *)
(***************************************************************************)
EXTENDS AnomalyDetector, TLC

Symmetry == Permutations(Tasks)

===============================================================================
