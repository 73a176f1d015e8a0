------------------------------ MODULE MCJobRun ------------------------------
(* The instances of JobRun for TLC: the configurations give the run modes   *)
(* and the faults as sets of strings.                                       *)
EXTENDS JobRun
=============================================================================
