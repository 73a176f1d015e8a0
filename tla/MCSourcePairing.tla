--------------------------- MODULE MCSourcePairing --------------------------
(***************************************************************************)
(* SourcePairing for TLC.  A behaviour has one of two workloads: edits of  *)
(* the source beside one challenge, or two challenges that overlap, with   *)
(* the source as it was set up.                                            *)
(***************************************************************************)
EXTENDS SourcePairing

VARIABLE pairingLoad

\* Bounds of the workload on what a step may use.
PairingWithin ==
  IF pairingLoad = "edits"
  THEN \A g \in Goroutine : g[2] > 1 => gpc[g] = "new"
  ELSE \A e \in Editor : edit[e] = Idle

PairingLoadInit == pairingLoad \in {"edits", "challenges"} /\ Init
PairingLoadNext == Next /\ UNCHANGED pairingLoad /\ PairingWithin'

EditsSpec == Init /\ pairingLoad = "edits" /\ [][PairingLoadNext]_<<vars, pairingLoad>>
=============================================================================
