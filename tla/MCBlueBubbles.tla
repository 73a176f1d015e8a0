---------------------------- MODULE MCBlueBubbles ---------------------------
(***************************************************************************)
(* BlueBubbles for TLC: a message arrives at once, or late enough to be    *)
(* older than the freshness of an arm made when it arrives; three messages *)
(* of any kind, or four for a paired source, of which one carries a code.  *)
(***************************************************************************)
EXTENDS BlueBubbles

LagsDef == {0, 2}

\* Bounds of the instance on what a step may use.
ProviderWithin ==
  Len(rows) > 3 => ~pairing /\ Cardinality({i \in DOMAIN rows : rows[i].code}) <= 1
=============================================================================
