-------------------------- MODULE MCLakeConnection --------------------------
(***************************************************************************)
(* LakeConnection for TLC.  A behaviour has one of three workloads: the    *)
(* setup of two sign-ins up to a booking, the status of one sign-in whose  *)
(* number changes twice, and bookings beside sign-ins of the same profile. *)
(***************************************************************************)
EXTENDS LakeConnection, TLC

VARIABLE lakeLoad

Symmetry == Permutations(Profile) \cup Permutations(Request) \cup Permutations(Phone)

LakeLoad(ops, settings, profiles, phones, queued, changed) ==
  [ops |-> ops \cup {"none"}, settings |-> settings, profiles |-> profiles, phones |-> phones,
   jobs |-> queued, edits |-> changed]

Choices     == LakeLoad({"create", "edit", "choose", "update", "reset", "book"}, 2, 2, 1, 1, 1)
Renumbering == LakeLoad({"create", "edit", "sign-in", "view"}, 2, 1, 2, 2, 2)
Reruns      == LakeLoad({"create", "edit", "sign-in", "book", "view"}, 2, 1, 2, 2, 1)

MaxBookings == 1

Saved == {p \in Profile : profile[p] # Nil}

\* Bounds of the workload: operations, requests at once that read the settings,
\* sign-ins, numbers in use, jobs, edits, bookings; choices end with the admission
\* of its booking.
LakeWithin ==
  /\ \A r \in Request : req[r].op \in lakeLoad.ops
  /\ Cardinality({r \in Request : req[r].op \in {"choose", "update", "reset", "book"}}) <= lakeLoad.settings
  /\ Cardinality((Saved \cup {req[r].profile : r \in Request}) \ {Nil}) <= lakeLoad.profiles
  /\ Cardinality({profile[p].phone : p \in Saved}) <= lakeLoad.phones
  /\ Len(jobs) <= lakeLoad.jobs /\ edits <= lakeLoad.edits
  /\ Cardinality({j \in DOMAIN jobs : jobs[j].command = "book"})
       + Cardinality({r \in Request : req[r].op = "book"}) <= MaxBookings
  /\ lakeLoad = Choices => \A j \in DOMAIN jobs : jobs[j].status = "queued"

LakeLoadInit == lakeLoad \in {Choices, Renumbering, Reruns} /\ LakeInit
LakeLoadNext == LakeNext /\ UNCHANGED lakeLoad /\ LakeWithin'

LakeLoadSpec == LakeLoadInit /\ [][LakeLoadNext]_<<lakeVars, lakeLoad>>
ChoicesSpec == LakeInit /\ lakeLoad = Choices /\ [][LakeLoadNext]_<<lakeVars, lakeLoad>>
=============================================================================
