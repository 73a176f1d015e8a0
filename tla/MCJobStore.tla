----------------------------- MODULE MCJobStore -----------------------------
(***************************************************************************)
(* A small instance of JobStore for TLC.  A behaviour has one of three     *)
(* workloads, so that the bounds are spent where they matter: two profiles *)
(* and two inboxes (leases, limits), one date over three days (the booking *)
(* guard), and an account that is disabled, enabled and removed.           *)
(***************************************************************************)
EXTENDS JobContract, TLC

CONSTANTS admin, member, p1, p2, s1, s2

VARIABLE load

MemberOwnsAll == [x \in {p1, p2, s1, s2} |-> member]
Symmetry == Permutations({p1, p2}) \cup Permutations({s1, s2})

\* dry: the jobs that may be dry runs; the others book.
Load(resources, dry, time, revoke) ==
  [resources |-> resources, dry |-> dry, time |-> time, revoke |-> revoke]

Loads ==
  {Load({p1, p2, s1, s2}, {}, 0, FALSE),
   Load({p1, s1}, {2}, 5, FALSE),
   Load({p1, s1}, {2}, 1, TRUE)}

\* Bounds of the workload on what a step may use.
Within ==
  /\ now <= load.time
  /\ \A p \in Profiles \ load.resources : profile[p] = "enabled" \/ account[Owner[p]] = "deleted"
  /\ \A j \in JobId : Is(j, Row) =>
       /\ {jobs[j].profile, jobs[j].source} \subseteq load.resources
       /\ jobs[j].command = "book" \/ j \in load.dry
  /\ load.revoke \/ \A u \in Users : account[u] = "active"

LoadInit == load \in Loads /\ Init
LoadNext == Next /\ UNCHANGED load /\ Within'
LoadSpec == LoadInit /\ [][LoadNext]_<<vars, load>>
=============================================================================
