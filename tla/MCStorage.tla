----------------------------- MODULE MCStorage ------------------------------
(***************************************************************************)
(* Storage for TLC: two jobs, each of a profile of its own.  The second    *)
(* job is prepared, and may be cancelled or pruned, but starts no browser. *)
(***************************************************************************)
EXTENDS Storage

CONSTANTS i1, i2, j1, j2

Profiles == [j \in Job |-> IF j = j2 THEN i2 ELSE i1]

\* Bounds of the instance on what a step may use.
StorageWithin == run[j2] # "exec"

StorageLoadInit == StorageInit /\ pdir[i1] = "none"
StorageLoadNext == StorageNext /\ StorageWithin'

RetrySpec == StorageLoadInit /\ [][StorageLoadNext]_storageVars /\ StorageFairness
=============================================================================
