---------------------------- MODULE JobLifecycle ----------------------------
(***************************************************************************)
(* What one job row promises to everything that reads it: the abstract     *)
(* life of a job, from admission to a terminal status that never changes.  *)
(* JobStore implements it for every row of the table, and JobRun for the   *)
(* row of the job it runs.                                                 *)
(***************************************************************************)
VARIABLES status, cancel, conf

vars == <<status, cancel, conf>>

Active   == {"running", "awaiting_approval"}
Pending  == Active \cup {"queued"}
Terminal == {"succeeded", "failed", "cancelled", "interrupted", "outcome_unknown"}

Init == status \in {"unused", "queued"} /\ cancel = FALSE /\ conf = FALSE

Admit ==
  /\ status = "unused" /\ status' = "queued"
  /\ UNCHANGED <<cancel, conf>>

Claim ==
  /\ status = "queued" /\ ~cancel
  /\ status' = "running"
  /\ UNCHANGED <<cancel, conf>>

\* An approval is asked for, or granted.
Approval ==
  /\ status \in Active /\ ~cancel
  /\ status' \in Active
  /\ UNCHANGED <<cancel, conf>>

StartConfirmation ==
  /\ status \in Active /\ ~cancel
  /\ conf' = TRUE
  /\ UNCHANGED <<status, cancel>>

RequestCancellation ==
  /\ status \in Pending \cup {"cancelled"}
  /\ cancel' = TRUE
  /\ status' = IF status = "queued" THEN "cancelled" ELSE status
  /\ UNCHANGED conf

Expire ==
  /\ status = "queued" /\ status' = "failed"
  /\ UNCHANGED <<cancel, conf>>

\* A run ends.  Once the confirmation has started the result is a success or
\* unknown; before that a requested cancellation excludes success and failure.
End ==
  /\ status \in Active
  /\ status' \in IF conf THEN {"succeeded", "outcome_unknown"}
                 ELSE IF cancel THEN {"cancelled", "interrupted"}
                 ELSE Terminal \ {"outcome_unknown"}
  /\ UNCHANGED <<cancel, conf>>

\* Retention may remove a row in the step that ends it, never one whose
\* confirmation is still in doubt.
Forget ==
  /\ \/ status \in Terminal
     \/ status \in Pending /\ ~conf
  /\ status' = "deleted" /\ cancel' = FALSE /\ conf' = FALSE

Next ==
  \/ Admit \/ Claim \/ Approval \/ StartConfirmation
  \/ RequestCancellation \/ Expire \/ End \/ Forget

Spec == Init /\ [][Next]_vars
=============================================================================
