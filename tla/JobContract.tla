---------------------------- MODULE JobContract -----------------------------
(***************************************************************************)
(* The jobs table implements the abstract life of a job, row by row.       *)
(***************************************************************************)
EXTENDS JobStore

Lifecycle(j) ==
  INSTANCE JobLifecycle WITH
    status <- jobs[j].status,
    cancel <- IF Is(j, Row) THEN jobs[j].cancel ELSE FALSE,
    conf   <- IF Is(j, Row) THEN jobs[j].conf ELSE FALSE

\* Whatever the store calls of workers, handlers and restarts and whichever
\* rows the triggers delete, each row lives the life JobLifecycle describes.
\* The formula is \A j : Lifecycle(j)!Spec with the quantifier inside the box.
EveryJobFollowsLifecycle ==
  /\ \A j \in JobId : Lifecycle(j)!Init
  /\ [][\A j \in JobId : [Lifecycle(j)!Next]_(Lifecycle(j)!vars)]_vars
=============================================================================
