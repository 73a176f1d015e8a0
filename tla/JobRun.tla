------------------------------- MODULE JobRun -------------------------------
(***************************************************************************)
(* One job from its claim to its end: the engine worker (runClaimed), the  *)
(* coordinator's select loop (control.Run), the live hub's decision        *)
(* waiter, the supervised process session (actionproc) and the Python      *)
(* worker with its browser, together with an operator who cancels,         *)
(* approves or disables the account, and a control plane that stops,       *)
(* crashes and restarts.                                                   *)
(*                                                                         *)
(* The database row is kept as JobStore has it, for one job.  Frames that  *)
(* only feed the event log are left out, signing in is part of the         *)
(* worker's "working" phase, and a run.complete frame is represented by    *)
(* the status it carries.                                                  *)
(***************************************************************************)
EXTENDS Sequences, Naturals

CONSTANTS
  Modes,    \* "manual" and "auto" bookings, "check" for other commands
  FaultSets \* sets of faults: "crash" of the control plane, "store" errors

ASSUME FaultsAssumption ==
  Modes \subseteq {"manual", "auto", "check"} /\ FaultSets \subseteq SUBSET {"crash", "store"}

VARIABLES
  mode,                         \* the job's command and run mode
  faults,                       \* the faults that may happen to it
  status, cancel, conf,         \* the jobs row
  account, decision,            \* users.status and the job_decisions row
  engine,                       \* the control plane: "up", "stopping", "down"
  pc,                           \* runClaimed: idle, loading, run, returned, done
  jobCause,                     \* context.Cause(jobCtx)
  budget,                       \* the execution context hit a time or storage limit
  outcome,                      \* what execute returned: "err" or a status
  waiter,                       \* Hub.decisions[job]
  run,                          \* the coordinator's runState
  proc, pipe, cancelling,       \* the session: process, its stdin, Cancel called
  toWorker, toEngine,           \* frames in flight
  py, clicked, booked           \* Python's phase; the click; Yodel's answer

given   == <<mode, faults>>
row     == <<status, cancel, conf, account, decision>>
worker  == <<engine, pc, jobCause, budget, outcome>>
session == <<proc, pipe, cancelling>>
browser == <<py, clicked, booked>>
vars == <<given, row, worker, waiter, run, session, toWorker, toEngine, browser>>

Active    == {"running", "awaiting_approval"}
Retryable == {"failed", "cancelled", "interrupted"}
Terminal  == Retryable \cup {"succeeded", "outcome_unknown"}

NewRun == [ready |-> FALSE, ctxSeen |-> FALSE, waiting |-> FALSE, async |-> "none",
           started |-> FALSE, completed |-> FALSE, terminal |-> "none",
           procDone |-> FALSE, closed |-> FALSE]

Revoked == cancel \/ account # "active"
CtxDone == jobCause # "none" \/ budget
StoreMayFail == CtxDone \/ "store" \in faults

-----------------------------------------------------------------------------
(***************************************************************************)
(* The database calls of the run, as in JobStore.                          *)
(***************************************************************************)
CanAwait  == status = "running" /\ ~Revoked
\* Mutants: a resumed approval, or the mark, that ignores a revocation.
CanResumeRevoked == status = "awaiting_approval"
CanMarkRevoked == status \in Active
CanResume == status = "awaiting_approval" /\ ~Revoked
CanMark   == status \in Active /\ ~Revoked
\* Mutant: the worker's result stands after a started confirmation.
ResolveIgnoringMark(to) == IF ~conf /\ Revoked THEN "cancelled" ELSE to
Resolve(to) ==
  IF conf /\ to # "succeeded" THEN "outcome_unknown"
  ELSE IF ~conf /\ Revoked THEN "cancelled"
  ELSE to

-----------------------------------------------------------------------------
(***************************************************************************)
(* The engine worker.                                                      *)
(***************************************************************************)
Claim ==
  /\ engine = "up" /\ pc = "idle" /\ status = "queued" /\ ~Revoked
  /\ status' = "running" /\ pc' = "loading"
  /\ UNCHANGED <<given, cancel, conf, account, decision, engine, jobCause, budget, outcome,
                 waiter, run, session, toWorker, toEngine, browser>>

\* Loading inputs, the provider check or the profile directory failed.
LoadFails ==
  /\ engine # "down" /\ pc = "loading"
  /\ pc' = "returned" /\ outcome' = "err"
  /\ UNCHANGED <<given, row, engine, jobCause, budget, waiter, run, session, toWorker, toEngine, browser>>

StartProcess ==
  /\ engine # "down" /\ pc = "loading"
  /\ pc' = "run" /\ proc' = "alive" /\ pipe' = "open" /\ py' = "boot"
  /\ UNCHANGED <<given, row, engine, jobCause, budget, outcome, waiter, run, cancelling,
                 toWorker, toEngine, clicked, booked>>

Executing == engine # "down" /\ pc \in {"loading", "run"}

BudgetExpires ==
  /\ Executing /\ ~CtxDone
  /\ budget' = TRUE
  /\ UNCHANGED <<given, row, engine, pc, jobCause, outcome, waiter, run, session, toWorker, toEngine, browser>>

ArtifactLimit ==
  /\ Executing /\ jobCause = "none"
  /\ jobCause' = "artifact"
  /\ UNCHANGED <<given, row, engine, pc, budget, outcome, waiter, run, session, toWorker, toEngine, browser>>

CancelWaiter == waiter' = IF waiter = "open" THEN "cancel" ELSE waiter

\* monitorCancellation sees the flag, or CancelJob signals the run directly.
ObserveCancellation ==
  /\ engine # "down" /\ pc \in {"loading", "run", "returned"} /\ cancel /\ jobCause # "user"
  /\ CancelWaiter
  /\ jobCause' = IF jobCause = "none" THEN "user" ELSE jobCause
  /\ UNCHANGED <<given, row, engine, pc, budget, outcome, run, session, toWorker, toEngine, browser>>

\* Mutant: a shutdown overrides every result.
FinalStatusShutdownFirst(seen) ==
  IF engine # "up" THEN "interrupted"
  ELSE IF seen /\ outcome # "succeeded" THEN "outcome_unknown"
  ELSE IF jobCause = "user" /\ ~seen THEN "cancelled"
  ELSE IF outcome = "err" \/ (jobCause = "artifact" /\ ~seen) THEN "failed"
  ELSE outcome

\* runClaimed's classification; seen is the confirmation mark as it read it.
FinalStatus(seen) ==
  LET result == IF seen /\ outcome # "succeeded" THEN "outcome_unknown" ELSE outcome IN
  IF outcome = "err" /\ seen THEN "outcome_unknown"
  ELSE IF engine # "up" /\ ~seen THEN "interrupted"
  ELSE IF jobCause = "user" /\ ~seen THEN "cancelled"
  ELSE IF outcome = "err" \/ (jobCause = "artifact" /\ ~seen) THEN "failed"
  ELSE result

Seen == IF "store" \in faults THEN {conf, FALSE} ELSE {conf}
Expected(to) == IF to = "succeeded" THEN {"running"} ELSE Active

Finish ==
  /\ engine # "down" /\ pc = "returned"
  /\ \E seen \in Seen :
       LET to == FinalStatus(seen)
           accepted == status \in Expected(to) /\ (to = "outcome_unknown" => conf) IN
       \/ accepted /\ status' = Resolve(to)
       \/ (~accepted \/ "store" \in faults) /\ UNCHANGED status
  /\ pc' = "done"
  /\ UNCHANGED <<given, cancel, conf, account, decision, engine, jobCause, budget, outcome,
                 waiter, run, session, toWorker, toEngine, browser>>

-----------------------------------------------------------------------------
(***************************************************************************)
(* The coordinator.  A frame handler that fails cancels the process and    *)
(* returns without waiting for it, a failing approval just returns;        *)
(* otherwise Run returns when the frames are drained and the process has   *)
(* exited.                                                                 *)
(***************************************************************************)
InRun == engine # "down" /\ pc = "run"

FinishRun(r) ==
  IF r.terminal # "none"
  THEN IF r.started /\ r.terminal = "failed" THEN "outcome_unknown" ELSE r.terminal
  ELSE IF r.started THEN "outcome_unknown"
  ELSE IF CtxDone THEN "interrupted" ELSE "failed"

\* The deferred overrides of Run and executeWithBudgets.
Returned(r, result) ==
  IF r.completed THEN "succeeded"
  ELSE IF budget /\ result \notin {"err", "succeeded", "outcome_unknown"} THEN "failed"
  ELSE result

Return(r, result) == pc' = "returned" /\ outcome' = Returned(r, result)
AskCancel == cancelling' = IF cancelling = "no" THEN "asked" ELSE cancelling
Fail == Return(run, "err") /\ AskCancel                   \* a frame's handler failed
AsyncFail == Return(run, "err") /\ UNCHANGED cancelling   \* an approval could not be passed on
Continue == UNCHANGED <<pc, outcome, cancelling>>

Send(frame) == toWorker' = Append(toWorker, frame)
SendOr(frame, failure) ==
  \/ Send(frame) /\ Continue
  \/ proc = "exited" /\ failure /\ UNCHANGED toWorker

Receive(frame) ==
  /\ InRun /\ toEngine # <<>> /\ Head(toEngine) = frame
  /\ toEngine' = Tail(toEngine)
  /\ UNCHANGED <<given, cancel, account, decision, engine, jobCause, budget, proc, pipe, browser>>

HandleReady ==
  /\ Receive("worker.ready")
  /\ run' = [run EXCEPT !.ready = TRUE]
  /\ SendOr("run.start", Fail)
  /\ UNCHANGED <<status, conf, waiter>>

HandleApprovalRequest ==
  /\ Receive("approval.request")
  /\ waiter' = "open"
  /\ \/ /\ CanAwait
        /\ status' = "awaiting_approval" /\ run' = [run EXCEPT !.waiting = TRUE]
        /\ Continue
     \/ (~CanAwait \/ StoreMayFail) /\ Fail /\ UNCHANGED <<status, run>>
  /\ UNCHANGED <<conf, toWorker>>

\* Mutant: Python is let through before the mark is known to be stored.
ConfirmationReadyBeforeMark ==
  /\ Receive("confirmation.starting")
  /\ Send("confirmation.ready")
  /\ \/ CanMark /\ conf' = TRUE /\ run' = [run EXCEPT !.started = TRUE] /\ Continue
     \/ (~CanMark \/ StoreMayFail) /\ Fail /\ UNCHANGED <<conf, run>>
  /\ UNCHANGED <<status, waiter>>

HandleConfirmationStarting ==
  /\ Receive("confirmation.starting")
  /\ \/ /\ CanMark
        /\ conf' = TRUE /\ run' = [run EXCEPT !.started = TRUE]
        /\ SendOr("confirmation.ready", Fail)
     \/ /\ ~CanMark \/ StoreMayFail
        /\ Send("confirmation.error") /\ Fail
        /\ UNCHANGED <<conf, run>>
  /\ UNCHANGED <<status, waiter>>

HandleConfirmationCompleted ==
  /\ Receive("confirmation.completed")
  /\ run' = [run EXCEPT !.completed = run.started]
  /\ IF run.started THEN Continue ELSE Fail
  /\ UNCHANGED <<status, conf, waiter, toWorker>>

HandleComplete(st) ==
  /\ Receive(st)
  /\ run' = [run EXCEPT !.terminal = st]
  /\ Continue
  /\ UNCHANGED <<status, conf, waiter, toWorker>>

\* Hub.WaitDecision in its goroutine: a decision, or the context's error,
\* which the goroutine may also drop once the context is done.
WaitDecision ==
  /\ engine # "down" /\ run.waiting
  /\ \/ waiter # "open" /\ run' = [run EXCEPT !.waiting = FALSE, !.async = waiter]
     \/ /\ CtxDone \/ pc # "run"
        /\ \E result \in {"error", "none"} :
             run' = [run EXCEPT !.waiting = FALSE, !.async = result]
  /\ waiter' = "none"
  /\ UNCHANGED <<given, row, worker, session, toWorker, toEngine, browser>>

HandleApproval ==
  /\ InRun /\ run.async # "none"
  /\ run' = [run EXCEPT !.async = "none"]
  /\ \/ run.async = "error" /\ Send("approval.cancel") /\ Continue /\ UNCHANGED status
     \/ run.async = "cancel" /\ SendOr("approval.cancel", AsyncFail) /\ UNCHANGED status
     \/ /\ run.async = "approve" /\ CanResume
        /\ status' = "running" /\ SendOr("approval.approve", AsyncFail)
     \/ /\ run.async = "approve" /\ (~CanResume \/ StoreMayFail)
        /\ AsyncFail /\ UNCHANGED <<status, toWorker>>
  /\ UNCHANGED <<given, cancel, conf, account, decision, engine, jobCause, budget, waiter,
                 proc, pipe, toEngine, browser>>

HandleCtxDone ==
  /\ InRun /\ CtxDone /\ ~run.ctxSeen
  /\ run' = [run EXCEPT !.ctxSeen = TRUE]
  /\ CancelWaiter /\ AskCancel
  /\ UNCHANGED <<given, row, worker, proc, pipe, toWorker, toEngine, browser>>

\* Mutant: Run waits for a terminal frame that may never come.
ReturnOnTerminalFrame(r) ==
  IF r.procDone /\ r.closed /\ r.terminal # "none" THEN Return(r, FinishRun(r))
  ELSE UNCHANGED <<pc, outcome>>

ReturnWhenDone(r) ==
  IF r.procDone /\ r.closed THEN Return(r, FinishRun(r)) ELSE UNCHANGED <<pc, outcome>>

HandleDone ==
  /\ InRun /\ proc = "exited" /\ ~run.procDone
  /\ run' = [run EXCEPT !.procDone = TRUE]
  /\ ReturnWhenDone([run EXCEPT !.procDone = TRUE])
  /\ UNCHANGED <<given, row, engine, jobCause, budget, waiter, session, toWorker, toEngine, browser>>

HandleEventsClosed ==
  /\ InRun /\ proc = "exited" /\ toEngine = <<>> /\ ~run.closed
  /\ run' = [run EXCEPT !.closed = TRUE]
  /\ ReturnWhenDone([run EXCEPT !.closed = TRUE])
  /\ UNCHANGED <<given, row, engine, jobCause, budget, waiter, session, toWorker, toEngine, browser>>
-----------------------------------------------------------------------------
(***************************************************************************)
(* The session: cooperative cancellation, then a kill of the whole group.  *)
(***************************************************************************)
\* Mutant: the process is bound to a context that outlives its run.
SessionCancelLongContext ==
  /\ InRun /\ CtxDone /\ proc = "alive" /\ cancelling = "no"
  /\ AskCancel
  /\ UNCHANGED <<given, row, worker, waiter, run, proc, pipe, toWorker, toEngine, browser>>

\* The session's own watcher of its context, which also ends when
\* executeWithBudgets returns.
SessionCancel ==
  /\ pipe = "open" /\ proc = "alive" /\ cancelling = "no"
  /\ CtxDone \/ pc \in {"returned", "done"}
  /\ AskCancel
  /\ UNCHANGED <<given, row, worker, waiter, run, proc, pipe, toWorker, toEngine, browser>>

SendCancel ==
  /\ engine # "down" /\ cancelling = "asked" /\ proc = "alive"
  /\ cancelling' = "sent" /\ Send("control.cancel")
  /\ UNCHANGED <<given, row, worker, waiter, run, proc, pipe, toEngine, browser>>

\* The grace period is over.  Frames not yet read may be dropped.
ForceKill ==
  /\ engine # "down" /\ cancelling # "no" /\ proc = "alive"
  /\ proc' = "exited"
  /\ \E n \in 0..Len(toEngine) : toEngine' = SubSeq(toEngine, 1, n)
  /\ UNCHANGED <<given, row, worker, waiter, run, pipe, cancelling, toWorker, browser>>

\* Python exits at the end of main, or dies at any other point.
WorkerExits ==
  /\ proc = "alive" /\ proc' = "exited"
  /\ UNCHANGED <<given, row, worker, waiter, run, pipe, cancelling, toWorker, toEngine, browser>>

-----------------------------------------------------------------------------
(***************************************************************************)
(* The Python worker.                                                      *)
(***************************************************************************)
WorkerStep ==
  /\ proc = "alive"
  /\ UNCHANGED <<given, row, worker, waiter, run, session>>
Untouched == UNCHANGED <<clicked, booked>>

\* A write to a closed pipe raises, and main ends without a terminal frame.
Emit(frame, next) ==
  IF pipe = "open" THEN toEngine' = Append(toEngine, frame) /\ py' = next
  ELSE py' = "closing" /\ UNCHANGED toEngine
Complete(st) == Emit(st, "closing")

EOF == pipe = "closed" /\ toWorker = <<>>
Next1(frame) == toWorker # <<>> /\ Head(toWorker) = frame /\ toWorker' = Tail(toWorker)
CancelVisible == EOF \/ \E i \in DOMAIN toWorker : toWorker[i] = "control.cancel"

WorkerReady ==
  /\ WorkerStep /\ py = "boot"
  /\ Emit("worker.ready", "ready")
  /\ Untouched /\ UNCHANGED toWorker

ReadStart ==
  /\ WorkerStep /\ py = "ready"
  /\ \/ Next1("run.start") /\ py' = "working" /\ UNCHANGED toEngine
     \/ Next1("control.cancel") /\ py' = "closing" /\ UNCHANGED toEngine
     \/ EOF /\ Complete("failed") /\ UNCHANGED toWorker
  /\ Untouched

\* Any ActionError before the confirmation gate, an expired approval included.
ActionFails ==
  /\ WorkerStep /\ py \in {"working", "approval", "approved"}
  /\ Complete("failed")
  /\ Untouched /\ UNCHANGED toWorker

CheckCancelled ==
  /\ WorkerStep /\ py \in {"working", "approved"} /\ CancelVisible
  /\ Complete("cancelled")
  /\ Untouched /\ UNCHANGED toWorker

CheckSucceeds ==
  /\ WorkerStep /\ py = "working" /\ mode = "check"
  /\ Complete("succeeded")
  /\ Untouched /\ UNCHANGED toWorker

RequestApproval ==
  /\ WorkerStep /\ py = "working" /\ mode = "manual"
  /\ Emit("approval.request", "approval")
  /\ Untouched /\ UNCHANGED toWorker

WaitForApproval ==
  /\ WorkerStep /\ py = "approval"
  /\ \/ Next1("approval.approve") /\ py' = "approved" /\ UNCHANGED toEngine
     \/ (Next1("approval.cancel") \/ Next1("control.cancel")) /\ Complete("cancelled")
     \/ EOF /\ Complete("cancelled") /\ UNCHANGED toWorker
  /\ Untouched

AwaitConfirmationReady ==
  /\ WorkerStep
  /\ py = "approved" \/ (py = "working" /\ mode = "auto")
  /\ Emit("confirmation.starting", "gate")
  /\ Untouched /\ UNCHANGED toWorker

\* The click, whose effect at Yodel nobody has observed yet.
ClickFinalConfirmation ==
  /\ WorkerStep /\ py = "gate" /\ Next1("confirmation.ready")
  /\ py' = "clicked" /\ clicked' = TRUE /\ booked' \in BOOLEAN
  /\ UNCHANGED toEngine

GateRefused ==
  /\ WorkerStep /\ py = "gate"
  /\ \/ Next1("confirmation.error") /\ Complete("failed")
     \/ Next1("control.cancel") /\ Complete("cancelled")
     \/ EOF /\ Complete("cancelled") /\ UNCHANGED toWorker
  /\ Untouched

\* CheckoutConfirmation.wait: a verified receipt, or an exception.
VerifyReceipt ==
  /\ WorkerStep /\ py = "clicked"
  /\ \/ booked /\ Emit("confirmation.completed", "verified")
     \/ Complete("outcome_unknown")
  /\ Untouched /\ UNCHANGED toWorker

AfterVerification ==
  /\ WorkerStep /\ py = "verified"
  /\ \E st \in {"succeeded", "failed"} : Complete(st)
  /\ Untouched /\ UNCHANGED toWorker

-----------------------------------------------------------------------------
(***************************************************************************)
(* The operator.                                                           *)
(***************************************************************************)
CancelRow ==
  /\ cancel' = TRUE
  /\ status' = IF status = "queued" THEN "cancelled" ELSE status

RequestCancellation ==
  /\ status \in Active \cup {"queued", "cancelled"} /\ CancelRow
  /\ UNCHANGED <<given, conf, account, decision, worker, waiter, run, session, toWorker, toEngine, browser>>

DisableAccount ==
  /\ account = "active" /\ account' = "disabled"
  /\ IF status \in Terminal THEN UNCHANGED <<status, cancel>> ELSE CancelRow
  /\ UNCHANGED <<given, conf, decision, worker, waiter, run, session, toWorker, toEngine, browser>>

EnableAccount ==
  /\ account = "disabled" /\ account' = "active"
  /\ UNCHANGED <<given, status, cancel, conf, decision, worker, waiter, run, session,
                 toWorker, toEngine, browser>>

RecordJobDecision(d) ==
  /\ status = "awaiting_approval" /\ account = "active" /\ decision = "none"
  /\ engine # "down"
  /\ decision' = d
  /\ UNCHANGED <<given, status, cancel, conf, account, worker, waiter, run, session,
                 toWorker, toEngine, browser>>

\* Engine.Decide hands the recorded decision to the hub.
Decide ==
  /\ engine # "down" /\ decision # "none" /\ waiter = "open"
  /\ waiter' = decision
  /\ UNCHANGED <<given, row, worker, run, session, toWorker, toEngine, browser>>

-----------------------------------------------------------------------------
(***************************************************************************)
(* The control plane's own life.                                           *)
(***************************************************************************)
Stop ==
  /\ engine = "up" /\ engine' = "stopping"
  /\ jobCause' = IF pc \in {"loading", "run", "returned"} /\ jobCause = "none"
                 THEN "shutdown" ELSE jobCause
  /\ UNCHANGED <<given, row, pc, budget, outcome, waiter, run, session, toWorker, toEngine, browser>>

\* The process is gone: memory is lost and the pipes of the worker close.
Vanish ==
  /\ engine' = "down"
  /\ pc' = IF pc = "idle" THEN "idle" ELSE "done"
  /\ jobCause' = "none" /\ budget' = FALSE /\ outcome' = "none"
  /\ waiter' = "none" /\ run' = NewRun
  /\ pipe' = "closed" /\ cancelling' = "no" /\ toEngine' = <<>>
  /\ UNCHANGED <<given, row, proc, toWorker, browser>>

StopCompletes == engine = "stopping" /\ pc \in {"idle", "done"} /\ Vanish

Crash == "crash" \in faults /\ engine # "down" /\ Vanish

Restart ==
  /\ engine = "down" /\ engine' = "up"
  /\ status' = IF status \in Active THEN (IF conf THEN "outcome_unknown" ELSE "interrupted")
               ELSE status
  /\ UNCHANGED <<given, cancel, conf, account, decision, pc, jobCause, budget, outcome, waiter,
                 run, session, toWorker, toEngine, browser>>

-----------------------------------------------------------------------------
Init ==
  /\ mode \in Modes /\ faults \in FaultSets
  /\ status = "queued" /\ cancel = FALSE /\ conf = FALSE
  /\ account = "active" /\ decision = "none"
  /\ engine = "up" /\ pc = "idle" /\ jobCause = "none" /\ budget = FALSE /\ outcome = "none"
  /\ waiter = "none" /\ run = NewRun
  /\ proc = "none" /\ pipe = "closed" /\ cancelling = "no"
  /\ toWorker = <<>> /\ toEngine = <<>>
  /\ py = "boot" /\ clicked = FALSE /\ booked = FALSE

HandleFrame ==
  \/ HandleReady \/ HandleApprovalRequest
  \/ HandleConfirmationStarting \/ HandleConfirmationCompleted
  \/ \E st \in Terminal : HandleComplete(st)

Operate ==
  \/ RequestCancellation \/ DisableAccount \/ EnableAccount
  \/ \E d \in {"approve", "cancel"} : RecordJobDecision(d)

Next ==
  \/ Claim \/ LoadFails \/ StartProcess \/ Finish
  \/ BudgetExpires \/ ArtifactLimit \/ ObserveCancellation
  \/ HandleReady \/ HandleApprovalRequest
  \/ HandleConfirmationStarting \/ HandleConfirmationCompleted
  \/ \E st \in Terminal : HandleComplete(st)
  \/ HandleApproval \/ HandleCtxDone \/ HandleDone \/ HandleEventsClosed
  \/ WaitDecision \/ SessionCancel \/ SendCancel \/ ForceKill \/ WorkerExits
  \/ WorkerReady \/ ReadStart \/ ActionFails \/ CheckCancelled \/ CheckSucceeds
  \/ RequestApproval \/ WaitForApproval \/ AwaitConfirmationReady
  \/ ClickFinalConfirmation \/ GateRefused \/ VerifyReceipt \/ AfterVerification
  \/ Operate \/ Decide
  \/ Stop \/ StopCompletes \/ Crash \/ Restart

Spec == Init /\ [][Next]_vars

\* Goroutines run, timers fire, a supervisor restarts the control plane, and
\* Python reads its inbox and exits at the end of main.  Nothing is assumed of
\* the operator, of Yodel, or of how long the browser works.
Fairness ==
  /\ WF_vars(LoadFails \/ StartProcess) /\ WF_vars(Finish)
  /\ WF_vars(BudgetExpires) /\ WF_vars(ObserveCancellation)
  /\ WF_vars(HandleFrame) /\ WF_vars(HandleApproval) /\ WF_vars(HandleCtxDone)
  /\ WF_vars(HandleDone) /\ WF_vars(HandleEventsClosed)
  /\ WF_vars(WaitDecision) /\ WF_vars(Decide)
  /\ WF_vars(SessionCancel) /\ WF_vars(ForceKill) /\ WF_vars(Restart)
  /\ WF_vars(WorkerReady) /\ WF_vars(ReadStart) /\ WF_vars(CheckCancelled)
  /\ WF_vars(WaitForApproval) /\ WF_vars(GateRefused \/ ClickFinalConfirmation)
  /\ WF_vars(VerifyReceipt) /\ WF_vars(AfterVerification)
  /\ WF_vars(py = "closing" /\ WorkerExits)

FairSpec == Spec /\ Fairness

-----------------------------------------------------------------------------
(***************************************************************************)
(* Properties.                                                             *)
(***************************************************************************)
\* The row, the hub's waiter and the session hold the values the code stores.
TypeOK ==
  /\ mode \in Modes /\ faults \in FaultSets /\ status \in Active \cup Terminal \cup {"queued"}
  /\ cancel \in BOOLEAN /\ conf \in BOOLEAN /\ account \in {"active", "disabled"}
  /\ decision \in {"none", "approve", "cancel"}
  /\ waiter \in {"none", "open", "approve", "cancel"}
  /\ engine \in {"up", "stopping", "down"}
  /\ pc \in {"idle", "loading", "run", "returned", "done"}
  /\ jobCause \in {"none", "user", "artifact", "shutdown"} /\ budget \in BOOLEAN
  /\ outcome \in Terminal \cup {"none", "err"}
  /\ proc \in {"none", "alive", "exited"} /\ pipe \in {"open", "closed"}
  /\ cancelling \in {"no", "asked", "sent"}
  /\ clicked \in BOOLEAN /\ booked \in BOOLEAN

\* The browser clicks the final confirmation only after the mark is durable, so no
\* crash can leave a click the database does not know of, and in a manual booking
\* only when the one recorded decision approves it.
ClickIsMarked == clicked => conf /\ (mode = "manual" => decision = "approve")

\* The stored outcome is true: a job in a status the operator may retry has never
\* clicked, also when the control plane crashed or its reads and writes failed, and
\* a booking is a success only when Yodel's receipt was verified.
OutcomeIsTrue ==
  /\ status \in Retryable => ~clicked
  /\ status = "succeeded" /\ mode # "check" => booked

\* A cancellation or a disabled account committed before the mark prevents
\* the click, however far the approval and the browser have come.
RevocationPreventsClick == [](cancel /\ ~conf => []~clicked)

\* With a database that answers, a completion the coordinator received survives
\* shutdown, cancellation, limits and a failed clean-up: the job ends as a success.
CompletionIsKept ==
  pc = "done" /\ run.completed /\ "store" \notin faults => status = "succeeded"

\* Migration 0003 says that cancelled workers retain their leases until they
\* observe the cancellation and stop their browsers, and coordinator.go that
\* Run lasts until the process exits.
LeaseOutlivesBrowser == cancel /\ proc = "alive" => status \in Active

\* With a database that answers, every claimed job reaches a terminal status without
\* help from the operator, Yodel or a browser that hangs.
JobEnds == (status \in Active) ~> (status \in Terminal \/ "store" \in faults)

\* Every browser stops after its job has ended, orphans of a crash included.
BrowserStops == (status \in Terminal /\ proc = "alive") ~> (proc = "exited")

\* The row of the job lives the abstract life of a job.
Lifecycle == INSTANCE JobLifecycle
JobFollowsLifecycle == Lifecycle!Spec
=============================================================================
