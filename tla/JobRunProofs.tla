---------------------------- MODULE JobRunProofs ----------------------------
(***************************************************************************)
(* Proofs about JobRun, for every set of run modes and faults: a click is  *)
(* always marked first and, in a manual booking, approved; the stored      *)
(* outcome is true; a completion is kept; a revocation before the mark     *)
(* prevents the click; and the row lives the life of JobLifecycle.  They   *)
(* rest on one inductive invariant, Inv, which says what each frame in     *)
(* flight and each place of the engine, the coordinator and Python stands  *)
(* for.                                                                    *)
(***************************************************************************)
EXTENDS JobRun, TLAPS

(***************************************************************************)
(* Frames in flight: f is in the queue q, and at most once.                *)
(***************************************************************************)
In(f, q) == \E i \in 1 .. Len(q) : q[i] = f
Once(f, q) == \A i, k \in 1 .. Len(q) : q[i] = f /\ q[k] = f => i = k

\* A frame sent at the end of a queue (Session.Send, Writer.emit).
LEMMA AppendFrames ==
  ASSUME NEW S, NEW q \in Seq(S), NEW g \in S
  PROVE  /\ Append(q, g) \in Seq(S)
         /\ \A f : In(f, Append(q, g)) <=> In(f, q) \/ f = g
         /\ \A f : Once(f, q) /\ (f = g => ~In(f, q)) => Once(f, Append(q, g))
<1>1. Append(q, g) \in Seq(S) /\ Len(Append(q, g)) = Len(q) + 1 /\ Len(q) \in Nat
  OBVIOUS
<1>2. \A i \in 1 .. Len(q) : Append(q, g)[i] = q[i]
  OBVIOUS
<1>3. Append(q, g)[Len(q) + 1] = g
  OBVIOUS
<1>4. 1 .. Len(q) + 1 = 1 .. Len(q) \cup {Len(q) + 1}
  BY <1>1
<1>5. \A f : In(f, Append(q, g)) <=> In(f, q) \/ f = g
  BY Zenon, <1>1, <1>2, <1>3, <1>4 DEF In
<1>6. \A f : Once(f, q) /\ (f = g => ~In(f, q)) => Once(f, Append(q, g))
  BY <1>1, <1>2, <1>3, <1>4 DEF In, Once
<1> QED
  BY Zenon, <1>1, <1>5, <1>6

\* A frame taken from its head.
LEMMA TailFrames ==
  ASSUME NEW S, NEW q \in Seq(S), q # <<>>
  PROVE  /\ Tail(q) \in Seq(S) /\ Head(q) \in S /\ In(Head(q), q)
         /\ \A f : In(f, Tail(q)) => In(f, q)
         /\ \A f : Once(f, q) => Once(f, Tail(q))
         /\ Once(Head(q), q) => ~In(Head(q), Tail(q))
<1>1. /\ Tail(q) \in Seq(S) /\ Head(q) = q[1] /\ Head(q) \in S /\ Len(q) \in Nat /\ Len(q) > 0
      /\ Len(Tail(q)) = Len(q) - 1
  OBVIOUS
<1>2. \A i \in 1 .. Len(Tail(q)) : Tail(q)[i] = q[i + 1] /\ i + 1 \in 1 .. Len(q) /\ i + 1 # 1
  OBVIOUS
<1>3. \A f : In(f, Tail(q)) => In(f, q)
  BY Zenon, <1>2 DEF In
<1>4. \A f : Once(f, q) => Once(f, Tail(q))
  BY <1>1, <1>2 DEF Once
<1>5. Once(Head(q), q) => ~In(Head(q), Tail(q))
  BY <1>1, <1>2 DEF Once, In
<1>6. In(Head(q), q)
  BY <1>1 DEF In
<1> QED
  BY Zenon, <1>1, <1>3, <1>4, <1>5, <1>6

\* Frames dropped from its end, as a kill drops those not yet read.
LEMMA PrefixFrames ==
  ASSUME NEW S, NEW q \in Seq(S), NEW n \in 0 .. Len(q)
  PROVE  /\ SubSeq(q, 1, n) \in Seq(S)
         /\ \A f : In(f, SubSeq(q, 1, n)) => In(f, q)
         /\ \A f : Once(f, q) => Once(f, SubSeq(q, 1, n))
<1>1. /\ SubSeq(q, 1, n) \in Seq(S) /\ Len(SubSeq(q, 1, n)) = n
      /\ \A i \in 1 .. n : SubSeq(q, 1, n)[i] = q[i] /\ i \in 1 .. Len(q)
  OBVIOUS
<1> QED
  BY Zenon, <1>1 DEF In, Once

\* An empty queue holds no frame.
LEMMA NoFrames ==
  /\ \A S : <<>> \in Seq(S)
  /\ \A f : ~In(f, <<>>) /\ Once(f, <<>>)
BY DEF In, Once
-----------------------------------------------------------------------------
(***************************************************************************)
(* The inductive invariant.                                                *)
(***************************************************************************)
Question == {"worker.ready", "approval.request", "confirmation.starting",
             "confirmation.completed"} \cup Terminal
Answer == {"run.start", "approval.approve", "approval.cancel", "confirmation.ready",
           "confirmation.error", "control.cancel"}
Phase == {"boot", "ready", "working", "approval", "approved", "gate", "clicked", "verified",
          "closing"}
RunState ==
  [ready : BOOLEAN, ctxSeen : BOOLEAN, waiting : BOOLEAN,
   async : {"none", "approve", "cancel", "error"}, started : BOOLEAN, completed : BOOLEAN,
   terminal : Terminal \cup {"none"}, procDone : BOOLEAN, closed : BOOLEAN]

Types ==
  /\ TypeOK /\ run \in RunState /\ py \in Phase
  /\ toEngine \in Seq(Question) /\ toWorker \in Seq(Answer)
  /\ pc = "returned" => outcome # "none"

\* Before its process exists a run has left no trace, while runClaimed has the job
\* its row is active, and a control plane that is down remembers nothing.
Places ==
  /\ pc \in {"idle", "loading"} =>
       /\ proc = "none" /\ py = "boot" /\ ~clicked /\ run = NewRun /\ decision = "none"
       /\ toEngine = <<>> /\ toWorker = <<>>
  /\ pc = "idle" => status \notin Active
  /\ pc = "loading" => status = "running"
  /\ pc \in {"loading", "run", "returned"} => status \in Active /\ engine # "down"
  /\ engine = "down" => run = NewRun

\* What is allowed only after the mark, and the statuses that exclude it.
Marks ==
  /\ status \in Retryable \cup {"queued"} => ~conf
  /\ In("confirmation.ready", toWorker) \/ run.started \/ clicked => conf
  /\ run.completed => run.started

\* Python is, was or is about to be past the approval.
Approved ==
  \/ In("approval.approve", toWorker) \/ In("confirmation.ready", toWorker)
  \/ In("confirmation.starting", toEngine) \/ In("confirmation.completed", toEngine)
  \/ py \in {"approved", "gate", "clicked", "verified"} \/ run.started \/ clicked

\* It got there by the recorded decision, and the row does not wait any more.
Decisions ==
  /\ waiter = "approve" \/ run.async = "approve" => decision = "approve"
  /\ Approved => /\ mode = "manual" => decision = "approve"
                 /\ pc \in {"run", "returned"} => status = "running"

\* Only one approval is asked for, and nothing is decided before it was.
Asked ==
  /\ Once("approval.request", toEngine)
  /\ In("approval.request", toEngine) =>
       /\ py \in {"approval", "closing"} /\ mode = "manual"
       /\ status # "awaiting_approval" /\ decision = "none"
  /\ status = "awaiting_approval" \/ decision # "none" =>
       mode = "manual" /\ py \notin {"boot", "ready", "working"}

\* Whatever speaks of a success of a booking rests on Yodel's receipt.
Receipts ==
  /\ booked => clicked
  /\ clicked => py \in {"clicked", "verified", "closing"}
  /\ run.completed \/ In("confirmation.completed", toEngine) \/ py = "verified" => booked
  /\ /\ mode # "check"
     /\ \/ run.terminal = "succeeded" \/ In("succeeded", toEngine)
        \/ outcome = "succeeded" \/ status = "succeeded"
     => booked

\* A completion decides what the run returns and how the job ends.
Kept ==
  /\ run.completed /\ pc = "returned" => outcome = "succeeded"
  /\ CompletionIsKept

Inv == Types /\ Places /\ Marks /\ Decisions /\ Asked /\ Receipts /\ Kept

-----------------------------------------------------------------------------
(***************************************************************************)
(* What a step does to the frames in flight.                               *)
(***************************************************************************)
\* No frame that the invariant speaks of is added to the worker's questions ...
NothingAsked ==
  /\ toEngine' \in Seq(Question)
  /\ Once("approval.request", toEngine) => Once("approval.request", toEngine')
  /\ In("approval.request", toEngine') => In("approval.request", toEngine)
  /\ In("confirmation.starting", toEngine') => In("confirmation.starting", toEngine)
  /\ In("confirmation.completed", toEngine') => In("confirmation.completed", toEngine)
  /\ In("succeeded", toEngine') => In("succeeded", toEngine)

\* ... or to the coordinator's answers.
NothingGranted ==
  /\ toWorker' \in Seq(Answer)
  /\ In("approval.approve", toWorker') => In("approval.approve", toWorker)
  /\ In("confirmation.ready", toWorker') => In("confirmation.ready", toWorker)

\* The coordinator takes a frame from its queue (Receive).
LEMMA Received ==
  ASSUME Types, NEW f, Receive(f)
  PROVE  /\ NothingAsked /\ In(f, toEngine)
         /\ Once(f, toEngine) => ~In(f, toEngine')
BY Zenon, TailFrames DEF Types, Receive, NothingAsked

\* It sends an answer (Send).
LEMMA Sent ==
  ASSUME Types, NEW f \in Answer, Send(f)
  PROVE  /\ toWorker' \in Seq(Answer)
         /\ \A g : In(g, toWorker') => In(g, toWorker) \/ g = f
BY Zenon, AppendFrames DEF Types, Send

\* Answers other than the two that let Python through grant nothing.
LEMMA SentOther ==
  ASSUME Types, NEW f \in Answer \ {"approval.approve", "confirmation.ready"}, Send(f)
  PROVE  NothingGranted
BY Zenon, Sent DEF NothingGranted

\* Python takes an answer from its queue (Next1).
LEMMA Read ==
  ASSUME Types, NEW f, Next1(f)
  PROVE  NothingGranted /\ In(f, toWorker)
BY Zenon, TailFrames DEF Types, Next1, NothingGranted

\* Python writes a frame, unless the pipe is closed (Emit).
LEMMA Emitted ==
  ASSUME Types, NEW f \in Question, NEW next, Emit(f, next)
  PROVE  /\ toEngine' \in Seq(Question) /\ py' \in {next, "closing"}
         /\ \A g : In(g, toEngine') => In(g, toEngine) \/ (g = f /\ py' = next)
         /\ \A g : Once(g, toEngine) /\ (g = f => ~In(g, toEngine)) => Once(g, toEngine')
<1>1. toEngine \in Seq(Question)
  BY Zenon DEF Types
<1>2. CASE pipe = "open"
  <2>1. toEngine' = Append(toEngine, f) /\ py' = next
    BY Zenon, <1>2 DEF Emit
  <2> QED
    BY Zenon, <1>1, <2>1, AppendFrames
<1>3. CASE pipe # "open"
  BY Zenon, <1>1, <1>3 DEF Emit
<1> QED
  BY Zenon, <1>2, <1>3

\* Frames the invariant does not speak of.
LEMMA EmittedOther ==
  ASSUME Types, NEW next,
         NEW f \in Question \ {"approval.request", "confirmation.starting",
                               "confirmation.completed", "succeeded"}, Emit(f, next)
  PROVE  NothingAsked /\ py' \in {next, "closing"}
BY Zenon, Emitted DEF NothingAsked

-----------------------------------------------------------------------------
(***************************************************************************)
(* Every step keeps the invariant, section by section of JobRun.           *)
(***************************************************************************)
\* The engine worker: claiming, loading, limits, the cancellation watcher and
\* runClaimed's final transition.
LEMMA EngineSteps ==
  ASSUME Inv,
         \/ Claim \/ LoadFails \/ StartProcess \/ Finish
         \/ BudgetExpires \/ ArtifactLimit \/ ObserveCancellation
  PROVE  Inv'
<1> USE FaultsAssumption DEF Inv, Types, TypeOK, RunState, Phase, NewRun, Active, Terminal,
      Retryable, Places, Marks, Decisions, Approved, Asked, Receipts, Kept, CompletionIsKept,
      given, row, worker, session, browser
<1>1. CASE Claim
  BY SMTT(30), <1>1 DEF Claim, Revoked
<1>2. CASE LoadFails
  BY SMTT(30), <1>2 DEF LoadFails
<1>3. CASE StartProcess
  BY SMTT(30), <1>3, NoFrames DEF StartProcess
<1>4. CASE Finish
  <2>1. PICK seen \in Seen :
          \/ /\ status \in Expected(FinalStatus(seen))
             /\ FinalStatus(seen) = "outcome_unknown" => conf
             /\ status' = Resolve(FinalStatus(seen))
          \/ /\ UNCHANGED status
             /\ \/ status \notin Expected(FinalStatus(seen))
                \/ FinalStatus(seen) = "outcome_unknown" /\ ~conf
                \/ "store" \in faults
    BY ZenonT(30), <1>4 DEF Finish
  <2>2. /\ pc = "returned" /\ pc' = "done" /\ engine # "down"
        /\ UNCHANGED <<given, cancel, conf, account, decision, engine, jobCause, budget, outcome,
                       waiter, run, session, toWorker, toEngine, browser>>
    BY Zenon, <1>4 DEF Finish
  <2>3. FinalStatus(seen) \in Terminal /\ (FinalStatus(seen) = "succeeded" => outcome = "succeeded")
    BY ZenonT(30), <2>2 DEF FinalStatus
  <2>4. /\ Resolve(FinalStatus(seen)) \in Terminal
        /\ Resolve(FinalStatus(seen)) = "succeeded" => outcome = "succeeded"
        /\ conf => Resolve(FinalStatus(seen)) \in {"succeeded", "outcome_unknown"}
    BY ZenonT(30), <2>3 DEF Resolve
  <2>5. run.completed /\ "store" \notin faults => status' = "succeeded"
    <3> SUFFICES ASSUME run.completed, "store" \notin faults
                 PROVE  status' = "succeeded"
      BY Zenon
    <3>1. conf /\ seen /\ outcome = "succeeded" /\ status = "running"
      BY ZenonT(30), <2>2 DEF Seen
    <3>2. FinalStatus(seen) = "succeeded"
      BY Zenon, <3>1 DEF FinalStatus
    <3> QED
      BY ZenonT(30), <2>1, <3>1, <3>2 DEF Expected, Resolve
  <2> QED
    BY SMTT(30), <2>1, <2>2, <2>4, <2>5
<1>5. CASE BudgetExpires
  BY <1>5 DEF BudgetExpires
<1>6. CASE ArtifactLimit
  BY SMTT(30), <1>6 DEF ArtifactLimit
<1>7. CASE ObserveCancellation
  BY SMTT(30), <1>7 DEF ObserveCancellation, CancelWaiter
<1> QED
  BY ZenonT(30), <1>1, <1>2, <1>3, <1>4, <1>5, <1>6, <1>7

\* The coordinator: the frames it handles, the decision it waits for, the context
\* and the process it watches.
LEMMA CoordinatorSteps ==
  ASSUME Inv,
         \/ HandleReady \/ HandleApprovalRequest
         \/ HandleConfirmationStarting \/ HandleConfirmationCompleted
         \/ \E st \in Terminal : HandleComplete(st)
         \/ HandleApproval \/ HandleCtxDone \/ HandleDone \/ HandleEventsClosed \/ WaitDecision
  PROVE  Inv'
<1>0. Types
  BY Zenon DEF Inv
<1>a. \A f : Send(f) /\ f \in {"run.start", "approval.cancel", "confirmation.error"} => NothingGranted
  BY ZenonT(30), <1>0, SentOther DEF Answer
<1>b. UNCHANGED toWorker => NothingGranted
  BY Zenon, <1>0 DEF Types, NothingGranted
<1>c. UNCHANGED toEngine => NothingAsked
  BY ZenonT(30), <1>0 DEF Types, NothingAsked
<1> USE DEF Inv, Types, TypeOK, RunState, Phase, NewRun, Active, Terminal,
      Retryable, Places, Marks, Decisions, Approved, Asked, Receipts, Kept, CompletionIsKept,
      given, row, worker, session, browser,
      Receive, InRun, SendOr, Continue, Fail, AsyncFail, Return, Returned, AskCancel,
      NothingAsked, NothingGranted
<1>1. CASE HandleReady
  <2>1. NothingAsked
    BY ONLY Zenon, <1>0, <1>1, Received DEF HandleReady
  <2>2. NothingGranted
    BY ONLY Zenon, <1>1, <1>a, <1>b DEF HandleReady, SendOr
  <2>3. run' = [run EXCEPT !.ready = TRUE] /\ run' \in RunState
    BY ONLY ZenonT(30), <1>0, <1>1 DEF HandleReady, Types, RunState
  <2> QED
    BY <1>1, <2>1, <2>2, <2>3 DEF HandleReady
<1>2. CASE HandleApprovalRequest
  <2>1. NothingAsked /\ In("approval.request", toEngine) /\ ~In("approval.request", toEngine')
    BY ONLY ZenonT(30), <1>0, <1>2, Inv, Received DEF HandleApprovalRequest, Inv, Asked
  <2>2. NothingGranted
    BY ONLY Zenon, <1>2, <1>b DEF HandleApprovalRequest
  <2>3. run' \in {run, [run EXCEPT !.waiting = TRUE]} /\ run' \in RunState
    BY ONLY Zenon, <1>0, <1>2 DEF HandleApprovalRequest, Types, RunState
  <2> QED
    BY <1>2, <2>1, <2>2, <2>3 DEF HandleApprovalRequest, CanAwait, Revoked
<1>3. CASE HandleConfirmationStarting
  <2>1. NothingAsked /\ In("confirmation.starting", toEngine)
    BY ONLY ZenonT(30), <1>0, <1>3, Received DEF HandleConfirmationStarting
  <2>2. CASE CanMark /\ conf' = TRUE /\ run' = [run EXCEPT !.started = TRUE]
             /\ SendOr("confirmation.ready", Fail)
    <3>1. /\ toWorker' \in Seq(Answer)
          /\ In("approval.approve", toWorker') => In("approval.approve", toWorker)
      <4>1. CASE Send("confirmation.ready")
        BY ONLY Zenon, <1>0, <4>1, Sent DEF Answer
      <4>2. CASE UNCHANGED toWorker
        BY ZenonT(30), <4>2
      <4> QED
        BY Zenon, <2>2, <4>1, <4>2 DEF SendOr
    <3>2. run' \in RunState
      BY ONLY ZenonT(30), <1>0, <2>2 DEF Types, RunState
    <3> QED
      BY <1>3, <2>1, <2>2, <3>1, <3>2 DEF HandleConfirmationStarting, CanMark
  <2>3. CASE Send("confirmation.error") /\ Fail /\ UNCHANGED <<conf, run>>
    <3>1. NothingGranted
      BY ONLY Zenon, <1>a, <2>3
    <3> QED
      BY <1>3, <2>1, <2>3, <3>1 DEF HandleConfirmationStarting
  <2> QED
    BY ONLY Zenon, <1>3, <2>2, <2>3 DEF HandleConfirmationStarting
<1>4. CASE HandleConfirmationCompleted
  <2>1. NothingAsked /\ In("confirmation.completed", toEngine)
    BY ONLY ZenonT(30), <1>0, <1>4, Received DEF HandleConfirmationCompleted
  <2>2. NothingGranted
    BY ONLY ZenonT(30), <1>4, <1>b DEF HandleConfirmationCompleted
  <2> QED
    BY SMTT(30), <1>4, <2>1, <2>2 DEF HandleConfirmationCompleted
<1>5. ASSUME NEW st \in Terminal, HandleComplete(st) PROVE Inv'
  <2>1. NothingAsked /\ In(st, toEngine)
    BY ONLY Zenon, <1>0, <1>5, Received DEF HandleComplete
  <2>2. NothingGranted
    BY ONLY Zenon, <1>5, <1>b DEF HandleComplete
  <2> QED
    BY SMTT(30), <1>5, <2>1, <2>2 DEF HandleComplete
<1>6. CASE HandleApproval
  <2>1. NothingAsked
    BY ONLY ZenonT(30), <1>6, <1>c DEF HandleApproval
  <2>a. run' = [run EXCEPT !.async = "none"] /\ run' \in RunState
    BY ONLY ZenonT(30), <1>0, <1>6 DEF HandleApproval, Types, RunState
  <2>2. CASE run.async \in {"error", "cancel"}
    <3>1. NothingGranted /\ UNCHANGED status
      BY ONLY Zenon, <1>6, <1>a, <1>b, <2>2 DEF HandleApproval, SendOr
    <3> QED
      BY <1>6, <2>a, <2>1, <2>2, <3>1 DEF HandleApproval
  <2>3. CASE run.async = "approve" /\ UNCHANGED <<status, toWorker>>
    BY <1>6, <2>a, <2>1, <2>3, <1>b DEF HandleApproval
  <2>4. CASE run.async = "approve" /\ CanResume /\ status' = "running"
             /\ SendOr("approval.approve", AsyncFail)
    <3>1. /\ toWorker' \in Seq(Answer)
          /\ In("confirmation.ready", toWorker') => In("confirmation.ready", toWorker)
      <4>1. CASE Send("approval.approve")
        BY ONLY SMTT(30), <1>0, <4>1, Sent DEF Answer
      <4>2. CASE UNCHANGED toWorker
        BY ZenonT(30), <4>2
      <4> QED
        BY Zenon, <2>4, <4>1, <4>2 DEF SendOr
    <3> QED
      BY SMTT(30), <1>6, <2>a, <2>1, <2>4, <3>1 DEF HandleApproval, CanResume
  <2> QED
    BY ZenonT(30), <1>6, <2>2, <2>3, <2>4 DEF HandleApproval
<1>7. CASE HandleCtxDone
  <2>1. run' = [run EXCEPT !.ctxSeen = TRUE] /\ run' \in RunState
    BY ONLY Zenon, <1>0, <1>7 DEF HandleCtxDone, Types, RunState
  <2> QED
    BY <1>7, <2>1 DEF HandleCtxDone, CancelWaiter
<1>8. CASE HandleDone
  <2>1. run' = [run EXCEPT !.procDone = TRUE] /\ run' \in RunState
    BY ONLY Zenon, <1>0, <1>8 DEF HandleDone, Types, RunState
  <2> QED
    BY <1>8, <2>1 DEF HandleDone, ReturnWhenDone, FinishRun
<1>9. CASE HandleEventsClosed
  <2>1. run' = [run EXCEPT !.closed = TRUE] /\ run' \in RunState
    BY ONLY Zenon, <1>0, <1>9 DEF HandleEventsClosed, Types, RunState
  <2> QED
    BY <1>9, <2>1 DEF HandleEventsClosed, ReturnWhenDone, FinishRun
<1>10. CASE WaitDecision
  <2>1. PICK a \in {"none", "approve", "cancel", "error"} :
          /\ run' = [run EXCEPT !.waiting = FALSE, !.async = a]
          /\ a = "approve" => waiter = "approve"
    BY ONLY ZenonT(30), <1>0, <1>10 DEF WaitDecision, Types, TypeOK
  <2>2. run' \in RunState /\ run'.async = a
    BY ONLY <1>0, <2>1, ZenonT(30) DEF Types, RunState
  <2> QED
    BY <1>10, <2>1, <2>2 DEF WaitDecision
<1> QED
  BY Zenon, <1>1, <1>2, <1>3, <1>4, <1>5, <1>6, <1>7, <1>8, <1>9, <1>10

\* The supervised process: cancellation, the kill and the exit.
LEMMA SessionSteps ==
  ASSUME Inv, SessionCancel \/ SendCancel \/ ForceKill \/ WorkerExits
  PROVE  Inv'
<1>0. Types
  BY Zenon DEF Inv
<1> USE DEF Inv, Types, TypeOK, Places, Marks, Decisions, Approved, Asked, Receipts, Kept,
      CompletionIsKept, given, row, worker, session, browser
<1>1. CASE SessionCancel
  BY SMTT(30), <1>1 DEF SessionCancel, AskCancel
<1>2. CASE SendCancel
  <2>1. NothingGranted
    BY ONLY SMTT(30), <1>0, <1>2, SentOther DEF SendCancel, Answer
  <2> QED
    BY <1>2, <2>1 DEF SendCancel, NothingGranted
<1>3. CASE ForceKill
  <2>1. PICK n \in 0 .. Len(toEngine) : toEngine' = SubSeq(toEngine, 1, n)
    BY Zenon, <1>3 DEF ForceKill
  <2>2. NothingAsked
    BY ONLY SMTT(30), <1>0, <2>1, PrefixFrames DEF Types, NothingAsked
  <2> QED
    BY SMTT(30), <1>3, <2>2 DEF ForceKill, NothingAsked
<1>4. CASE WorkerExits
  BY SMTT(30), <1>4 DEF WorkerExits
<1> QED
  BY Zenon, <1>1, <1>2, <1>3, <1>4

\* The Python worker.
LEMMA WorkerSteps ==
  ASSUME Inv,
         \/ WorkerReady \/ ReadStart \/ ActionFails \/ CheckCancelled \/ CheckSucceeds
         \/ RequestApproval \/ WaitForApproval \/ AwaitConfirmationReady
         \/ ClickFinalConfirmation \/ GateRefused \/ VerifyReceipt \/ AfterVerification
  PROVE  Inv'
<1>0. Types
  BY Zenon DEF Inv
<1>a. UNCHANGED toWorker => NothingGranted
  BY ZenonT(30), <1>0 DEF Types, NothingGranted
<1>b. \A f : Next1(f) => NothingGranted
  BY ZenonT(30), <1>0, Read
<1>c. UNCHANGED toEngine => NothingAsked
  BY ZenonT(30), <1>0 DEF Types, NothingAsked
<1>d. \A st : Complete(st) /\ st \in Terminal \ {"succeeded"} => NothingAsked /\ py' = "closing"
  BY ZenonT(30), <1>0, EmittedOther DEF Complete, Question, Terminal, Retryable
<1>e. Complete("succeeded") =>
        /\ toEngine' \in Seq(Question) /\ py' = "closing"
        /\ Once("approval.request", toEngine) => Once("approval.request", toEngine')
        /\ In("approval.request", toEngine') => In("approval.request", toEngine)
        /\ In("confirmation.starting", toEngine') => In("confirmation.starting", toEngine)
        /\ In("confirmation.completed", toEngine') => In("confirmation.completed", toEngine)
  BY SMTT(30), <1>0, Emitted DEF Complete, Question, Terminal
<1> USE DEF Inv, Types, TypeOK, Phase, NewRun, Active, Terminal, Retryable, Places, Marks,
      Decisions, Approved, Asked, Receipts, Kept, CompletionIsKept,
      given, row, worker, session, browser, WorkerStep, Untouched, NothingAsked, NothingGranted
<1>1. CASE WorkerReady
  <2>1. NothingAsked /\ py' \in {"ready", "closing"}
    BY ONLY SMTT(30), <1>0, <1>1, EmittedOther DEF WorkerReady, Question, Terminal, Retryable
  <2> QED
    BY <1>1, <1>a, <2>1 DEF WorkerReady
<1>2. CASE ReadStart
  <2>1. NothingAsked /\ NothingGranted /\ py' \in {"working", "closing"}
    BY ONLY SMTT(30), <1>2, <1>a, <1>b, <1>c, <1>d DEF ReadStart, Terminal, Retryable
  <2> QED
    BY SMTT(30), <1>2, <2>1 DEF ReadStart
<1>3. CASE ActionFails
  <2>1. NothingAsked /\ NothingGranted /\ py' = "closing"
    BY ONLY SMTT(30), <1>3, <1>a, <1>d DEF ActionFails, Terminal, Retryable
  <2> QED
    BY <1>3, <2>1 DEF ActionFails
<1>4. CASE CheckCancelled
  <2>1. NothingAsked /\ NothingGranted /\ py' = "closing"
    BY ONLY SMTT(30), <1>4, <1>a, <1>d DEF CheckCancelled, Terminal, Retryable
  <2> QED
    BY <1>4, <2>1 DEF CheckCancelled
<1>5. CASE CheckSucceeds
  BY SMTT(30), <1>5, <1>a, <1>e DEF CheckSucceeds
<1>6. CASE RequestApproval
  <2>1. /\ toEngine' \in Seq(Question) /\ py' \in {"approval", "closing"}
        /\ ~In("approval.request", toEngine) => Once("approval.request", toEngine')
        /\ In("approval.request", toEngine') => In("approval.request", toEngine) \/ py' = "approval"
        /\ In("confirmation.starting", toEngine') => In("confirmation.starting", toEngine)
        /\ In("confirmation.completed", toEngine') => In("confirmation.completed", toEngine)
        /\ In("succeeded", toEngine') => In("succeeded", toEngine)
    BY ONLY SMTT(30), Inv, <1>0, <1>6, Emitted DEF RequestApproval, Question, Inv, Asked
  <2> QED
    BY SMTT(30), <1>6, <1>a, <2>1 DEF RequestApproval
<1>7. CASE WaitForApproval
  <2>1. NothingAsked /\ NothingGranted
    BY ONLY SMTT(30), <1>7, <1>a, <1>b, <1>c, <1>d DEF WaitForApproval, Terminal, Retryable
  <2>2. \/ py' = "closing"
        \/ py' = "approved" /\ In("approval.approve", toWorker)
    BY ONLY SMTT(30), <1>0, <1>7, <1>d, Read DEF WaitForApproval, Terminal, Retryable
  <2> QED
    BY SMTT(30), <1>7, <2>1, <2>2 DEF WaitForApproval
<1>8. CASE AwaitConfirmationReady
  <2>1. /\ toEngine' \in Seq(Question) /\ py' \in {"gate", "closing"}
        /\ Once("approval.request", toEngine) => Once("approval.request", toEngine')
        /\ In("approval.request", toEngine') => In("approval.request", toEngine)
        /\ In("confirmation.starting", toEngine') => In("confirmation.starting", toEngine) \/ py' = "gate"
        /\ In("confirmation.completed", toEngine') => In("confirmation.completed", toEngine)
        /\ In("succeeded", toEngine') => In("succeeded", toEngine)
    BY ONLY SMTT(30), <1>0, <1>8, Emitted DEF AwaitConfirmationReady, Question
  <2> QED
    BY SMTT(30), <1>8, <1>a, <2>1 DEF AwaitConfirmationReady
<1>9. CASE ClickFinalConfirmation
  <2>1. NothingGranted /\ In("confirmation.ready", toWorker)
    BY ONLY SMTT(30), <1>0, <1>9, Read DEF ClickFinalConfirmation
  <2> QED
    BY SMTT(30), <1>9, <2>1 DEF ClickFinalConfirmation
<1>10. CASE GateRefused
  <2>1. NothingAsked /\ NothingGranted /\ py' = "closing"
    BY ONLY Zenon, <1>10, <1>a, <1>b, <1>d DEF GateRefused, Terminal, Retryable
  <2> QED
    BY SMTT(30), <1>10, <2>1 DEF GateRefused
<1>11. CASE VerifyReceipt
  <2>1. CASE booked /\ Emit("confirmation.completed", "verified")
    <3>1. /\ toEngine' \in Seq(Question) /\ py' \in {"verified", "closing"}
          /\ Once("approval.request", toEngine) => Once("approval.request", toEngine')
          /\ In("approval.request", toEngine') => In("approval.request", toEngine)
          /\ In("confirmation.starting", toEngine') => In("confirmation.starting", toEngine)
          /\ In("succeeded", toEngine') => In("succeeded", toEngine)
      BY ONLY <1>0, <2>1, Emitted DEF Question
    <3> QED
      BY SMTT(30), <1>11, <1>a, <2>1, <3>1 DEF VerifyReceipt
  <2>2. CASE Complete("outcome_unknown")
    <3>1. NothingAsked /\ py' = "closing"
      BY ONLY ZenonT(30), <1>d, <2>2 DEF Terminal
    <3> QED
      BY <1>11, <1>a, <3>1 DEF VerifyReceipt
  <2> QED
    BY Zenon, <1>11, <2>1, <2>2 DEF VerifyReceipt
<1>12. CASE AfterVerification
  <2>1. CASE Complete("succeeded")
    BY SMTT(30), <1>12, <1>a, <1>e, <2>1 DEF AfterVerification
  <2>2. CASE Complete("failed")
    <3>1. NothingAsked /\ py' = "closing"
      BY ONLY Zenon, <1>d, <2>2 DEF Terminal, Retryable
    <3> QED
      BY SMTT(30), <1>12, <1>a, <3>1 DEF AfterVerification
  <2> QED
    BY ZenonT(30), <1>12, <2>1, <2>2 DEF AfterVerification
<1> QED
  BY ZenonT(30), <1>1, <1>2, <1>3, <1>4, <1>5, <1>6, <1>7, <1>8, <1>9, <1>10, <1>11, <1>12

\* The operator, and the control plane's own life.
LEMMA OtherSteps ==
  ASSUME Inv, Operate \/ Decide \/ Stop \/ StopCompletes \/ Crash \/ Restart
  PROVE  Inv'
<1> USE DEF Inv, Types, TypeOK, RunState, NewRun, Active, Terminal, Retryable, Places, Marks,
      Decisions, Approved, Asked, Receipts, Kept, CompletionIsKept,
      given, row, worker, session, browser
<1>1. CASE RequestCancellation
  BY SMTT(30), <1>1 DEF RequestCancellation, CancelRow
<1>2. CASE DisableAccount
  <2>1. CASE status \in Terminal
    BY SMTT(30), <1>2, <2>1 DEF DisableAccount
  <2>2. CASE status \notin Terminal
    <3>1. /\ account' = "disabled" /\ cancel' = TRUE
          /\ status' = IF status = "queued" THEN "cancelled" ELSE status
          /\ UNCHANGED <<given, conf, decision, worker, waiter, run, session, toWorker, toEngine, browser>>
      BY ZenonT(30), <1>2, <2>2 DEF DisableAccount, CancelRow
    <3> QED
      BY SMTT(30), <3>1
  <2> QED
    BY ZenonT(30), <2>1, <2>2
<1>3. CASE EnableAccount
  BY SMTT(30), <1>3 DEF EnableAccount
<1>4. ASSUME NEW d \in {"approve", "cancel"}, RecordJobDecision(d) PROVE Inv'
  BY SMTT(30), <1>4 DEF RecordJobDecision
<1>5. CASE Decide
  BY SMTT(30), <1>5 DEF Decide
<1>6. CASE Stop
  BY SMTT(30), <1>6 DEF Stop
<1>7. CASE Vanish
  <2>1. NewRun \in RunState /\ ~NewRun.started /\ ~NewRun.completed /\ NewRun.async = "none"
        /\ NewRun.terminal = "none"
    BY ZenonT(30)
  <2>2. /\ toEngine' \in Seq(Question) /\ Once("approval.request", toEngine')
        /\ ~In("approval.request", toEngine') /\ ~In("confirmation.starting", toEngine')
        /\ ~In("confirmation.completed", toEngine') /\ ~In("succeeded", toEngine')
    BY ZenonT(30), <1>7, NoFrames DEF Vanish
  <2> HIDE DEF RunState, NewRun
  <2>3. Types'
    BY ZenonT(30), <1>7, <2>1, <2>2 DEF Vanish
  <2>4. (Places /\ Kept)'
    BY <1>7, <2>1 DEF Vanish
  <2>5. (Marks /\ Decisions /\ Asked /\ Receipts)'
    BY <1>7, <2>1, <2>2 DEF Vanish
  <2> QED
    BY ZenonT(30), <2>3, <2>4, <2>5
<1>8. CASE Restart
  BY <1>8 DEF Restart
<1> QED
  BY ZenonT(30), <1>1, <1>2, <1>3, <1>4, <1>5, <1>6, <1>7, <1>8 DEF Operate, StopCompletes, Crash

\* The invariant holds at first and is kept by every step.
LEMMA Inductive ==
  /\ Init => Inv
  /\ Inv /\ [Next]_vars => Inv'
<1>1. Init => Inv
  <2>1. NewRun \in RunState /\ ~NewRun.started /\ ~NewRun.completed /\ NewRun.async = "none"
        /\ NewRun.terminal = "none"
    BY ZenonT(30) DEF NewRun, RunState
  <2>2. /\ <<>> \in Seq(Question) /\ <<>> \in Seq(Answer) /\ Once("approval.request", <<>>)
        /\ \A f : ~In(f, <<>>)
    BY ZenonT(30), NoFrames
  <2>3. Init => Types
    BY ZenonT(30), <2>1, <2>2, FaultsAssumption DEF Init, Types, TypeOK, Phase, Active, Terminal, Retryable
  <2>4. Init => Places /\ Kept
    BY ZenonT(30), <2>1 DEF Init, Places, Kept, CompletionIsKept, Active
  <2>5. Init => Marks /\ Decisions /\ Asked /\ Receipts
    BY ZenonT(30), <2>1, <2>2 DEF Init, Marks, Decisions, Approved, Asked, Receipts, Retryable
  <2> QED
    BY ZenonT(30), <2>3, <2>4, <2>5 DEF Inv
<1>2. Inv /\ UNCHANGED vars => Inv'
  BY DEF vars, Inv, Types, TypeOK, Places, Marks, Decisions, Approved, Asked, Receipts, Kept,
     CompletionIsKept, given, row, worker, session, browser
<1>3. Inv /\ Next => Inv'
  BY Zenon, EngineSteps, CoordinatorSteps, SessionSteps, WorkerSteps, OtherSteps DEF Next
<1> QED
  BY Zenon, <1>1, <1>2, <1>3

\* What Inv says of the frames, of the places of runClaimed, control.Run and Python,
\* and of the row is true of every run.
THEOREM InvariantHolds == Spec => []Inv
BY Inductive, PTL DEF Spec

-----------------------------------------------------------------------------
(***************************************************************************)
(* The theorems.                                                           *)
(***************************************************************************)
\* The browser clicks only after the mark is stored and, in a manual booking, only
\* when the one recorded decision approves it: HandleConfirmationStarting stores the
\* mark before it lets Python through its gate, and in a manual booking Python asks
\* for the gate only past an approval that the coordinator passed on.
THEOREM ClicksAreMarked == Spec => []ClickIsMarked
<1>1. Inv => ClickIsMarked
  BY ZenonT(30) DEF Inv, Marks, Decisions, Approved, ClickIsMarked
<1> QED
  BY <1>1, InvariantHolds, PTL

\* A job the operator may retry has never clicked, and a booking that is stored as a
\* success has Yodel's receipt, whatever runClaimed and finishRun made of the run:
\* SystemTransitionJob keeps every marked job out of the retryable statuses.
THEOREM OutcomesAreTrue == Spec => []OutcomeIsTrue
<1>1. Inv => OutcomeIsTrue
  BY ZenonT(30) DEF Inv, Marks, Receipts, OutcomeIsTrue
<1> QED
  BY <1>1, InvariantHolds, PTL

\* With a database that answers, a completion the coordinator received makes the job
\* end as a success: by the deferred override of Run, by the order of runClaimed's
\* classification, and because nothing takes a started job out of "running".
THEOREM CompletionsAreKept == Spec => []CompletionIsKept
<1>1. Inv => CompletionIsKept
  BY ZenonT(30) DEF Inv, Kept
<1> QED
  BY <1>1, InvariantHolds, PTL

\* Claim, the approvals, the mark, the end of a run, cancellations and recovery
\* are the steps that change the row, and each is a step of JobLifecycle.
LEMMA RowSteps ==
  ASSUME Inv, Next
  PROVE  Lifecycle!Next \/ UNCHANGED <<status, cancel, conf>>
<1>1. CASE Claim
  BY ZenonT(30), <1>1 DEF Claim, Revoked, Lifecycle!Next, Lifecycle!Claim
<1>2. CASE Finish
  <2>1. CASE UNCHANGED status
    BY ZenonT(30), <1>2, <2>1 DEF Finish
  <2>2. ASSUME NEW seen \in Seen, FinalStatus(seen) = "outcome_unknown" => conf,
               status' = Resolve(FinalStatus(seen))
        PROVE  Lifecycle!End
    <3>1. FinalStatus(seen) \in Terminal /\ status \in Active /\ UNCHANGED <<cancel, conf>>
      BY ZenonT(30), <1>2 DEF Finish, FinalStatus, Inv, Types, TypeOK, Places, Terminal, Retryable
    <3> QED
      BY ZenonT(30), <2>2, <3>1 DEF Resolve, Revoked, Terminal, Retryable, Active, Lifecycle!End,
         Lifecycle!Active, Lifecycle!Terminal
  <2> QED
    BY ZenonT(30), <1>2, <2>1, <2>2 DEF Finish, Lifecycle!Next
<1>3. CASE LoadFails \/ StartProcess \/ BudgetExpires \/ ArtifactLimit \/ ObserveCancellation
  BY ZenonT(30), <1>3 DEF LoadFails, StartProcess, BudgetExpires, ArtifactLimit, ObserveCancellation, row
<1>4. CASE HandleReady \/ HandleConfirmationCompleted \/ \E st \in Terminal : HandleComplete(st)
  BY ZenonT(30), <1>4 DEF HandleReady, HandleConfirmationCompleted, HandleComplete, Receive
<1>5. CASE HandleApprovalRequest
  BY ZenonT(30), <1>5 DEF HandleApprovalRequest, Receive, CanAwait, Revoked,
     Lifecycle!Next, Lifecycle!Approval, Lifecycle!Active
<1>6. CASE HandleConfirmationStarting
  BY ZenonT(30), <1>6 DEF HandleConfirmationStarting, Receive, CanMark, Revoked, Active,
     Lifecycle!Next, Lifecycle!StartConfirmation, Lifecycle!Active
<1>7. CASE HandleApproval
  BY ZenonT(30), <1>7 DEF HandleApproval, CanResume, Revoked,
     Lifecycle!Next, Lifecycle!Approval, Lifecycle!Active
<1>8. CASE HandleCtxDone \/ HandleDone \/ HandleEventsClosed \/ WaitDecision
           \/ SessionCancel \/ SendCancel \/ ForceKill \/ WorkerExits
  BY ZenonT(30), <1>8 DEF HandleCtxDone, HandleDone, HandleEventsClosed, WaitDecision,
     SessionCancel, SendCancel, ForceKill, WorkerExits, row
<1>9. CASE WorkerReady \/ ReadStart \/ ActionFails \/ CheckCancelled \/ CheckSucceeds
           \/ RequestApproval \/ WaitForApproval \/ AwaitConfirmationReady
           \/ ClickFinalConfirmation \/ GateRefused \/ VerifyReceipt \/ AfterVerification
  BY ZenonT(30), <1>9 DEF WorkerReady, ReadStart, ActionFails, CheckCancelled, CheckSucceeds,
     RequestApproval, WaitForApproval, AwaitConfirmationReady, ClickFinalConfirmation,
     GateRefused, VerifyReceipt, AfterVerification, WorkerStep, row
<1>10. CASE RequestCancellation
  BY ZenonT(30), <1>10 DEF RequestCancellation, CancelRow, Active, Lifecycle!Next,
     Lifecycle!RequestCancellation, Lifecycle!Pending, Lifecycle!Active
<1>11. CASE DisableAccount
  BY ZenonT(30), <1>11 DEF DisableAccount, CancelRow, Active, Terminal, Inv, Types, TypeOK, Lifecycle!Next,
     Lifecycle!RequestCancellation, Lifecycle!Pending, Lifecycle!Active
<1>12. CASE EnableAccount \/ (\E d \in {"approve", "cancel"} : RecordJobDecision(d)) \/ Decide
            \/ Stop \/ StopCompletes \/ Crash
  BY ZenonT(30), <1>12 DEF EnableAccount, RecordJobDecision, Decide, Stop, StopCompletes, Crash, Vanish, row
<1>13. CASE Restart
  BY ZenonT(30), <1>13 DEF Restart, Active, Inv, Types, TypeOK, Lifecycle!Next, Lifecycle!End,
     Lifecycle!Active, Lifecycle!Terminal
<1> QED
  BY ZenonT(30), <1>1, <1>2, <1>3, <1>4, <1>5, <1>6, <1>7, <1>8, <1>9, <1>10, <1>11, <1>12, <1>13
     DEF Next, Operate

\* The row of a job that the engine runs lives the abstract life of a job.
THEOREM RowFollowsLifecycle == Spec => JobFollowsLifecycle
<1>1. Init => Lifecycle!Init
  BY Zenon DEF Init, Lifecycle!Init
<1>2. Inv /\ [Next]_vars => [Lifecycle!Next]_(Lifecycle!vars)
  BY ZenonT(30), RowSteps DEF vars, row, Lifecycle!vars
<1> QED
  BY <1>1, <1>2, InvariantHolds, PTL DEF Spec, JobFollowsLifecycle, Lifecycle!Spec

\* A cancellation, or a disabled account, that is committed before the mark prevents
\* the click for good: SystemMarkConfirmationStarted refuses a cancelled job, and no
\* step of its life takes the cancellation back.
THEOREM RevocationsPreventClicks == Spec => RevocationPreventsClick
<1> DEFINE Withdrawn == cancel = TRUE /\ conf = FALSE
<1>1. Inv => ((cancel /\ ~conf) <=> Withdrawn)
  BY Zenon DEF Inv, Types, TypeOK
<1>2. Inv /\ Withdrawn => ~clicked
  BY Zenon DEF Inv, Marks
<1>3. Inv /\ Inv' /\ Withdrawn /\ [Next]_vars => Withdrawn'
  <2> SUFFICES ASSUME Inv, Inv', Withdrawn, Next
               PROVE  Withdrawn'
    BY ZenonT(30) DEF vars, row
  <2>1. status' # "deleted" /\ status # "unused"
    BY DEF Inv, Types, TypeOK, Active, Terminal, Retryable
  <2> QED
    BY ZenonT(30), <2>1, RowSteps DEF Lifecycle!Next, Lifecycle!Admit, Lifecycle!Claim, Lifecycle!Approval,
       Lifecycle!StartConfirmation, Lifecycle!RequestCancellation, Lifecycle!Expire,
       Lifecycle!End, Lifecycle!Forget
<1> HIDE DEF Withdrawn
<1> QED
  BY <1>1, <1>2, <1>3, InvariantHolds, PTL DEF Spec, RevocationPreventsClick

=============================================================================
