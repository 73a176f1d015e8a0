---------------------------- MODULE SourcePairing ---------------------------
(***************************************************************************)
(* One OTP source and its supervised pairing: the edit form (web/sources,  *)
(* store.UpdateOTPSource), the pairing job with its supervisedProvider     *)
(* goroutines, the hub's pairing waiters, the operator's choice, and its   *)
(* durable commit (SystemPersistOTPSourcePairing).  The schema admits one  *)
(* BlueBubbles source.  An edit is a request with its reads and its write  *)
(* at different times; every sign-in challenge of a run has a goroutine of *)
(* its own.  A pairing is named by the Messages inbox it was found in.     *)
(***************************************************************************)
EXTENDS Naturals, FiniteSets

CONSTANTS
  Server,       \* BlueBubbles servers; the identity of a source
  Chat,         \* conversations in an inbox
  Editor,       \* concurrent edit requests
  None,         \* no pairing, no waiter, no choice
  MaxJobs,      \* bound: pairing jobs
  MaxWaits      \* bound: challenges of one job

ASSUME SourcePairingAssumption ==
  MaxJobs \in Nat /\ MaxWaits \in Nat /\ IsFiniteSet(Server) /\ IsFiniteSet(Chat)

JobId == 1 .. MaxJobs
Goroutine == JobId \X (1 .. MaxWaits)
Fingerprint == [server : Server, chat : Chat]

VARIABLES
  source,     \* the otp_sources row: provider, identity, pairing
  user,       \* users.status of its owner
  jobs,       \* status and cancel_requested of the pairing jobs
  edit,       \* requests in sourceUpdate
  server,     \* the server of the provider a job built from the source
  hub,        \* Hub.pairings: the goroutine whose waiter a job shows
  choice,     \* the waiter of a goroutine: what the operator chose there
  taken,      \* waiters whose choice was received
  waits,      \* the waiter a goroutine waits at
  gpc,        \* supervisedProvider.WaitForCode
  live,       \* goroutines whose context has not ended
  selected    \* supervisedProvider.selected

run == <<server, hub, choice, taken, waits, gpc, live, selected>>
vars == <<source, user, jobs, edit, run>>

Pending == {"queued", "running"}
Idle == [pc |-> "idle"]

Init ==
  /\ source \in [provider : {"bluebubbles"}, identity : Server, pairing : {None}]
  /\ user = "active"
  /\ jobs = [j \in JobId |-> [status |-> "unused", cancel |-> FALSE]]
  /\ edit = [e \in Editor |-> Idle]
  /\ server = [j \in JobId |-> None] /\ hub = [j \in JobId |-> None]
  /\ choice = [g \in Goroutine |-> None] /\ taken = {}
  /\ waits = [g \in Goroutine |-> None] /\ gpc = [g \in Goroutine |-> "new"]
  /\ live = {} /\ selected = {}

-----------------------------------------------------------------------------
(***************************************************************************)
(* sourceUpdate.  The form names a provider and a server, with or without  *)
(* a new password; a blank server keeps the stored one, which another      *)
(* request may have changed since current was read.                        *)
(***************************************************************************)
Form == [provider : {"bluebubbles", "twilio"}, identity : Server, secret : BOOLEAN]

\* The handler reads the source.
ReadCurrent(e) ==
  /\ edit[e].pc = "idle"
  /\ \E form \in Form, blank \in BOOLEAN :
       edit' = [edit EXCEPT ![e] =
         [pc |-> "input", form |-> form, blank |-> blank, current |-> source]]
  /\ UNCHANGED <<source, user, jobs, run>>

\* sourceInput reads the configuration and keeps the pairing of current.
SourceInput(e) ==
  /\ edit[e].pc = "input"
  /\ LET current == edit[e].current
         form    == edit[e].form
         same    == current.provider = form.provider
         id      == IF edit[e].blank /\ same THEN source.identity ELSE form.identity
         refused == /\ same /\ form.provider = "bluebubbles"
                    /\ id # current.identity /\ ~form.secret
     IN edit' = [edit EXCEPT ![e] =
          IF refused THEN Idle
          ELSE [pc |-> "update", secret |-> form.secret,
                new |-> [provider |-> form.provider, identity |-> id,
                         pairing |-> IF same THEN current.pairing ELSE None]]]
  /\ UNCHANGED <<source, user, jobs, run>>

\* UpdateOTPSource reads the row again: another server needs a new password and
\* clears the pairing.
ReadExisting(e) ==
  /\ edit[e].pc = "update"
  /\ LET new     == edit[e].new
         changed == /\ source.provider = "bluebubbles" /\ new.provider = "bluebubbles"
                    /\ source.identity # new.identity
     IN edit' = [edit EXCEPT ![e] =
          IF changed /\ ~edit[e].secret THEN Idle
          ELSE [edit[e] EXCEPT !.pc = "write",
                               !.new.pairing = IF changed THEN None ELSE @]]
  /\ UNCHANGED <<source, user, jobs, run>>

NoPendingJob == \A j \in JobId : jobs[j].status \notin Pending

\* Mutant: a pending job does not stop an edit.
UpdateUnderRun(e) ==
  /\ edit[e].pc = "write"
  /\ edit' = [edit EXCEPT ![e] = Idle]
  /\ LET new == edit[e].new
         may == \/ edit[e].secret \/ source.provider # "bluebubbles"
                \/ new.provider # "bluebubbles" \/ source.identity = new.identity
     IN source' = IF may THEN new ELSE source
  /\ UNCHANGED <<user, jobs, run>>

\* Its conditional UPDATE.
UpdateOTPSource(e) ==
  /\ edit[e].pc = "write"
  /\ edit' = [edit EXCEPT ![e] = Idle]
  /\ LET new == edit[e].new
         may == \/ edit[e].secret \/ source.provider # "bluebubbles"
                \/ new.provider # "bluebubbles" \/ source.identity = new.identity
     IN source' = IF may /\ NoPendingJob THEN new ELSE source
  /\ UNCHANGED <<user, jobs, run>>

-----------------------------------------------------------------------------
(***************************************************************************)
(* The pairing job, as the queue and the engine move it.                   *)
(***************************************************************************)
QueuePairing(j) ==
  /\ user = "active" /\ source.provider = "bluebubbles" /\ jobs[j].status = "unused"
  /\ \A i \in JobId : i < j => jobs[i].status # "unused"
  /\ NoPendingJob
  /\ jobs' = [jobs EXCEPT ![j].status = "queued"]
  /\ UNCHANGED <<source, user, edit, run>>

\* A worker claims the job and execute builds the provider from the source.
Execute(j) ==
  /\ jobs[j].status = "queued" /\ user = "active"
  /\ jobs' = [jobs EXCEPT ![j].status = "running"]
  /\ UNCHANGED <<source, user, edit, run>>

ProviderForSource(j) ==
  /\ jobs[j].status = "running" /\ server[j] = None
  /\ server' = [server EXCEPT ![j] = source.identity]
  /\ UNCHANGED <<source, user, jobs, edit, hub, choice, taken, waits, gpc, live, selected>>

\* otp.triggered starts a goroutine, once the challenge before it has ended.
StartChallenge(g) ==
  LET j == g[1] IN
  /\ jobs[j].status = "running" /\ server[j] # None /\ gpc[g] = "new"
  /\ \A h \in Goroutine : h[1] = j => h \notin live /\ (h[2] < g[2] => gpc[h] # "new")
  /\ gpc' = [gpc EXCEPT ![g] = "scan"] /\ live' = live \cup {g}
  /\ UNCHANGED <<source, user, jobs, edit, server, hub, choice, taken, waits, selected>>

\* A deadline, a later frame or the end of the run cancels the challenge.
ChallengeEnds(g) ==
  /\ g \in live /\ live' = live \ {g}
  /\ UNCHANGED <<source, user, jobs, edit, server, hub, choice, taken, waits, gpc, selected>>

EndAll(j) == live' = {g \in live : g[1] # j}

\* The run returns and finish stores its status; a success without a selection
\* is stored as a failure.  Goroutines may still be on their way out.
Finish(j) ==
  /\ jobs[j].status = "running"
  /\ \E status \in {"failed"} \cup (IF j \in selected THEN {"succeeded"} ELSE {}) :
       jobs' = [jobs EXCEPT ![j].status = status]
  /\ EndAll(j)
  /\ UNCHANGED <<source, user, edit, server, hub, choice, taken, waits, gpc, selected>>

ClearPairing(j) == hub' = [hub EXCEPT ![j] = None]

\* Engine.CancelJob: the request is stored; a run of this process also loses its
\* candidates (Hub.CancelJob) and its context.
CancelJob(j) ==
  /\ jobs[j].status \in Pending /\ ~jobs[j].cancel
  /\ jobs' = [jobs EXCEPT ![j] = [status |-> IF @.status = "queued" THEN "cancelled" ELSE @.status,
                                  cancel |-> TRUE]]
  /\ \/ jobs[j].status = "running" /\ ClearPairing(j) /\ EndAll(j)
     \/ UNCHANGED <<hub, live>>
  /\ UNCHANGED <<source, user, edit, server, choice, taken, waits, gpc, selected>>

\* The context of a run ends: monitorCancellation sees the stored request, or its
\* budget is over, or the process shuts down; RunPython calls Hub.CancelJob.
EndRun(j) ==
  /\ jobs[j].status = "running" /\ ClearPairing(j) /\ EndAll(j)
  /\ UNCHANGED <<source, user, jobs, edit, server, choice, taken, waits, gpc, selected>>

\* An administrator disables the owner, which cancels the pending jobs.
Disable ==
  /\ user = "active" /\ user' = "disabled"
  /\ jobs' = [j \in JobId |->
       IF jobs[j].status \notin Pending THEN jobs[j]
       ELSE [status |-> IF jobs[j].status = "queued" THEN "cancelled" ELSE jobs[j].status,
             cancel |-> TRUE]]
  /\ UNCHANGED <<source, edit, run>>

Enable ==
  /\ user = "disabled" /\ user' = "active"
  /\ UNCHANGED <<source, jobs, edit, run>>

\* The process ends and restarts: requests, goroutines and the hub are gone, and
\* recovery ends the running job.
Crash ==
  /\ jobs' = [j \in JobId |-> IF jobs[j].status = "running"
                              THEN [jobs[j] EXCEPT !.status = "interrupted"] ELSE jobs[j]]
  /\ edit' = [e \in Editor |-> Idle]
  /\ hub' = [j \in JobId |-> None] /\ live' = {}
  /\ gpc' = [g \in Goroutine |-> IF gpc[g] = "new" THEN "new" ELSE "end"]
  /\ UNCHANGED <<source, user, server, choice, taken, waits, selected>>

-----------------------------------------------------------------------------
(***************************************************************************)
(* supervisedProvider.WaitForCode and the hub.                             *)
(***************************************************************************)
Goto(g, pc) == gpc' = [gpc EXCEPT ![g] = pc]

\* The scan found candidates: SetPairingCandidates, unless a waiter is there.
SetPairingCandidates(g) ==
  /\ gpc[g] = "scan"
  /\ IF hub[g[1]] = None
     THEN Goto(g, "set") /\ hub' = [hub EXCEPT ![g[1]] = g]
     ELSE Goto(g, "end") /\ UNCHANGED hub
  /\ UNCHANGED <<source, user, jobs, edit, server, choice, taken, waits, live, selected>>

\* The scan fails, as it does once its context has ended.
ScanFails(g) ==
  /\ gpc[g] = "scan" /\ Goto(g, "end")
  /\ UNCHANGED <<source, user, jobs, edit, server, hub, choice, taken, waits, live, selected>>

\* WaitPairing looks the waiter of the job up; it may have been cleared, and another
\* goroutine's may be there, under it.
WaitPairing(g) ==
  /\ gpc[g] = "set" /\ waits' = [waits EXCEPT ![g] = hub[g[1]]]
  /\ Goto(g, IF hub[g[1]] = None THEN "clear" ELSE "wait")
  /\ UNCHANGED <<source, user, jobs, edit, server, hub, choice, taken, live, selected>>

\* The operator chooses a candidate; a waiter takes one choice.
ChoosePairing(j) ==
  LET g == hub[j] IN
  /\ g # None /\ choice[g] = None
  /\ \E c \in Chat : choice' = [choice EXCEPT ![g] = [server |-> server[j], chat |-> c]]
  /\ UNCHANGED <<source, user, jobs, edit, server, hub, taken, waits, gpc, live, selected>>

\* A choice is received, once.
TakeChoice(g) ==
  /\ choice[waits[g]] # None /\ waits[g] \notin taken
  /\ taken' = taken \cup {waits[g]} /\ Goto(g, "persist")

\* Mutant: a cancelled wait leaves its waiter.
WaitKeepsWaiter(g) ==
  /\ gpc[g] = "wait"
  /\ \/ TakeChoice(g) /\ ClearPairing(g[1])
     \/ g \notin live /\ Goto(g, "end") /\ UNCHANGED <<hub, taken>>
  /\ UNCHANGED <<source, user, jobs, edit, server, choice, waits, live, selected>>

\* The wait ends with the choice or with the context, whichever select takes.
WaitEnds(g) ==
  /\ gpc[g] = "wait"
  /\ \/ TakeChoice(g)
     \/ g \notin live /\ Goto(g, "clear") /\ UNCHANGED taken
  /\ ClearPairing(g[1])
  /\ UNCHANGED <<source, user, jobs, edit, server, choice, waits, live, selected>>

\* The predicate of SystemPersistOTPSourcePairing.
\* Mutant: a revoked run may persist.
MayPersistUnchecked(j) == source.provider = "bluebubbles" /\ jobs[j].status = "running"
MayPersist(j) ==
  /\ source.provider = "bluebubbles" /\ user = "active"
  /\ jobs[j].status = "running" /\ ~jobs[j].cancel

Persist(g) ==
  LET j == g[1] IN
  /\ gpc[g] = "persist" /\ Goto(g, "clear")
  /\ \/ /\ MayPersist(j)
        /\ source' = [source EXCEPT !.pairing = choice[waits[g]]]
        /\ selected' = selected \cup {j}
     \/ (~MayPersist(j) \/ g \notin live) /\ UNCHANGED <<source, selected>>
  /\ UNCHANGED <<user, jobs, edit, server, hub, choice, taken, waits, live>>

\* The deferred ClearPairing, which removes whatever waiter the job shows.
DeferredClear(g) ==
  /\ gpc[g] = "clear" /\ Goto(g, "end") /\ ClearPairing(g[1])
  /\ UNCHANGED <<source, user, jobs, edit, server, choice, taken, waits, live, selected>>

-----------------------------------------------------------------------------
Edit(e) == ReadCurrent(e) \/ SourceInput(e) \/ ReadExisting(e) \/ UpdateOTPSource(e)
Job(j) == QueuePairing(j) \/ Execute(j) \/ ProviderForSource(j) \/ Finish(j) \/ CancelJob(j)
            \/ EndRun(j) \/ ChoosePairing(j)
Leaving(g) == WaitPairing(g) \/ WaitEnds(g) \/ Persist(g) \/ DeferredClear(g)
Wait(g) == StartChallenge(g) \/ ChallengeEnds(g) \/ SetPairingCandidates(g) \/ ScanFails(g) \/ Leaving(g)

Next ==
  \/ \E e \in Editor : Edit(e)
  \/ \E j \in JobId : Job(j)
  \/ \E g \in Goroutine : Wait(g)
  \/ Disable \/ Enable \/ Crash

Spec == Init /\ [][Next]_vars

\* A goroutine that is past its scan runs, every run ends (its execution budget)
\* and a challenge has a deadline.
PairingFairness ==
  /\ \A g \in Goroutine : WF_vars(Leaving(g)) /\ WF_vars(ChallengeEnds(g))
  /\ \A j \in JobId : WF_vars(Finish(j))

FairSpec == Spec /\ PairingFairness

-----------------------------------------------------------------------------
TypeOK ==
  /\ source \in [provider : {"bluebubbles", "twilio"}, identity : Server,
                 pairing : Fingerprint \cup {None}]
  /\ user \in {"active", "disabled"}
  /\ jobs \in [JobId -> [status : Pending \cup {"unused", "succeeded", "failed", "cancelled",
                                                "interrupted"}, cancel : BOOLEAN]]
  /\ \A e \in Editor : edit[e].pc \in {"idle", "input", "update", "write"}
  /\ server \in [JobId -> Server \cup {None}]
  /\ hub \in [JobId -> Goroutine \cup {None}]
  /\ choice \in [Goroutine -> Fingerprint \cup {None}] /\ taken \subseteq Goroutine
  /\ waits \in [Goroutine -> Goroutine \cup {None}]
  /\ gpc \in [Goroutine -> {"new", "scan", "set", "wait", "persist", "clear", "end"}]
  /\ live \subseteq Goroutine /\ selected \subseteq JobId

\* store/sources.go:95: "A pairing fingerprint belongs to one Messages inbox ...
\* changing servers must re-pair": the pairing of the source was found in the
\* inbox of the server the source names.
PairingBelongsToInbox ==
  source.provider = "bluebubbles" /\ source.pairing # None => source.pairing.server = source.identity

\* ChoosePairing, WaitPairing, SystemPersistOTPSourcePairing: outside an edit,
\* the pairing changes only to what the operator chose for the same job, in a run
\* that no cancellation and no disabling of the account has overtaken, and a choice
\* once taken is never replaced.
OnlyTheChoiceIsKept ==
  [][/\ source'.pairing # source.pairing /\ edit' = edit =>
          \E g, w \in Goroutine :
            /\ source'.pairing = choice[w] /\ w[1] = g[1] /\ gpc[g] = "persist"
            /\ ~jobs[g[1]].cancel /\ user = "active"
     /\ \A g \in Goroutine : choice[g] # None => choice'[g] = choice[g]]_vars

\* UpdateOTPSource refuses a source with a pending job: whatever edits are under way,
\* the pairing a run persists was found in the inbox of the server the source names.
PersistedWhereFound ==
  [][source'.pairing # source.pairing /\ edit' = edit =>
       source'.pairing # None /\ source'.pairing.server = source'.identity]_vars

\* ClearPairing: a job that has ended stops showing candidates, and the codes in
\* them, for good.
CandidatesAreRemoved ==
  \A j \in JobId : jobs[j].status \notin Pending \cup {"unused"} ~> [](hub[j] = None)
=============================================================================
