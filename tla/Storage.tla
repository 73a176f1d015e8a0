------------------------------- MODULE Storage ------------------------------
(***************************************************************************)
(* The directories of browser profiles and job diagnostics, and the        *)
(* cleaners that remove those whose durable owner is gone: the maintenance *)
(* loop, the reconciliation after a member is deleted, and the clean-up    *)
(* before a run (engine/storage.go).  A cleaner decides from rows it read  *)
(* earlier while runs create directories, profiles and jobs come and go,   *)
(* and the process may crash.  Identifiers are never used again.           *)
(***************************************************************************)
EXTENDS Naturals, FiniteSets

CONSTANTS
  Profile, Job,
  ProfileOf,     \* [Job -> Profile]
  Cleaner,
  Found,         \* what may lie in a profile's place before the first start
  MaxFaults,     \* bound on crashes and failed passes
  Nothing

ASSUME StorageAssumption ==
  /\ ProfileOf \in [Job -> Profile] /\ MaxFaults \in Nat
  /\ Nothing \notin Profile \cup Job /\ Profile \cap Job = {} /\ Found \subseteq {"none", "host"}
  /\ Cleaner \cap Job = {}

VARIABLES
  profile,     \* rows: "new", "live", "deleted"
  jobs,         \* rows: "new", "queued", "running", "ended", "pruned"
  pdir,        \* "none", "bare", "torn" (an empty marker), "marked",
               \* "partial" (the marker removed, files left), or "host":
               \* files without a marker, not ours
  adir,        \* diagnostics: "none", "small", "large"
  run,         \* a run: "none", "clean", "mkdir", "marker", "write", "artifacts", "exec",
               \* "cancelled", "limit"
  browser,     \* the worker process of a run: "none", "starting", "up"
  cleaner,     \* of a maintenance pass or a run: [pc, snapshot, todo, remove]
  faults

rows == <<profile, jobs>>
storageVars == <<rows, pdir, adir, run, browser, cleaner, faults>>

Worker == Cleaner \cup Job
NoPass == [pc |-> "idle", snapshot |-> {}, todo |-> {}, remove |-> Nothing]
Live == {i \in Profile : profile[i] = "live"}

StorageInit ==
  /\ profile = [i \in Profile |-> "new"] /\ jobs = [j \in Job |-> "new"]
  /\ pdir \in [Profile -> Found] /\ adir = [j \in Job |-> "none"]
  /\ run = [j \in Job |-> "none"] /\ browser = [j \in Job |-> "none"]
  /\ cleaner = [c \in Worker |-> NoPass] /\ faults = 0

-----------------------------------------------------------------------------
\* Rows.  A profile goes only when no job row refers to it.
CreateProfile(i) ==
  /\ profile[i] = "new" /\ profile' = [profile EXCEPT ![i] = "live"]
  /\ UNCHANGED <<jobs, pdir, adir, run, browser, cleaner, faults>>

Unreferenced(i) == \A j \in Job : ProfileOf[j] = i => jobs[j] \in {"new", "pruned"}

DeleteProfile(i) ==
  /\ profile[i] = "live" /\ Unreferenced(i) /\ profile' = [profile EXCEPT ![i] = "deleted"]
  /\ UNCHANGED <<jobs, pdir, adir, run, browser, cleaner, faults>>

\* DeleteMember: everything of a member without pending jobs, here one profile.
RemoveMember(i) ==
  /\ profile[i] = "live"
  /\ \A j \in Job : ProfileOf[j] = i => jobs[j] \notin {"queued", "running"}
  /\ profile' = [profile EXCEPT ![i] = "deleted"]
  /\ jobs' = [j \in Job |-> IF ProfileOf[j] = i /\ jobs[j] = "ended" THEN "pruned" ELSE jobs[j]]
  /\ UNCHANGED <<pdir, adir, run, browser, cleaner, faults>>

Enqueue(j) ==
  /\ jobs[j] = "new" /\ profile[ProfileOf[j]] = "live" /\ jobs' = [jobs EXCEPT ![j] = "queued"]
  /\ UNCHANGED <<profile, pdir, adir, run, browser, cleaner, faults>>

\* A queued job is cancelled or expires.
CancelQueued(j) ==
  /\ jobs[j] = "queued" /\ jobs' = [jobs EXCEPT ![j] = "ended"]
  /\ UNCHANGED <<profile, pdir, adir, run, browser, cleaner, faults>>

Prune(j) ==
  /\ jobs[j] = "ended" /\ jobs' = [jobs EXCEPT ![j] = "pruned"]
  /\ UNCHANGED <<profile, pdir, adir, run, browser, cleaner, faults>>

-----------------------------------------------------------------------------
\* A run; one per profile at a time.
ClaimJob(j) ==
  /\ jobs[j] = "queued" /\ \A k \in Job : ProfileOf[k] = ProfileOf[j] => jobs[k] # "running"
  /\ jobs' = [jobs EXCEPT ![j] = "running"] /\ run' = [run EXCEPT ![j] = "clean"]
  /\ UNCHANGED <<profile, pdir, adir, browser, cleaner, faults>>

\* ensureManagedProfileDirectory: a directory that is not ours is refused ...
MakeDirectory(j) ==
  LET i == ProfileOf[j] IN
  /\ run[j] = "mkdir" /\ pdir[i] \in {"none", "bare", "marked"}
  /\ pdir' = [pdir EXCEPT ![i] = IF @ = "none" THEN "bare" ELSE @]
  /\ run' = [run EXCEPT ![j] = IF pdir[i] = "marked" THEN "artifacts" ELSE "marker"]
  /\ UNCHANGED <<rows, adir, browser, cleaner, faults>>

\* ... an empty one gets its marker, created and then written.
CreateMarker(j) ==
  /\ run[j] = "marker" /\ pdir[ProfileOf[j]] = "bare"
  /\ pdir' = [pdir EXCEPT ![ProfileOf[j]] = "torn"] /\ run' = [run EXCEPT ![j] = "write"]
  /\ UNCHANGED <<rows, adir, browser, cleaner, faults>>

WriteMarker(j) ==
  /\ run[j] = "write"
  /\ pdir' = [pdir EXCEPT ![ProfileOf[j]] = "marked"] /\ run' = [run EXCEPT ![j] = "artifacts"]
  /\ UNCHANGED <<rows, adir, browser, cleaner, faults>>

MakeArtifacts(j) ==
  /\ run[j] = "artifacts"
  /\ adir' = [adir EXCEPT ![j] = "small"] /\ run' = [run EXCEPT ![j] = "exec"]
  /\ browser' = [browser EXCEPT ![j] = "starting"]
  /\ UNCHANGED <<rows, pdir, cleaner, faults>>

\* run_action makes both directories again should they be gone, the
\* profile's without a marker, and starts the browser.
LaunchBrowser(j) ==
  /\ browser[j] = "starting" /\ browser' = [browser EXCEPT ![j] = "up"]
  /\ pdir' = [pdir EXCEPT ![ProfileOf[j]] = IF @ = "none" THEN "partial" ELSE @]
  /\ adir' = [adir EXCEPT ![j] = IF @ = "none" THEN "small" ELSE @]
  /\ UNCHANGED <<rows, run, cleaner, faults>>

\* The browser writes more than maxJobArtifactBytes between two looks of the monitor.
WriteTooMuch(j) ==
  /\ browser[j] = "up" /\ adir[j] # "none" /\ adir' = [adir EXCEPT ![j] = "large"]
  /\ UNCHANGED <<rows, pdir, run, browser, cleaner, faults>>

\* The worker's process group ends by itself, or Session.Cancel's grace is over.
BrowserExits(j) ==
  /\ browser[j] # "none" /\ browser' = [browser EXCEPT ![j] = "none"]
  /\ UNCHANGED <<rows, pdir, adir, run, cleaner, faults>>

\* artifactLimitExceeded
TooLarge(j) == adir[j] = "large"

\* monitorArtifacts cancels a run over its limit.
MonitorArtifacts(j) ==
  /\ run[j] = "exec" /\ TooLarge(j) /\ run' = [run EXCEPT ![j] = "cancelled"]
  /\ UNCHANGED <<rows, pdir, adir, browser, cleaner, faults>>

Fault == faults < MaxFaults /\ faults' = faults + 1

\* finish, after the run or after one of its steps failed: the row ends; the browser
\* may live on for its cancel grace, as when a frame handler fails.  A removal of the
\* run's own clean-up is only left by an error, and the transition may fail.
FinishRun(j) ==
  /\ run[j] \notin {"none", "limit"} /\ run' = [run EXCEPT ![j] = "limit"]
  /\ \/ /\ jobs' = [jobs EXCEPT ![j] = "ended"]
        /\ IF cleaner[j].remove = Nothing THEN UNCHANGED faults ELSE Fault
     \/ UNCHANGED jobs /\ Fault
  /\ cleaner' = [cleaner EXCEPT ![j] = NoPass]
  /\ UNCHANGED <<profile, pdir, adir, browser>>

\* The deferred enforceArtifactLimit.
EnforceArtifactLimit(j) ==
  /\ run[j] = "limit" /\ run' = [run EXCEPT ![j] = "none"]
  /\ adir' = [adir EXCEPT ![j] = IF TooLarge(j) THEN "none" ELSE @]
  /\ UNCHANGED <<rows, pdir, browser, cleaner, faults>>

-----------------------------------------------------------------------------
Set(c, r) == cleaner' = [cleaner EXCEPT ![c] = r]

\* cleanupArtifacts lists its directory ...
ListArtifacts(c) ==
  /\ cleaner[c].pc = "idle"
  /\ Set(c, [NoPass EXCEPT !.pc = "artifacts", !.todo = {j \in Job : adir[j] # "none"}])
  /\ UNCHANGED <<rows, pdir, adir, run, browser, faults>>

\* Mutant: listed diagnostics go.
ArtifactDecisionAnyway(c, j) == TRUE
\* Mutant: only diagnostics of pruned jobs go.
ArtifactDecisionGone(c, j) == jobs[j] = "pruned"
\* ... and asks for each entry whether its job has ended or is gone.
ArtifactDecision(c, j) == jobs[j] \in {"ended", "pruned"}

CheckArtifacts(c) ==
  /\ cleaner[c].pc = "artifacts" /\ cleaner[c].remove = Nothing
  /\ \E j \in cleaner[c].todo :
       Set(c, [cleaner[c] EXCEPT !.todo = @ \ {j},
                                 !.remove = IF ArtifactDecision(c, j) THEN j ELSE Nothing])
  /\ UNCHANGED <<rows, pdir, adir, run, browser, faults>>

RemoveArtifacts(c) ==
  /\ cleaner[c].pc = "artifacts" /\ cleaner[c].remove # Nothing
  /\ adir' = [adir EXCEPT ![cleaner[c].remove] = "none"]
  /\ Set(c, [cleaner[c] EXCEPT !.remove = Nothing])
  /\ UNCHANGED <<rows, pdir, run, browser, faults>>

\* cleanupProfiles, after the diagnostics or at the start of a run, takes the
\* rows first, then the directory.
ListProfiles(c) ==
  /\ \/ cleaner[c].pc = "artifacts" /\ cleaner[c].todo = {} /\ cleaner[c].remove = Nothing
     \/ c \in Job /\ run[c] = "clean" /\ cleaner[c].pc = "idle"
  /\ Set(c, [NoPass EXCEPT !.pc = "snapshot", !.snapshot = Live])
  /\ UNCHANGED <<rows, pdir, adir, run, browser, faults>>

ReadProfilesDir(c) ==
  /\ cleaner[c].pc = "snapshot"
  /\ Set(c, [cleaner[c] EXCEPT !.pc = "profiles", !.todo = {i \in Profile : pdir[i] # "none"}])
  /\ UNCHANGED <<rows, pdir, adir, run, browser, faults>>

\* Mutant: the listed rows decide alone.
RetainedBySnapshot(c, i) == i \in cleaner[c].snapshot
\* cleanupProfileEntries: the snapshot, or else the row as it is now.
Retained(c, i) == i \in cleaner[c].snapshot \/ profile[i] = "live"

\* readManagedProfileMarker succeeds and names the profile.
Marked(i) == pdir[i] = "marked"

\* An entry without our marker is left, a marked one without a row goes.
CheckProfile(c) ==
  /\ cleaner[c].pc = "profiles" /\ cleaner[c].remove = Nothing
  /\ \E i \in cleaner[c].todo :
       Set(c, [cleaner[c] EXCEPT !.todo = @ \ {i},
                                 !.remove = IF Marked(i) /\ ~Retained(c, i) THEN i ELSE Nothing])
  /\ UNCHANGED <<rows, pdir, adir, run, browser, faults>>

\* RemoveAll takes the files in the directory's order: the marker may go before
\* the others.
RemoveMarker(c) ==
  /\ cleaner[c].pc = "profiles" /\ cleaner[c].remove # Nothing /\ pdir[cleaner[c].remove] = "marked"
  /\ pdir' = [pdir EXCEPT ![cleaner[c].remove] = "partial"]
  /\ UNCHANGED <<rows, adir, run, browser, cleaner, faults>>

RemoveProfile(c) ==
  /\ cleaner[c].pc = "profiles" /\ cleaner[c].remove # Nothing
  /\ pdir' = [pdir EXCEPT ![cleaner[c].remove] = "none"]
  /\ Set(c, [cleaner[c] EXCEPT !.remove = Nothing])
  /\ UNCHANGED <<rows, adir, run, browser, faults>>

EndCleaning(c) ==
  /\ cleaner[c].pc = "profiles" /\ cleaner[c].todo = {} /\ cleaner[c].remove = Nothing
  /\ Set(c, NoPass) /\ run' = [j \in Job |-> IF j = c THEN "mkdir" ELSE run[j]]
  /\ UNCHANGED <<rows, pdir, adir, browser, faults>>

\* A read or a removal fails and ends the pass (in a run: FinishRun).
PassFails(c) ==
  /\ Fault /\ cleaner[c].pc # "idle" /\ Set(c, NoPass) /\ UNCHANGED <<rows, pdir, adir, run, browser>>

\* The process ends and starts again; recovery ends the active rows.  Workers have
\* process groups of their own and may live on.
Crash ==
  /\ Fault
  /\ jobs' = [j \in Job |-> IF jobs[j] = "running" THEN "ended" ELSE jobs[j]]
  /\ run' = [j \in Job |-> "none"] /\ cleaner' = [c \in Worker |-> NoPass]
  /\ UNCHANGED <<profile, pdir, adir, browser>>

-----------------------------------------------------------------------------
CleanArtifacts(c) == ListArtifacts(c) \/ CheckArtifacts(c) \/ RemoveArtifacts(c)

CleanProfiles(c) ==
  \/ ListProfiles(c) \/ ReadProfilesDir(c) \/ CheckProfile(c) \/ RemoveMarker(c)
  \/ RemoveProfile(c) \/ EndCleaning(c)

Run(j) ==
  \/ ClaimJob(j) \/ MakeDirectory(j) \/ CreateMarker(j) \/ WriteMarker(j) \/ MakeArtifacts(j)
  \/ LaunchBrowser(j) \/ WriteTooMuch(j) \/ BrowserExits(j) \/ MonitorArtifacts(j) \/ FinishRun(j)
  \/ EnforceArtifactLimit(j)

StorageNext ==
  \/ \E i \in Profile : CreateProfile(i) \/ DeleteProfile(i) \/ RemoveMember(i)
  \/ \E j \in Job : Enqueue(j) \/ CancelQueued(j) \/ Prune(j) \/ Run(j) \/ CleanProfiles(j)
  \/ \E c \in Cleaner : CleanArtifacts(c) \/ CleanProfiles(c) \/ PassFails(c)
  \/ Crash

StorageSpec == StorageInit /\ [][StorageNext]_storageVars

\* The maintenance loop runs hourly and the monitors every second for as long
\* as the process does, a run's own clean-up goes on, and a cancelled run ends.
StorageFairness ==
  /\ \A c \in Cleaner : WF_storageVars(CleanArtifacts(c) \/ CleanProfiles(c))
  /\ \A j \in Job : WF_storageVars(CleanProfiles(j)) /\ WF_storageVars(MonitorArtifacts(j))
                 /\ WF_storageVars(run[j] = "cancelled" /\ FinishRun(j))

StorageFairSpec == StorageSpec /\ StorageFairness

-----------------------------------------------------------------------------
StorageTypeOK ==
  /\ profile \in [Profile -> {"new", "live", "deleted"}]
  /\ jobs \in [Job -> {"new", "queued", "running", "ended", "pruned"}]
  /\ pdir \in [Profile -> {"none", "bare", "torn", "marked", "partial", "host"}]
  /\ adir \in [Job -> {"none", "small", "large"}]
  /\ run \in [Job -> {"none", "clean", "mkdir", "marker", "write", "artifacts", "exec",
                       "cancelled", "limit"}]
  /\ browser \in [Job -> {"none", "starting", "up"}]
  /\ \A c \in Worker :
       /\ cleaner[c].pc \in {"idle", "artifacts", "snapshot", "profiles"}
       /\ cleaner[c].snapshot \subseteq Profile
       /\ cleaner[c].todo \subseteq (IF cleaner[c].pc = "artifacts" THEN Job ELSE Profile)
       /\ cleaner[c].remove \in (IF cleaner[c].pc = "artifacts" THEN Job ELSE Profile) \cup {Nothing}
  /\ faults \in 0 .. MaxFaults

\* cleanupArtifacts and cleanupProfileEntries against runs: while the row of a job is
\* active its browser keeps its profile and its diagnostics directory, whatever a
\* cleaner had read before; only the job's own limit takes the diagnostics, when finish
\* has failed.  A browser that outlives its row has no such claim.
RunsKeepTheirDirectories ==
  \A j \in Job : browser[j] # "none" /\ jobs[j] = "running" =>
                  /\ pdir[ProfileOf[j]] = "marked"
                  /\ adir[j] # "none" \/ (run[j] = "none" /\ faults > 0)

\* cleanupProfileEntries: of a profile that exists no file is removed, the
\* marker included, nor is a directory the program did not mark.
OwnedAndForeignAreKept ==
  [][\A i \in Profile :
       /\ pdir[i] = "marked" /\ profile[i] = "live" => pdir'[i] = "marked"
       /\ pdir[i] = "host" => pdir'[i] = "host"]_storageVars

\* maintain: again and again nothing is left over, neither the diagnostics of a job
\* that is over nor the marked directory of a deleted profile, unless its removal has
\* begun and failed.
LeftoversAreRemoved ==
  []<>(/\ \A i \in Profile : profile[i] = "deleted" => pdir[i] # "marked"
       /\ \A j \in Job : jobs[j] \in {"ended", "pruned"} => adir[j] = "none")

\* ReconcileStorage (storage.go:114): "It is safe to call after an administrator
\* deletes a disabled member; periodic maintenance remains the retry path."  What a
\* removal that was cut short has left of a deleted profile goes in the end.
RemovalsAreRetried ==
  \A i \in Profile : (profile[i] = "deleted" /\ pdir[i] \in {"marked", "partial"}) ~> pdir[i] = "none"
=============================================================================
