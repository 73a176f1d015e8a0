# A TLA+ model of lake-pass-bot

lake-pass-bot books day passes at Yodel for its operators. A Go control plane
keeps a durable queue in SQLite, claims jobs, and drives each one through a
supervised Python process that owns a browser. One click in that browser spends
the operator's allowance for a date and cannot be undone, so most of the code
is about one question: *what may be assumed about that click when processes
crash, operators change their minds and messages are lost?* This project models
the code that answers it.

## The system and its parts

| part | source | modules |
|---|---|---|
| durable job queue, booking reservations, retention | `internal/store/{jobs,job_queue,booking_snapshots}.go`, `migrations/0001`, `0003`, `0005` | `JobStore`, `JobContract`, `JobLifecycle`, `JobStoreProofs` |
| what the queue reads of accounts and profiles | `internal/store/{accounts,profiles}.go` | `JobStore` |
| engine worker: claim, limits, cancellation monitor, final status | `internal/engine/engine.go`, `execution_budget.go` | `JobRun`, `JobRunProofs` |
| coordinator of one run | `internal/control/coordinator.go` | `JobRun`, `OtpChallenge`, `OtpChallengeProofs` |
| live hub (decision waiter, shown code) | `internal/control/hub.go` | `JobRun`, `OtpChallenge` |
| supervised process | `internal/actionproc/process.go` | `JobRun` |
| Python worker, approval and confirmation gate | `actions/src/lake_pass_actions/{worker,control,protocol}.py`, `providers/yodel/{action,checkout}.py` | `JobRun` |
| signing in with one-time codes | `control.py`, `protocol.py`, `providers/yodel/action.py`, `Arm` and `WaitForCode` of `internal/otp/bluebubbles` | `OtpChallenge`, `OtpChallengeProofs` |
| accounts, passwords, sessions, attempt limits | `internal/store/{accounts,auth,sessions}.go`, `internal/auth/auth.go`, `internal/web/{auth,accounts,middleware}.go`, `migrations/0001` | `Accounts`, `AccountsProofs` |
| OTP providers | `internal/otp/otp.go`, `internal/otp/bluebubbles` | `OtpProvider`, `BlueBubbles`, `OtpSourceProofs` |
| OTP sources and supervised pairing | `internal/store/sources.go`, `internal/engine/providers.go`, `internal/web/sources.go` | `SourcePairing`, `OtpSourceProofs` |
| job events and live streams | `internal/store/job_events.go`, `internal/web/{jobs,streams}.go`, `internal/control/hub.go` | `JobStream`, `JobStreamProofs` |
| release windows, budgets, release wait, polling | `internal/scheduler`, `internal/engine/{booking_queue,lake_booking,execution_budget}.go`, `action.py` | `BookingWindow`, `LakeBookingProofs` |
| sign-ins, lake settings, quick booking, connection status | `internal/store/{profiles,settings}.go`, `internal/model/settings.go`, `internal/web/{lakes,profiles,lake_connections,quick_booking}.go` | `LakeConnection`, `LakeBookingProofs` |
| artifact and profile directories | `internal/engine/storage.go`, `storage_budget.go` | `Storage`, `DataDirProofs` |
| start, recovery, shutdown | `cmd/lake-pass-bot/serve.go`, `internal/engine/engine.go` | `JobRun`, `Installation` |
| key file and migrations | `internal/crypto`, `internal/store/store.go` | `Installation`, `DataDirProofs` |

How they interact: an HTTP handler or the CLI admits a job (one transaction).
One of several engine workers claims it, which leases the browser profile and
the OTP inbox. The worker starts Python, and the coordinator answers Python's
frames: it asks the operator for approval (a row in `job_decisions` and a
waiter in the hub), stores the confirmation mark before it lets Python click,
and classifies how the run ended. Cancellation is a flag in the row that the
worker's monitor polls; disabling the account sets the same flag. After a crash
the next start settles every row that was active.

`PROJECT.json` lists every part with its status, and the hazards of each.

## Modules

**JobStore** is the database. Its variables are the columns some guard reads:
`account` (`users.status`), `profile` (`profiles.enabled`), `jobs`, `resv`
(`booking_reservations`: a job id, `Detached` for `job_id NULL`, or
`NoReservation`), and the clock `now`; `confirmed` is a history variable that
remembers every confirmation even after its row is pruned. Each action is one
store call with everything SQLite does inside it: `Settle` is a status update
followed by the retention trigger (`Trim` gives the sets of rows it may delete)
and the reservation triggers (`Reservations`). SQLite serialises writers, so
the interleaving of any number of workers, handlers and CLI processes is the
interleaving of these actions.

**JobLifecycle** is the abstract specification of one row: admitted, claimed,
maybe waiting for approval, maybe confirming, ended, forgotten. **JobContract**
instantiates it for every row of `JobStore`, and `JobRun` for its own row.

**JobRun** is one job from claim to end, across both processes. The row is kept
as in `JobStore` (`CanAwait`, `CanResume`, `CanMark` and `Resolve` are the
guards of the store calls). `pc` is where `runClaimed` is, `run` is the
coordinator's `runState` together with what its `select` has seen, `jobCause`
and `budget` are the two contexts, `waiter` is the hub's entry, `proc`, `pipe`
and `cancelling` are the session, `toWorker` and `toEngine` the frames in
flight, and `py` the phase of the Python worker. Every case of the coordinator's
`select` is an action, as are the monitor, the session's watcher, the kill and
each blocking point of Python. `clicked` and `booked` are what happens in the
browser: Yodel's answer to the click is chosen freely and seen only by
`VerifyReceipt`.

**OtpChallenge** is the `working` phase of `JobRun` seen from close: Python
signs in, perhaps several times, and each challenge is prepared, armed,
triggered, awaited and ended. `challenges` is the coordinator's map, `polling`
and `async` its provider goroutines and their results, `armedAt` the inbox
position each challenge was armed at, `display` and `timers` the hub's shown
code and its `expireOTP` goroutines, `ignored` the ended challenges whose late
replies `ControlInbox` discards. A code is known by the position of its message
in `inbox`; messages arrive late, out of order or never, and a wait may return
any message past its cursor. The run's next exchange (approval or gate) is one
`question`, there to show that nothing of a challenge disturbs it.

**Accounts** is sign-in, set-up, sessions and account changes. `users`,
`sessions` and `attempts` are tables; a member of `reqs` is an HTTP request with
its local variables, and its `pc` is the next database call or piece of Argon2
work. Passwords are verified outside any transaction, so everything may change
between `Lookup`, `Verify`, `HashPassword` and the conditional write (`Current`
is its `WHERE` clause). `loginBusy` and `changeBusy` are `loginMu` and
`accountChangeBusy`; `Finish` is every return with its deferred unlocks. A hash
is an index into `hashes`, so that two hashes of one password differ as their
salts do. A row of `login_attempts` is its time and a number that tells it from
the others of its key. The `hash` of a session is a history variable: no such column exists,
it records which password the session was issued for.

**OtpProvider** is what a provider promises for one `Arm` and one wait: only a
message that was not in the inbox at the arm and that the filter accepts.
**BlueBubbles** implements it (`KeepsContract`). Every HTTP page is a step, so
messages arrive between the pages of one poll; rows are ordered by ROWID, which is
assumed of the server, and a message may be synchronised long after it was sent.

**SourcePairing** is one BlueBubbles source: edit requests with their reads and
their write apart, the pairing job, one `supervisedProvider` goroutine per
challenge, the operator's choice and its commit. `hub` is the waiter of a job.
A goroutine waits on the one it finds there, its own or another's (`waits`), and a
choice is received once (`taken`). `CancelJob` clears the waiter at once when the job
runs in this process; `EndRun` is the end of the run's context for any reason.

**JobStream** is the log of one job, the hub's lossy hints and the streams that
follow the log: admission, snapshot, batches, polling, session checks, breaks.
`Finish` has the three steps of `finish`: the status is committed, the row is read
again (`FinishTimeout`), the terminal event is written (`EventTimeout`), the hint is
published. `final` is the terminal event, `spent` the time the present step has taken.

**BookingWindow** is one booking against a clock: `ReleaseAt`, `PrepAt`,
`AuthDeadlineAt` and `PollEndsAt` are `WindowFor`; admission, the check at the
start (`Startable`, `Timing`), `JobExecutionDeadline`, and Python's sign-in
deadline, release wait and polling follow. A sign-in click begins after a look at
the deadline, and lands or is given up within `ActionTimeout`.

**LakeConnection** is one user's setup for one lake. `profile` and `row` are the
tables, a member of `req` is an HTTP request with what it has read, `signedIn` is the
number of the Yodel session in a profile's browser, which survives edits, and `seen`
is a history of what was saved while a request ran.

**Storage** has the directories with their markers and the cleaners, which act
on rows read earlier: a maintenance pass and the clean-up at the start of each run.
`browser` is apart from `run` and from the row: a browser may outlive both, and it
makes its directories again when it starts.
**Installation** has processes of several releases that open one directory: key
file, migration lock, one transaction per migration.

Components have MC modules that give their constants values for TLC; `MCOtp`,
`MCRunEnvironment` and `MCControlPlane` join several. Definitions
introduced by the word *Mutant* are deliberately wrong versions of a neighbour;
they are used by nothing, and show that the properties notice such mistakes.

## Runs

Six runs pass and six show a finding. Three passing runs join components that share
no state: a variable `part`, chosen in the initial state, says which component moves,
and the others rest in an initial state of theirs. Some components have several
*workloads*: the MC module adds a variable (`load`, `accountsLoad`, `lakeLoad`,
`pairingLoad`) that is chosen in the initial state and never changes, and a step is
one of the component's steps that stays within the bounds of the load.

| run | instance | what it shows |
|---|---|---|
| `job_store` | 3 jobs of a member; workloads: 2 profiles and 2 inboxes; 1 date over 6 half-days, perhaps with a dry run between two bookings; an account disabled, enabled and removed at any time | no two active jobs share a browser or an inbox; at most one confirmation per date in every time zone, through retention and deletion; only successes leave a detached guard; disabled accounts have no work that may go on; ended rows stay as they are; each row refines `JobLifecycle` |
| `job_run` | manual, automatic and check jobs; crashes, with and without failing database calls | the click is marked, approved and not revoked; outcomes are true (a retryable job never clicked, a success was verified); a received completion is kept; the row refines `JobLifecycle`; under fairness the job ends and the browser stops |
| `job_run_lease` | a manual job, no faults | **violated**: a cancelled job releases its lease while its browser is alive |
| `otp` | **challenges**: 2 of one run, cancellation and exit at any point | no frame out of sequence; the cursors keep the codes of two challenges apart; Python's waits are answered and a shown code disappears |
| | **pairing**: 2 servers, 2 chats, one pairing run; workloads: an edit request beside one challenge; two overlapping challenges | only the operator's choice in a live run is stored, and only while the source names the server it was found on; candidates of an ended job go away |
| | **provider**: 2 pages of 1 row, 4 rows, late rows | `BlueBubbles` implements `OtpProvider`; a matching message ends the wait |
| `source_pairing_edits` | 2 edits of one source at once | **violated**: a pairing of the old server is stored on the new one |
| `run_environment` | **window**: half-second ticks, 3 timings, clicks of up to a second | admission, start and Python agree at every edge of the window; no attempt before the release; no sign-in later than one click after its deadline; every run ends |
| | **storage**: 2 profiles, 2 jobs with their own clean-ups, 1 maintenance cleaner, 1 fault | a browser keeps its directories while its row is active; nothing owned or foreign is removed; again and again nothing is left over |
| | **stream**: 4 events of which 3 are kept, pages of 2, buffer 2, 2 breaks | a page has everything the log holds up to its cursor; told of the end it has every event but perhaps the terminal one, and is told |
| `booking_window_signin` | as the window above | **violated**: a click lands after the sign-in deadline |
| `booking_window_polling` | as the window above | **violated**: an attempt begins after the polling window |
| `storage_retry` | as storage above | **violated**: a removal that failed half-way is not taken up again |
| `control_plane` | **accounts**: 2 requests at once; workloads: set-up from an empty database; sign-ins against password changes and resets; a member disabled and removed; 3 ticks of expiry, idling and clean-up | every session belongs to an active account and its present password; one administrator, always active; limits on sessions and failed attempts; a temporary password is replaced only by someone who gave it; a dead session is never revived |
| | **installation**: 3 processes, 2 releases, 4 keys, 3 faults | one key for a database; each script once, in order, never half applied, and no start disturbed by another |
| `lake_connection` | 2 requests at once; workloads: 2 sign-ins chosen, edited, reset and booked with; 1 sign-in whose number changes twice; bookings beside sign-ins of one profile | a booking is for an account that was chosen during the request, or the only one while there was no choice; a connection is verified only by a run that was given a number saved while the page was read |
| `lake_connection_switch` | the first workload above | **violated**: a booking for an account that no saved setup resolved to |

**Bounds.** `MaxJobs` is 3: the guard properties relate two jobs of one slot,
and the third is the one retention deletes (`MaxHistory = 1`) between them. A
tick is half a day, the grain at which the date differs between time zones
(`ZoneOffsets` = UTC-12, UTC, UTC+12), and `MaxTime = 5` reaches the day after
the day after the date, when the guard is pruned. The limits are small so that
they are reached. `JobRun` needs no bound: every queue of frames is finite
because the protocol is. `MaxChallenges` is 2: the properties relate a
challenge to the one before it. In `Accounts` two requests suffice for a race;
hashes and sessions are bounded so that a password can be changed and reset
between two steps of a sign-in. Three of its workloads start from the state that
set-up and the creation of one member reach, so that the bounds are spent on
races and not on getting there. The pages, buffers and limits of the other
modules are 1 to 3, so that each is filled and exceeded within the run; `MaxRows`
and `MaxEvents` exceed them. `FinishTimeout` and `EventTimeout` are in the code's
proportion to `PollInterval`: five and three seconds, two polls of two. `MaxMishaps` of `Installation` lets a fault hit the
recovery from an earlier one, `MaxFaults` of `Storage` a pass that follows the fault.
`BookingWindow`'s `MaxTime` lies behind the last deadline of its timings.
`MaxEdits` lets a sign-in's number be changed and changed back. `ProviderWithin`,
`PairingWithin` and `StorageWithin` bound steps where the full product adds states and
no case: a fourth message beside three with codes, edits beside a second challenge,
a second browser.

**Deadlock** is not checked for `job_store`, where ids run out and the clock
stops, nor for `otp`, where a run or a wait is over, nor for `lake_connection`, where
the bounds on jobs and edits are reached. In `run_environment` a booking, and in
`control_plane` the requests, may rest for good, which a disjunct of `PartNext`
says; for the other parts of these runs, and for `job_run`, deadlock is checked.

**Fairness** (`JobRun!Fairness`) is weak fairness of goroutines that are ready
to run, of timers (execution budget, cancel grace), of the polling monitor, of
Python reading its inbox and leaving `main`, and of a supervisor that restarts
the control plane. None is assumed of the operator, of Yodel, or of the browser
while it works: a job whose browser hangs ends because the budget expires.
`OtpChallenge!OtpFairness` is of the same kind: the coordinator's `select`, its
goroutines with their timeouts, the hub's timers and Python's reads; nothing is
assumed of Yodel or of the delivery of messages. The other modules assume weak
fairness of the same kinds: HTTP requests return (their clients have timeouts),
timers fire, handlers, cleaners and workers run, and time passes. A joined run
assumes the same of the part that moves (`PartFairness`): it names the actions of each
component's own fairness once more, because TLC cannot take them from a definition
that depends on `part`.
`JobEnds` speaks of behaviours in which the database answers: if the final
transition fails, the row stays active until the next start (`finish` only logs).
Safety and liveness share a run wherever fairness is assumed; those runs use no
symmetry.

**Types.** Every module has a type invariant (`TypeOK`, or
`OtpTypeOK`, `LakeTypeOK` and so on where a module extends two components). It is
proved for `JobStore`. In the other modules it documents the variables; it holds on the
instances above, where no run lists it. The inductive invariants of the proof
modules contain types of their own, which are proved.

## The findings

Six runs show behaviour that a document or a comment of the repository excludes.

* `job_run_lease`, `LeaseOutlivesBrowser`: migration 0003 promises that "Active workers
  retain their leases until they observe cancellation and stop their browsers", and
  `Run` that it lasts "until both a terminal frame and process exit". In the
  trace a job is cancelled while its browser works; the next `approval.request`
  is refused by the database, so `handleFrame` fails, `Run` asks the process to
  stop and returns at once, and `finish` ends the job. For the cancel grace the
  next job of the same profile may be claimed while the old browser lives. The
  booking itself stays safe: `ClickIsMarked` and `RevocationPreventsClick` hold.
* `source_pairing_edits`, `PairingBelongsToInbox`: "A pairing fingerprint belongs to
  one Messages inbox. [...] changing servers must re-pair" (`store/sources.go`). An edit
  keeps the pairing of the source as it read it, and compares the server with a row it
  read apart from its write, so of two edits the later may store a pairing of the
  server that the earlier one replaced. What a *run* stores is right whatever edits do
  (`PersistedWhereFound`).
* `booking_window_signin`, `NoLateSignIn`: "Python does not trigger a new login/resend
  or submit an OTP after the deadline" (`actions/README.md`). The deadline is looked at
  before the click, and the click waits for its control. `SignInIsBounded` says by how
  much it may be late.
* `booking_window_polling`, `NoLatePolling`: the checkout grace "does not extend queue
  admission or polling" (`docs/public-exposure.md`). The remaining seconds are computed
  at the launch and counted from the start of polling, so a booking polls on by the
  time the browser took.
* `storage_retry`, `RemovalsAreRetried`: "periodic maintenance remains the retry path"
  (`engine/storage.go`). A removal that fails, or is cut short, after it deleted the
  ownership marker leaves a directory that every later pass skips as not ours.
  `LeftoversAreRemoved` is about what still has its marker. A directory whose profile
  is deleted before its marker was written stays in the same way.
* `lake_connection_switch`, `NoImplicitSwitch`: "A disabled choice never switches
  identities implicitly" (`model/settings.go`, and `docs/lakes.md`). A booking reads the
  settings and then the sign-ins; with changes of both in between, it is queued for an
  account that no saved setup allowed. `BookedAsSaved` is what does hold.

## Where a property says less than one might expect

* `PagesMissNothing`: a page that is told of the end by the poll, four seconds after it
  first saw the terminal status, may lack the terminal event, which `finish` writes after
  a re-read (up to five seconds) and with a limit of its own (three). A page told by the
  hint has it. If the re-read fails there is no terminal event.
* `RunsKeepTheirDirectories` is about a browser whose row is active. One that outlives
  its row, for the cancel grace or after a crash, may lose its diagnostics to a
  clean-up and, once its member is deleted, its profile.
* `VerifiedWithSavedNumber` says which number the verifying run was *given*. A browser
  that is still signed in stays so (`ensure_authenticated`), also when an edit has
  changed the number since; the session is then of a number that an earlier run of the
  same sign-in was given.
* A reset that read a setup without a choice deletes the row, and with it a choice
  saved after the read, which `docs/lakes.md` says is preserved.

## Proofs

The theorems of a component are in a module of their own; `DataDirProofs`,
`LakeBookingProofs` and `OtpSourceProofs` hold those of two related components. They hold
for every value of the constants that satisfies the named assumptions of the
component's module, and not only for the instances above. Except where it says
otherwise, a property is proved from one inductive invariant `Inv` of the module,
whose conjuncts each say what one kind of state stands for; `Inv` was checked by
TLC on the instance of the run before it was proved, one step per action.

**JobStoreProofs** (any accounts, profiles, sources, dates and limits; from
`BoundsAssumption` and `OwnerAssumption`):

* `TypeCorrect`: `Spec => []TypeOK`, one step per store call. `SettleType` and
  `StatusUpdateType` carry the triggers and the multi-row updates.
* `BookingGuard`: `Spec => [](OneConfirmationPerDate /\ ConfirmedDatesStayGuarded
  /\ ReservationsMatchJobs)`. One confirmation per date is not inductive: it
  holds because a job that marks its confirmation holds the slot, because a
  slot is free only if no confirmation of it is on record or its date is over,
  and because admission refuses a date that is over. `GuardInv` states these
  together. The guard is kept in the form the code prunes by
  (`PastEverywhere`), and `GuardOutlivesDate` shows that the one-day slack of
  `date(now, '-1 day')` covers every time zone. `SettleGuard` is the
  argument for any status update with its triggers, `EnqueueGuard`, `MarkGuard`
  and `PruneGuard` for admission, the mark and retention.
* `LeasesAreExclusive`: `Spec => []LeaseExclusive`, inductive with the types:
  only the claim makes a job active, and it checks both leases.
* `DisabledAccountsAreRevoked`: `Spec => []DisabledWorkIsRevoked`, inductive with
  the types: an account is disabled and its work cancelled in one transaction.
* `RowsFollowLifecycle`: `Spec => EveryJobFollowsLifecycle`, the refinement of
  `JobLifecycle` by every row. A store call and its triggers may end a row and
  delete it in one step, which the abstract job can match only if the row was not
  marked: `MarksAreRespected` (`Spec => []MarkedRows`) keeps a marked row out of the
  statuses that retention deletes. `TerminalStatusesAreFinal` and
  `DetachedGuardsAreSuccesses` are the action properties `TerminalIsFinal` and
  `OnlySuccessesDetach`, from the same facts.

**JobRunProofs** (any set of modes and faults; from `FaultsAssumption`): `ClicksAreMarked`,
`OutcomesAreTrue`, `CompletionsAreKept`, `RevocationsPreventClicks` and the
refinement `RowFollowsLifecycle`. The click and the mark are in different
processes, so the argument is about frames in flight: `Marks` says that an answer
that opens Python's gate, on its way or already received, was sent after the mark
was stored, `Decisions` that an approval in flight is the recorded decision, `Receipts` that a completion was verified, `Kept` what the coordinator
and `finish` still have to do with it, and `Places` which phases of the engine,
the coordinator and Python can meet. The approval is asked for once (`Asked`).

**AccountsProofs** (any number of requests, accounts, sessions, names and
passwords; from `AccountsAssumption`): `SessionsBelongToThePassword`, `TheAdministratorStays`,
`NoSessionRevives` and `TemporaryPasswordsStand` from `Inv`, in which `Forms` says
what a request still knows between two of its database calls: the hash it checked
was of the password it was given, and the target of its change is no
administrator, because ids are not reused and roles do not change. `LimitsAlwaysHold`
(`Spec => []LimitsHold`) needs a second invariant, `Limited`: the two locks admit
one sign-in and one change at a time (`Serial`), and a request that was let past
the limit still finds room when it records its failure (`Rates`), because time
only removes recent rows and nobody else records under the same key.

**DataDirProofs** has `Installation` (any processes, releases, keys and faults; from
`InstallationAssumption`): `RecordsHaveOneKey` and `MigrationsRunInOrder`, from
what a process past `createKey` holds (`KeyHeld`), the lock (`LockHeld`) and what
the loop of `migrateUnlocked` has seen (`Progress`). And `Storage` (any profiles,
jobs, cleaners and faults; from `StorageAssumption`): `RunsKeepDirectories`
and the action property `OwnedAndForeignStay`. A cleaner acts on rows it read
earlier; `Removals` says that what it has decided to remove belongs to a job that
has ended or a profile that is deleted, and neither comes back. `Browsers` says what a
browser may rely on as long as its row is active, `Owners` that an active row has its profile.

**LakeBookingProofs** has `BookingWindow` (every timing, release and budget; from
`WindowAssumption`): `TimingsAreAccepted`, `WindowsAreKept` and the action property
`SignInsAreBounded`. `Admitted`, `InTime` and `Told` say what admission, claim and
start left in the row, the deadline and `run.start`, and `ClicksInTime` that a click
under way began before the sign-in deadline; arithmetic does the rest.
And `LakeConnection` (any sign-ins, requests and runs; from `LakeAssumption`, which
says that `Nil` is neither a row nor a value of one):

* `ConnectionsAreVerified`: `LakeSpec => []VerifiedWithSavedNumber`. A page reads the
  sign-ins and the jobs in two statements, between which a run may end and a sign-in
  may be edited. `Signed` relates a run to its sign-in: a pending run is younger than
  the last edit, because edits wait for it, and a run that is younger was given the
  saved number. `Witnessed` carries that over to what a page has read:
  a run younger than the edit it knows of was given a number saved while the page was
  read. `Sessions` says that a browser is signed in only with numbers its runs were given.
* `BookingsAreAsSaved`: `LakeSpec => BookedAsSaved`. `Allowed` is the invariant: the
  choice a booking has read was saved since it started, and what it resolved it to was
  that choice or the only enabled sign-in. Counting the enabled sign-ins needs that
  finitely many are saved, which is part of it.

**OtpSourceProofs** has `SourcePairing` (any editors, jobs, challenges, servers and
chats): `ChoicesAreKept` (`Spec => OnlyTheChoiceIsKept`) and `PersistedPairingsBelong`
(`Spec => PersistedWhereFound`: a run stores only a pairing found on the server that the
source names) for any number of edits. `Waiters` says that a goroutine waits at a waiter
of its own job and that a choice names a chat of the server its job's provider
was built for, `Served` that the source names that server as long as the job runs.
And `BlueBubbles` (every page length, window, freshness and lag; from
`BlueBubblesAssumption`): `ProviderKeepsContract`, that is `BBSpec => KeepsContract`,
the refinement of `OtpProvider`. The cursor is the last row of the *paired* chat, so rows that
were in the inbox may lie above it; `Fetched` says that those are of other chats, hence
that a page holds only rows that came after the arm. `NewestLeads` shows that the
order of `Select` has a first element, so that the answer is one of the candidates,
and `NewestStays` that later rows do not change it. `StepsOfContract` has one step per
action.

**JobStreamProofs** (any pages, events, retention, page size and time limits; from
`JobStreamAssumption`): `NoPageMissesAnEvent`. A query returns the first rows past
the cursor, and a broken connection a part of them: `ListedIsPrefix`,
`PartIsPrefix` and `ReceivedPrefix` show that no row is jumped. `FirstOnes` is the
`LIMIT`: fewer rows than asked for are all there are. `Ended` says that what a
stream takes for the end is a terminal status, after which only the terminal event is
written (`Once`), and `Hints` that a completion hint follows that event.

**OtpChallengeProofs** (any number of challenges; from `ChallengesAssumption`):
`FramesComeInSequence` (`NoSequenceError`) and `CodesAreKeptApart`
(`CursorSeparatesCodes`). `Inv` has two halves. `Flight` says what each frame,
result and goroutine stands for, whatever Python does: a question and its answer
are not in flight together (`Alone`); a challenge still to be prepared has left no
trace (`Prepared`); one whose `otp.ready` is on its way and that Python has not
given up is armed behind every code used (`Armed`); the last word on a challenge
follows its trigger, and Python ignores the challenge from then on (`Ended`,
`Triggers`); every code lies behind the cursor it was found with (`Cursors`).
`Phases` says which of these the phase of Python allows, so that the frame a blocked
`receive` finds is the expected one or a cancellation (`ReceivedIsExpected`). The
step that ends a challenge emits its last frame and ignores its replies at once;
without that `Inv` is not inductive. Codes are submitted at increasing positions
(`Increasing`), which gives that none is used twice.

**Only model-checked.** Liveness (`JobEnds`, `BrowserStops`, `RunsEnd`,
`PagesLearnTheEnd`, `ChallengesAreAnswered`, `ShownCodeDisappears`,
`CandidatesAreRemoved`, `LeftoversAreRemoved`, `CodeIsFound`) is outside the
prover's reach. Every other property of a passing run is stated by a theorem.

## Abstractions

* A row's message, exit code, worker name and timestamps are left out, and so
  is the provider of a source. Saved requests and sources do not change here.
* The retention trigger deletes the oldest rows; `Trim` leaves open which.
  `SystemPruneTerminalJobs` runs its two statements as one action: between
  them no other statement sees a difference, because the limits already hold.
* `jobs_one_pending_booking_run_idx` is not modelled: a request is a fresh
  snapshot for each job, so it never fires. Dedup keys other than pairing keys
  are no longer created, so every prunable status is prunable.
* `JobRun` omits frames that only feed the event log. Signing in, the OTP
  exchange, release waiting and polling are the `working` phase, which may
  fail, be cancelled or go on at any time. Frames the Go side refuses but this
  worker never sends (a second confirmation, an unknown type) are left out.
* `OtpChallenge` leaves out the content of messages: which ones match, paging and
  deduplication are the providers'. `check_cancelled` moves frames to a deferred
  queue that is read first; one queue stands for both, since order is kept. A stale
  frame that `_next` discards leaves the queue with the frame it returns (`Take`).
  The exit of the process and the end of its frames are one step (`HandleDone`);
  the clearing of the shown code at the exit is covered by its timer.
* `Accounts` leaves out forms, CSRF tokens and cookies, except that `cookies` are
  the sessions whose token reached a browser. All clients share one address, the
  worst case for the limits. Jobs cancelled by disabling are in `JobStore`.
* In `JobStream` time stops at a limit until the step it limits is taken.
  `BlueBubbles` leaves out health checks and code extraction.
* `Installation` has the default key path only; a migration's statements are one
  step of its transaction.
* `Storage`: a pass fails as a whole (`MaxFaults`), before or within a removal, which
  takes the marker first in the worst case; a row whose final transition fails stays active, as in `JobRun`; profile
  size is a cause that ends a run in `JobRun`; a marker that names another
  profile cannot arise, because directories are named by identifiers that are
  never reused. A torn marker is a state of the model.
* `BookingWindow`: only the command `book`; the claim and the start of
  `executeWithBudgets` are one step; a context ends exactly at its deadline (the
  process grace is in `JobRun`); the two deadline checks of
  `_fill_and_submit_otp` are the later one; pressing Enter is a click that lands at
  once; the attempts of a sign-in are not counted; minutes are seconds.
* `LakeConnection`: a sign-in with its OTP source valid and the default source
  set; any validation may refuse (`Refuse`). The time stamp of an edit is taken with
  its write: the wait for the database in between (at most 5 s) is shorter than a
  browser run. `custom` stands for every lake preference. No page deletes a
  sign-in, so none is deleted here.
* Python may die at any point, and the kill may drop frames not yet read.

## Not modelled

Page interaction, HTML rendering, form decoding, configuration, encryption,
egress and origin policies and log redaction are pure functions or I/O without
a protocol. Creating OTP sources, account settings and the network settings are
single validated writes. The browser front end only calls the HTTP API.

Two parts with a protocol are left out. Twilio's polling keeps the contract of
`OtpProvider` with a different cursor (newest first, dates to the second, a
bounded deduper of identifiers). The process lock lets one `serve` or one-shot
command own the data directory; `JobRun` takes from it that one engine runs, and
that a restart recovers before it claims.

## Plan

Models: several workers composed with `JobStore`; Twilio's polling against `OtpProvider`.
