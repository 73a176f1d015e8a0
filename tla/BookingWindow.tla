--------------------------- MODULE BookingWindow ----------------------------
(***************************************************************************)
(* One booking in time: its release window (scheduler.go), what admission  *)
(* and start make of it (booking_queue.go, lake_booking.go), the execution *)
(* deadline (execution_budget.go), and the part of the Python action that  *)
(* looks at a clock (action.py): signing in before a deadline, waiting for *)
(* the release, polling.  The clock has Second ticks a second, so that a   *)
(* moment may fall between two seconds.                                    *)
(***************************************************************************)
EXTENDS Integers, FiniteSetsExt

CONSTANTS
  Bookings,      \* validated timings: [prep, auth, poll], in seconds
  Second,        \* ticks in a second
  Release, DayEnd,                 \* the release and the midnight that ends the target date
  Lifetime,      \* MaxImmediateBookingLifetime
  Grace,         \* checkoutExecutionGrace
  InputBudget,   \* executionInputBudget
  ActionTimeout, \* default_timeout_ms: how long a click may wait for its control
  MaxTime,       \* bound; the other times are seconds
  None

\* preparationTiming.validationProblems
Valid(b) == b.auth \in 0 .. b.prep /\ b.poll > 0

ASSUME WindowAssumption ==
  /\ {Second, Lifetime, Grace, InputBudget, ActionTimeout, MaxTime} \subseteq Nat \ {0}
  /\ {Release, DayEnd} \subseteq Nat /\ Release < DayEnd
  /\ None \notin Nat
  /\ \A b \in Bookings : {b.prep, b.auth, b.poll} \subseteq Nat /\ Valid(b) /\ b.prep <= Release

VARIABLES
  now, booking,
  job,          \* [status, immediate, due, expires]
  pc,           \* "none", "inputs", "prepare", then Python: "auth", "arm", "clicking",
                \* "clicked", "submitting", "submitted", "wait", "poll", "attempt", "checkout"
  deadline,     \* of the run's context
  config,       \* run.start: [release, auth, poll]
  session,      \* the browser is signed in at Yodel
  pollEnd,      \* poll_for_booking's deadline
  clickBy       \* when Playwright gives up the click under way

vars == <<now, booking, job, pc, deadline, config, session, pollEnd, clickBy>>

-----------------------------------------------------------------------------
\* scheduler.WindowFor
ReleaseAt      == Second * Release
PrepAt         == Second * (Release - booking.prep)
AuthDeadlineAt == Second * (Release - booking.auth)
PollEndsAt     == Second * (Release + booking.poll)

CeilSeconds(t) == (t + Second - 1) \div Second

NoJob == [status |-> "none", immediate |-> FALSE, due |-> 0, expires |-> 0]

Init ==
  /\ now \in 0 .. MaxTime /\ booking \in Bookings /\ job = NoJob /\ pc = "none" /\ deadline = 0
  /\ config = [release |-> None, auth |-> 0, poll |-> 0] /\ session \in BOOLEAN
  /\ pollEnd = 0 /\ clickBy = 0

-----------------------------------------------------------------------------
Queue(immediate, due, expires) ==
  job' = [status |-> "queued", immediate |-> immediate, due |-> due, expires |-> expires]

\* bookingEnqueueParams
BookingEnqueueParams ==
  /\ now < PollEndsAt /\ Queue(FALSE, Max({now, PrepAt}), PollEndsAt)

\* validateImmediateBookingDate
ReleasedAndNotPast == ReleaseAt <= now /\ now < Second * DayEnd

\* immediateBookingEnqueueParams
ImmediateBookingEnqueueParams == ReleasedAndNotPast /\ Queue(TRUE, now, now + Second * Lifetime)

\* QueueLakeBooking
QueueLakeBooking ==
  /\ job.status = "none"
  /\ IF now < ReleaseAt THEN BookingEnqueueParams ELSE ImmediateBookingEnqueueParams
  /\ UNCHANGED <<now, booking, pc, deadline, config, session, pollEnd, clickBy>>

\* SystemQueueBooking, the CLI's replay of a request, also after the release.
SystemQueueBooking ==
  /\ job.status = "none" /\ BookingEnqueueParams
  /\ UNCHANGED <<now, booking, pc, deadline, config, session, pollEnd, clickBy>>

\* SystemExpireStaleJobs, or a cancellation.
EndQueued ==
  /\ job.status = "queued" /\ job' = [job EXCEPT !.status = "ended"]
  /\ UNCHANGED <<now, booking, pc, deadline, config, session, pollEnd, clickBy>>

\* The claim, and the budget for loading inputs.
Claim ==
  /\ job.status = "queued" /\ job.due <= now /\ now < job.expires
  /\ job' = [job EXCEPT !.status = "running"] /\ pc' = "inputs"
  /\ deadline' = IF job.immediate THEN Min({now + Second * InputBudget, job.expires})
                 ELSE now + Second * InputBudget
  /\ UNCHANGED <<now, booking, config, session, pollEnd, clickBy>>

-----------------------------------------------------------------------------
\* The end of a run, whatever the cause.
End == job' = [job EXCEPT !.status = "ended"] /\ pc' = "none"

Remaining == CeilSeconds(job.expires - now)

\* Mutant: the seconds that remain are not looked at.
StartableUntilDeadline ==
  IF job.immediate THEN ReleasedAndNotPast /\ job.due <= now
  ELSE PrepAt <= now /\ now < PollEndsAt

\* bookingStartTiming: its checks ...
Startable ==
  /\ IF job.immediate THEN ReleasedAndNotPast /\ job.due <= now
     ELSE PrepAt <= now /\ now < PollEndsAt
  /\ Remaining >= 1

\* Mutant: Python is not told the release.
TimingWithoutRelease ==
  [release |-> None, auth |-> IF job.immediate THEN job.expires ELSE AuthDeadlineAt,
   poll |-> Min({Remaining, booking.poll})]

\* ... and the times it puts into run.start.
Timing ==
  [release |-> IF ~job.immediate /\ now < ReleaseAt THEN ReleaseAt ELSE None,
   auth    |-> IF job.immediate THEN job.expires ELSE AuthDeadlineAt,
   poll    |-> Min({Remaining, booking.poll})]

\* jobExecutionDeadline
JobExecutionDeadline == IF job.immediate THEN job.expires ELSE PollEndsAt + Second * Grace

\* executeWithBudgets: inputs are loaded and checked ...
LoadInputs ==
  /\ pc = "inputs"
  /\ IF Startable THEN pc' = "prepare" /\ deadline' = JobExecutionDeadline /\ UNCHANGED job
                  ELSE End /\ UNCHANGED deadline
  /\ UNCHANGED <<now, booking, config, session, pollEnd, clickBy>>

\* ... the provider and the directories prepared, the timing checked again, and
\* Python started.
Launch ==
  /\ pc = "prepare"
  /\ IF Startable THEN pc' = "auth" /\ config' = Timing /\ UNCHANGED job
                  ELSE End /\ UNCHANGED config
  /\ UNCHANGED <<now, booking, deadline, session, pollEnd, clickBy>>

-----------------------------------------------------------------------------
\* Mutant: the deadline itself is still in time.
AuthDeadlineLater == now > config.auth

\* _auth_deadline_passed
AuthDeadlinePassed == now >= config.auth

\* ensure_authenticated: an existing session counts whatever the time.
EnsureAuthenticated ==
  /\ pc = "auth"
  /\ IF session THEN pc' = "wait" /\ UNCHANGED job
     ELSE IF AuthDeadlinePassed THEN End ELSE pc' = "arm" /\ UNCHANGED job
  /\ UNCHANGED <<now, booking, deadline, config, session, pollEnd, clickBy>>

\* A click starts: click() waits until it can press its control, or gives up.
StartClick(to) ==
  IF AuthDeadlinePassed THEN End /\ UNCHANGED clickBy
  ELSE pc' = to /\ clickBy' = now + Second * ActionTimeout /\ UNCHANGED job

\* prepare_otp has been answered: _require_auth_window, then the click on Next or
\* on Resend.
ClickForOtp ==
  /\ pc = "arm" /\ StartClick("clicking")
  /\ UNCHANGED <<now, booking, deadline, config, session, pollEnd>>

\* _wait_for_auth_or_otp, _fill_and_submit_otp: the code came and was filled in;
\* the time is looked at once more before the click that submits it.
SubmitOtp ==
  /\ pc = "clicked" /\ StartClick("submitting")
  /\ UNCHANGED <<now, booking, deadline, config, session, pollEnd>>

\* The control is pressed.
ClickLands ==
  /\ \/ pc = "clicking" /\ pc' = "clicked"
     \/ pc = "submitting" /\ pc' = "submitted"
  /\ UNCHANGED <<now, booking, job, deadline, config, session, pollEnd, clickBy>>

\* A control that cannot be pressed is a PlaywrightError, which ends the run.
ClickFails ==
  /\ pc \in {"clicking", "submitting"} /\ now >= clickBy /\ End
  /\ UNCHANGED <<now, booking, deadline, config, session, pollEnd, clickBy>>

\* Yodel answers a click, without a code, or a submitted code, at any later time.
YodelSignsIn ==
  /\ pc \in {"clicked", "submitted"} /\ session' = TRUE /\ pc' = "auth"
  /\ UNCHANGED <<now, booking, job, deadline, config, pollEnd, clickBy>>

\* The code was not accepted; ensure_authenticated looks again.
LookAgain ==
  /\ pc = "submitted" /\ pc' = "auth"
  /\ UNCHANGED <<now, booking, job, deadline, config, session, pollEnd, clickBy>>

\* wait_for_release_if_needed: the release comes with a session, or without
\* one, or the session is found gone before it (keep_session_warm).
LoseSession ==
  /\ pc = "wait" /\ config.release # None /\ ~session
  /\ IF AuthDeadlinePassed THEN End ELSE pc' = "auth" /\ UNCHANGED job
  /\ UNCHANGED <<now, booking, deadline, config, session, pollEnd, clickBy>>

\* poll_for_booking
StartPolling ==
  /\ pc = "wait" /\ (config.release # None => now >= config.release /\ session)
  /\ pc' = "poll" /\ pollEnd' = now + Second * config.poll
  /\ UNCHANGED <<now, booking, job, deadline, config, session, clickBy>>

Attempt ==
  /\ pc = "poll"
  /\ IF now < pollEnd THEN pc' = "attempt" /\ UNCHANGED job ELSE End
  /\ UNCHANGED <<now, booking, deadline, config, session, pollEnd, clickBy>>

\* try_booking_once finds no pass, or goes on to approval and confirmation.
AttemptEnds ==
  /\ pc = "attempt" /\ pc' \in {"poll", "checkout"}
  /\ UNCHANGED <<now, booking, job, deadline, config, session, pollEnd, clickBy>>

\* The run completes, fails, is cancelled or interrupted.
Stop ==
  /\ pc # "none" /\ End
  /\ UNCHANGED <<now, booking, deadline, config, session, pollEnd, clickBy>>

\* Yodel ends the session.
SessionExpires ==
  /\ session /\ session' = FALSE
  /\ UNCHANGED <<now, booking, job, pc, deadline, config, pollEnd, clickBy>>

\* Mutant: only loading inputs has a deadline.
TimeoutOfInputs ==
  /\ pc = "inputs" /\ now >= deadline /\ End
  /\ UNCHANGED <<now, booking, deadline, config, session, pollEnd, clickBy>>

\* The context ends the run at its deadline.
Timeout ==
  /\ pc # "none" /\ now >= deadline /\ End
  /\ UNCHANGED <<now, booking, deadline, config, session, pollEnd, clickBy>>

\* Time passes, but not beyond the deadline of a run or of a click.
Tick ==
  /\ now < MaxTime /\ (pc # "none" => now < deadline) /\ now' = now + 1
  /\ pc \in {"clicking", "submitting"} => now < clickBy
  /\ UNCHANGED <<booking, job, pc, deadline, config, session, pollEnd, clickBy>>

-----------------------------------------------------------------------------
Next ==
  \/ QueueLakeBooking \/ SystemQueueBooking \/ EndQueued \/ Claim \/ LoadInputs \/ Launch
  \/ EnsureAuthenticated \/ ClickForOtp \/ SubmitOtp \/ ClickLands \/ ClickFails
  \/ YodelSignsIn \/ LookAgain \/ LoseSession \/ StartPolling \/ Attempt \/ AttemptEnds
  \/ Stop \/ SessionExpires \/ Timeout \/ Tick

Spec == Init /\ [][Next]_vars

\* Clocks run and contexts end at their deadlines.
WindowFairness == WF_vars(Tick) /\ WF_vars(Timeout) /\ WF_vars(ClickFails)

FairSpec == Spec /\ WindowFairness

-----------------------------------------------------------------------------
Python == {"auth", "arm", "clicking", "clicked", "submitting", "submitted", "wait", "poll",
           "attempt", "checkout"}

TypeOK ==
  /\ now \in 0 .. MaxTime /\ booking \in Bookings
  /\ job.status \in {"none", "queued", "running", "ended"} /\ job.immediate \in BOOLEAN
  /\ {job.due, job.expires, deadline, pollEnd, clickBy} \subseteq Nat
  /\ pc \in {"none", "inputs", "prepare"} \cup Python /\ (job.status = "running") = (pc # "none")
  /\ config.release \in {None, ReleaseAt} /\ {config.auth, config.poll} \subseteq Nat
  /\ session \in BOOLEAN

\* config.py refuses a poll deadline below one second and an authentication
\* deadline after the release: the timing of bookingStartTiming is accepted
\* at whatever moment Python is started.
TimingIsAccepted ==
  pc \in Python => /\ config.poll \in 1 .. booking.poll
                   /\ config.release # None => config.auth <= config.release

\* bookingEnqueueParams, wait_for_release_if_needed and jobExecutionDeadline: a
\* claimed job is never refused as early, no attempt is made before the release,
\* and the immediate path ends its lifetime after it was queued (fifteen minutes in
\* docs/live-testing.md), whenever it was claimed.
KeepsToItsWindow ==
  /\ pc # "none" => (IF job.immediate THEN ReleaseAt ELSE PrepAt) <= now
  /\ pc \in {"poll", "attempt", "checkout"} => ReleaseAt <= now
  /\ pc # "none" /\ job.immediate => now <= job.due + Second * Lifetime

SignsIn == pc' \in {"clicked", "submitted"} /\ pc' # pc

\* _require_auth_window and _fill_and_submit_otp: however long arming and the delivery
\* of the code took, no login, resend or code goes to Yodel later than one click may
\* take after the deadline.
SignInIsBounded == [][SignsIn => now < config.auth + Second * ActionTimeout]_vars

\* actions/README.md:95: "Python does not trigger a new login/resend or submit an OTP
\* after the deadline."
NoLateSignIn == [][SignsIn => now <= config.auth]_vars

\* docs/public-exposure.md:250, on scheduled bookings and the time for checkout: "That
\* extra grace does not extend queue admission or polling."  No attempt begins after
\* the polling window.
NoLatePolling == [][pc' = "attempt" /\ pc' # pc /\ ~job.immediate => now <= PollEndsAt]_vars

\* Every run ends, a browser or a page that hangs included.
RunsEnd == job.status = "running" ~> job.status = "ended"
=============================================================================
