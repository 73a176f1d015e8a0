-------------------------- MODULE LakeBookingProofs -------------------------
(***************************************************************************)
(* Proofs about the setup and the timing of a lake's bookings.             *)
(* BookingWindow, for every timing, release and length of the budgets:     *)
(* what Python may do after the release, and how long an immediate booking *)
(* may go on, follow from what admission, claim and start have left in the *)
(* job, the deadline and run.start.  LakeConnection, for any number of     *)
(* sign-ins, requests and runs: that a connection is verified by a run     *)
(* that was given a saved number rests on which runs an edit lets go on,   *)
(* and on what a view has seen since it read the sign-ins.                 *)
(***************************************************************************)
EXTENDS BookingWindow, LakeConnection, FiniteSetTheorems, WellFoundedInduction, TLAPS

-----------------------------------------------------------------------------
(* BookingWindow. *)

Jobs == [status : {"none", "queued", "running", "ended"}, immediate : BOOLEAN, due : Nat, expires : Nat]
Underway == {"inputs", "prepare"} \cup Python

WindowTypes ==
  /\ now \in Nat /\ booking \in Bookings /\ job \in Jobs /\ deadline \in Nat /\ clickBy \in Nat
  /\ pc \in {"none"} \cup Underway /\ (job.status = "running" <=> pc # "none")

\* What bookingEnqueueParams or immediateBookingEnqueueParams wrote.
Admitted ==
  job.status \in {"queued", "running"} =>
    IF job.immediate THEN ReleaseAt <= job.due /\ job.expires = job.due + Second * Lifetime
                     ELSE PrepAt <= job.due

\* The claim comes when the job is due, and an immediate booking never runs beyond
\* a deadline within its lifetime.
InTime ==
  pc # "none" => /\ job.due <= now
                 /\ job.immediate => now <= deadline /\ deadline <= job.expires

\* What run.start has told Python: the release, unless it has come.
Told ==
  pc \in Python =>
    /\ config.poll \in 1 .. booking.poll /\ config.auth \in Nat
    /\ \/ config.release = ReleaseAt /\ config.auth <= ReleaseAt
       \/ config.release = None /\ ReleaseAt <= now

\* A click begins before the deadline of the sign-in.
ClicksInTime ==
  pc \in {"clicking", "submitting"} => now <= clickBy /\ clickBy < config.auth + Second * ActionTimeout

\* Polling begins after the release.
Released == pc \in {"poll", "attempt", "checkout"} => ReleaseAt <= now

WindowInv == WindowTypes /\ Admitted /\ InTime /\ Told /\ ClicksInTime /\ Released

\* The larger and the smaller of two numbers.
LEMMA MaxMin ==
  ASSUME NEW a \in Int, NEW b \in Int
  PROVE  /\ Max({a, b}) \in {a, b} /\ a <= Max({a, b}) /\ b <= Max({a, b})
         /\ Min({a, b}) \in {a, b} /\ Min({a, b}) <= a /\ Min({a, b}) <= b
<1>1. \E x \in {a, b} : \A y \in {a, b} : x >= y
  <2>1. CASE a >= b
    BY <2>1
  <2>2. CASE b >= a
    BY <2>2
  <2> QED
    BY <2>1, <2>2
<1>2. \E x \in {a, b} : \A y \in {a, b} : x <= y
  <2>1. CASE a >= b
    BY <2>1
  <2>2. CASE b >= a
    BY <2>2
  <2> QED
    BY <2>1, <2>2
<1>3. Max({a, b}) \in {a, b} /\ \A y \in {a, b} : Max({a, b}) >= y
  BY Zenon, <1>1 DEF Max
<1>4. Min({a, b}) \in {a, b} /\ \A y \in {a, b} : Min({a, b}) <= y
  BY Zenon, <1>2 DEF Min
<1> QED
  BY Zenon, <1>3, <1>4

\* The moments of WindowFor are times, and the last ones before the release are not
\* after it.
LEMMA Moments ==
  ASSUME booking \in Bookings
  PROVE  /\ ReleaseAt \in Nat /\ PrepAt \in Nat /\ AuthDeadlineAt \in Nat /\ PollEndsAt \in Nat
         /\ PrepAt <= ReleaseAt /\ AuthDeadlineAt <= ReleaseAt
         /\ booking.poll \in Nat /\ 1 <= booking.poll
         /\ Second * Lifetime \in Nat /\ Second * InputBudget \in Nat /\ Second * Grace \in Nat
         /\ Second * ActionTimeout \in Nat
<1>1. /\ Second \in Nat /\ Second > 0 /\ Lifetime \in Nat /\ InputBudget \in Nat /\ Grace \in Nat
      /\ ActionTimeout \in Nat /\ Release \in Nat
  BY WindowAssumption DEF WindowAssumption
<1>2. /\ booking.prep \in Nat /\ booking.auth \in Nat /\ booking.poll \in Nat
      /\ booking.prep <= Release /\ booking.auth <= booking.prep /\ booking.poll > 0
  BY WindowAssumption DEF WindowAssumption, Valid
<1>3. \A x \in Nat : Second * x \in Nat
  BY <1>1
<1>4. \A x, y \in Nat : x <= y => Second * x <= Second * y
  <2> TAKE x, y \in Nat
  <2> HAVE x <= y
  <2>1. y - x \in Nat /\ Second * (y - x) \in Nat
    BY <1>3
  <2>2. Second * y = Second * x + Second * (y - x)
    BY <1>1
  <2> QED
    BY <1>3, <2>1, <2>2
<1>5. /\ Release - booking.prep \in Nat /\ Release - booking.auth \in Nat /\ Release + booking.poll \in Nat
      /\ Release - booking.prep <= Release /\ Release - booking.auth <= Release
  BY <1>1, <1>2
<1> QED
  BY <1>1, <1>2, <1>3, <1>4, <1>5 DEF ReleaseAt, PrepAt, AuthDeadlineAt, PollEndsAt

\* What bookingStartTiming puts into run.start when its checks pass.
LEMMA TimingTold ==
  ASSUME WindowTypes, Startable, Admitted, InTime, pc # "none"
  PROVE  /\ Timing.poll \in 1 .. booking.poll /\ Timing.auth \in Nat
         /\ \/ Timing.release = ReleaseAt /\ Timing.auth <= ReleaseAt
            \/ Timing.release = None /\ ReleaseAt <= now
<1>1. /\ job.immediate \in BOOLEAN /\ job.expires \in Nat /\ job.due \in Nat /\ now \in Nat
      /\ Second \in Nat /\ Second > 0
  BY WindowAssumption DEF WindowAssumption, WindowTypes, Jobs
<1>2. Remaining \in Int /\ Remaining >= 1
  <2>1. \A x \in Int : x \div Second \in Int
    BY <1>1
  <2> QED
    BY <1>1, <2>1 DEF Startable, Remaining, CeilSeconds
<1>3. Min({Remaining, booking.poll}) \in 1 .. booking.poll
  <2> DEFINE m == Min({Remaining, booking.poll})
  <2>1. booking.poll \in Nat /\ 1 <= booking.poll
    BY Zenon, Moments DEF WindowTypes
  <2>0. Remaining \in Int /\ booking.poll \in Int
    BY <1>2, <2>1
  <2>2. m \in {Remaining, booking.poll} /\ m <= Remaining /\ m <= booking.poll
    BY Zenon, <2>0, MaxMin
  <2> HIDE DEF m
  <2>3. m \in 1 .. booking.poll
    BY <1>2, <2>1, <2>2
  <2> QED
    BY Zenon, <2>3 DEF m
<1>4. job.immediate => ReleaseAt <= now
  BY Zenon, <1>1, Moments DEF Startable, ReleasedAndNotPast, WindowTypes
<1> QED
  BY <1>1, <1>3, <1>4, Moments DEF Timing, WindowTypes

\* Every step keeps the invariant.
LEMMA WindowInductive ==
  ASSUME WindowInv, [Next]_vars
  PROVE  WindowInv'
<1>1. /\ now \in Nat /\ booking \in Bookings /\ job \in Jobs /\ deadline \in Nat /\ clickBy \in Nat
      /\ pc \in {"none"} \cup Underway /\ (job.status = "running" <=> pc # "none")
      /\ job.due \in Nat /\ job.expires \in Nat /\ job.immediate \in BOOLEAN
  BY Zenon DEF WindowInv, WindowTypes, Jobs
<1>2. /\ ReleaseAt \in Nat /\ PrepAt \in Nat /\ PollEndsAt \in Nat
      /\ Second * Lifetime \in Nat /\ Second * InputBudget \in Nat /\ Second * Grace \in Nat
      /\ Second * ActionTimeout \in Nat
  BY Zenon, <1>1, Moments
<1>3. UNCHANGED booking => ReleaseAt' = ReleaseAt /\ PrepAt' = PrepAt
  BY Zenon DEF ReleaseAt, PrepAt
<1>4. ASSUME job.status = "none", now < PollEndsAt, Queue(FALSE, Max({now, PrepAt}), PollEndsAt),
             UNCHANGED <<now, booking, pc, deadline, config, session, pollEnd, clickBy>>
      PROVE  WindowInv'
  <2>1. Max({now, PrepAt}) \in Nat /\ PrepAt <= Max({now, PrepAt})
    <3> DEFINE m == Max({now, PrepAt})
    <3>0. now \in Int /\ PrepAt \in Int
      BY <1>1, <1>2
    <3>1. m \in {now, PrepAt} /\ PrepAt <= m
      BY Zenon, <3>0, MaxMin
    <3> HIDE DEF m
    <3>2. m \in Nat /\ PrepAt <= m
      BY Zenon, <1>1, <1>2, <3>1
    <3> QED
      BY Zenon, <3>2 DEF m
  <2>2. /\ job' = [status |-> "queued", immediate |-> FALSE, due |-> Max({now, PrepAt}), expires |-> PollEndsAt]
        /\ pc' = "none"
    BY Zenon, <1>1, <1>4 DEF Queue
  <2> QED
    BY Zenon, <1>1, <1>2, <1>3, <1>4, <2>1, <2>2 DEF WindowInv, WindowTypes, Jobs, Underway, Admitted, InTime, Told,
       ClicksInTime, Released, Python
<1>5. ASSUME job.status = "none", ReleaseAt <= now, Queue(TRUE, now, now + Second * Lifetime),
             UNCHANGED <<now, booking, pc, deadline, config, session, pollEnd, clickBy>>
      PROVE  WindowInv'
  <2>1. job' = [status |-> "queued", immediate |-> TRUE, due |-> now, expires |-> now + Second * Lifetime]
        /\ pc' = "none"
    BY Zenon, <1>1, <1>5 DEF Queue
  <2> QED
    BY <1>1, <1>2, <1>3, <1>5, <2>1 DEF WindowInv, WindowTypes, Jobs, Underway, Admitted, InTime, Told,
       ClicksInTime, Released, Python
<1>6. ASSUME job' = [job EXCEPT !.status = "ended"], pc' = "none", UNCHANGED <<now, booking>>,
             deadline' \in Nat, clickBy' \in Nat
      PROVE  WindowInv'
  BY Zenon, <1>1, <1>6 DEF WindowInv, WindowTypes, Jobs, Admitted, InTime, Told, ClicksInTime, Released, Python
<1>7. ASSUME pc # "none", pc' \in Python, UNCHANGED <<now, booking, job, deadline>>,
             Told', Released', ClicksInTime', clickBy' \in Nat
      PROVE  WindowInv'
  BY Zenon, <1>1, <1>3, <1>7 DEF WindowInv, WindowTypes, Underway, Admitted, InTime, Python
<1>8. ASSUME pc \in Python, pc' \in Python \ {"clicking", "submitting"},
             pc' \in {"poll", "attempt", "checkout"} => ReleaseAt <= now,
             UNCHANGED <<now, booking, job, deadline, config, clickBy>>
      PROVE  WindowInv'
  <2>1. Told' /\ Released' /\ ClicksInTime'
    BY Zenon, <1>3, <1>8 DEF WindowInv, Told,
     ClicksInTime, Released
  <2> QED
    BY Zenon, <1>1, <1>7, <1>8, <2>1 DEF Python
<1>9. ASSUME NEW to \in {"clicking", "submitting"}, pc \in Python, StartClick(to),
             UNCHANGED <<now, booking, deadline, config>>
      PROVE  WindowInv'
  <2>1. CASE AuthDeadlinePassed
    BY Zenon, <1>1, <1>6, <1>9, <2>1 DEF StartClick, End
  <2>2. CASE ~AuthDeadlinePassed
    <3>1. pc' = to /\ clickBy' = now + Second * ActionTimeout /\ UNCHANGED job
      BY Zenon, <1>9, <2>2 DEF StartClick
    <3>2. config.auth \in Nat /\ now < config.auth
      BY <1>1, <1>9, <2>2 DEF WindowInv, Told, AuthDeadlinePassed
    <3>3. clickBy' \in Nat /\ ClicksInTime'
      BY <1>1, <1>2, <1>9, <3>1, <3>2 DEF ClicksInTime
    <3>4. Told' /\ Released'
      BY <1>3, <1>9, <3>1 DEF WindowInv, Told, Released, Python
    <3> QED
      BY Zenon, <1>7, <1>9, <3>1, <3>3, <3>4 DEF Python
  <2> QED
    BY Zenon, <2>1, <2>2
<1>10. CASE QueueLakeBooking
  BY Zenon, <1>4, <1>5, <1>10 DEF QueueLakeBooking, BookingEnqueueParams, ImmediateBookingEnqueueParams,
     ReleasedAndNotPast
<1>11. CASE SystemQueueBooking
  BY Zenon, <1>4, <1>11 DEF SystemQueueBooking, BookingEnqueueParams
<1>12. CASE EndQueued
  BY Zenon, <1>1, <1>6, <1>12 DEF EndQueued
<1>13. CASE Claim
  <2>1. /\ job' = [job EXCEPT !.status = "running"] /\ pc' = "inputs" /\ pc = "none"
        /\ job.status = "queued" /\ job.due <= now /\ now < job.expires /\ UNCHANGED <<now, booking, clickBy>>
    BY Zenon, <1>1, <1>13 DEF Claim
  <2>2. /\ Min({now + Second * InputBudget, job.expires}) \in Nat
        /\ now <= Min({now + Second * InputBudget, job.expires})
        /\ Min({now + Second * InputBudget, job.expires}) <= job.expires
    <3> DEFINE a == now + Second * InputBudget
               m == Min({a, job.expires})
    <3>1. a \in Nat /\ now <= a
      BY <1>1, <1>2
    <3> HIDE DEF a
    <3>0. a \in Int /\ job.expires \in Int
      BY <1>1, <3>1
    <3>2. m \in {a, job.expires} /\ m <= job.expires
      BY Zenon, <3>0, MaxMin
    <3> HIDE DEF m
    <3>3. m \in Nat /\ now <= m /\ m <= job.expires
      BY <1>1, <2>1, <3>1, <3>2
    <3> QED
      BY Zenon, <3>3 DEF m, a
  <2>3. deadline' \in Nat /\ (job.immediate => now <= deadline' /\ deadline' <= job.expires)
    BY <1>1, <1>2, <1>13, <2>2 DEF Claim
  <2> QED
    BY Zenon, <1>1, <1>3, <2>1, <2>3 DEF WindowInv, WindowTypes, Jobs, Underway, Admitted, InTime, Told,
       ClicksInTime, Released, Python
<1>14. CASE LoadInputs
  <2>1. CASE Startable
    <3>1. /\ pc = "inputs" /\ pc' = "prepare" /\ UNCHANGED <<now, booking, job, clickBy>>
          /\ deadline' = JobExecutionDeadline
      BY Zenon, <1>14, <2>1 DEF LoadInputs
    <3>2. deadline' \in Nat /\ (job.immediate => deadline' = job.expires)
      BY <1>1, <1>2, <3>1 DEF JobExecutionDeadline
    <3> QED
      BY <1>1, <1>3, <3>1, <3>2 DEF WindowInv, WindowTypes, Underway, Admitted, InTime, Told,
         ClicksInTime, Released, Python
  <2>2. CASE ~Startable
    BY Zenon, <1>1, <1>6, <1>14, <2>2 DEF LoadInputs, End
  <2> QED
    BY Zenon, <2>1, <2>2
<1>15. CASE Launch
  <2>1. CASE Startable
    <3>1. pc = "prepare" /\ pc' = "auth" /\ UNCHANGED <<now, booking, job, deadline>> /\ config' = Timing
      BY Zenon, <1>15, <2>1 DEF Launch
    <3>2. /\ Timing.poll \in 1 .. booking.poll /\ Timing.auth \in Nat
          /\ \/ Timing.release = ReleaseAt /\ Timing.auth <= ReleaseAt
             \/ Timing.release = None /\ ReleaseAt <= now
      BY Zenon, <2>1, <3>1, TimingTold DEF WindowInv
    <3>3. Told' /\ Released' /\ ClicksInTime'
      BY Zenon, <1>3, <3>1, <3>2 DEF Told,
     ClicksInTime, Released
    <3> QED
      BY Zenon, <1>1, <1>7, <1>15, <3>1, <3>3 DEF Launch, Python
  <2>2. CASE ~Startable
    BY Zenon, <1>1, <1>6, <1>15, <2>2 DEF Launch, End
  <2> QED
    BY <2>1, <2>2
<1>16. CASE EnsureAuthenticated
  BY Zenon, <1>1, <1>6, <1>8, <1>16 DEF EnsureAuthenticated, End, Python
<1>17. CASE ClickForOtp
  BY Zenon, <1>9, <1>17 DEF ClickForOtp, Python
<1>18. CASE SubmitOtp
  BY Zenon, <1>9, <1>18 DEF SubmitOtp, Python
<1>19. CASE ClickLands
  BY Zenon, <1>8, <1>19 DEF ClickLands, Python
<1>20. CASE YodelSignsIn
  BY Zenon, <1>8, <1>20 DEF YodelSignsIn, Python
<1>21. CASE LookAgain
  BY Zenon, <1>8, <1>21 DEF LookAgain, Python
<1>22. CASE LoseSession
  BY Zenon, <1>1, <1>6, <1>8, <1>22 DEF LoseSession, End, Python
<1>23. CASE StartPolling
  <2>1. ReleaseAt <= now
    <3>1. ReleaseAt # None
      BY Zenon, <1>2, WindowAssumption DEF WindowAssumption
    <3> QED
      BY Zenon, <1>1, <1>2, <1>23, <3>1 DEF StartPolling, WindowInv, Told, Python
  <2> QED
    BY Zenon, <1>8, <1>23, <2>1 DEF StartPolling, Python
<1>24. CASE Attempt
  BY Zenon, <1>1, <1>6, <1>8, <1>24 DEF Attempt, End, Python, WindowInv, Released
<1>25. CASE AttemptEnds
  BY Zenon, <1>8, <1>25 DEF AttemptEnds, Python, WindowInv, Released
<1>26. CASE Stop \/ Timeout \/ ClickFails
  BY Zenon, <1>1, <1>6, <1>26 DEF Stop, Timeout, ClickFails, End
<1>27. CASE SessionExpires \/ UNCHANGED vars
  BY Zenon, <1>3, <1>27 DEF SessionExpires, vars, WindowInv, WindowTypes, Admitted, InTime, Told,
     ClicksInTime, Released
<1>28. CASE Tick
  <2>1. /\ now' = now + 1 /\ (pc # "none" => now < deadline) /\ UNCHANGED <<booking, job, pc, deadline, config, clickBy>>
        /\ pc \in {"clicking", "submitting"} => now < clickBy
    BY Zenon, <1>28 DEF Tick
  <2> QED
    BY <1>1, <1>2, <1>3, <2>1 DEF WindowInv, WindowTypes, Admitted, InTime, Told,
     ClicksInTime, Released
<1> QED
  BY ZenonT(30), <1>10, <1>11, <1>12, <1>13, <1>14, <1>15, <1>16, <1>17, <1>18, <1>19, <1>20, <1>21, <1>22,
     <1>23, <1>24, <1>25, <1>26, <1>27, <1>28 DEF Next

\* What admission, claim and start have left behind is true whenever they happen and
\* however long a step takes.
THEOREM WindowInvariantHolds == Spec => []WindowInv
<1>1. Init => WindowInv
  BY WindowAssumption DEF WindowAssumption, Init, NoJob, WindowInv, WindowTypes, Jobs, Admitted, InTime, Told,
     ClicksInTime, Released, Python
<1> QED
  BY <1>1, WindowInductive, PTL DEF Spec

\* config.py accepts the timing of bookingStartTiming at whatever moment Python is
\* started: at least a second of polling, and no sign-in deadline after the release.
THEOREM TimingsAreAccepted == Spec => []TimingIsAccepted
<1>1. WindowInv => TimingIsAccepted
  BY Zenon DEF WindowInv, Told, TimingIsAccepted
<1> QED
  BY <1>1, WindowInvariantHolds, PTL

\* A claimed job is never refused as early, no attempt is made before the release, and
\* an immediate booking ends its lifetime after it was queued.
THEOREM WindowsAreKept == Spec => []KeepsToItsWindow
<1>1. WindowInv => KeepsToItsWindow
  <2> SUFFICES ASSUME WindowInv PROVE KeepsToItsWindow
    BY Zenon
  <2>1. /\ now \in Nat /\ deadline \in Nat /\ job.due \in Nat /\ job.expires \in Nat
        /\ ReleaseAt \in Nat /\ PrepAt \in Nat /\ job.immediate \in BOOLEAN
    BY Zenon, Moments DEF WindowInv, WindowTypes, Jobs
  <2>2. pc # "none" => job.status = "running"
    BY Zenon DEF WindowInv, WindowTypes
  <2> QED
    BY <2>1, <2>2 DEF WindowInv, Admitted, InTime, Released, KeepsToItsWindow
<1> QED
  BY <1>1, WindowInvariantHolds, PTL

\* However long arming and the delivery of the code took, Python triggers no login or
\* resend and submits no code later than one click may take after the deadline it was
\* given: the deadline is looked at before every click, and a click that waits longer
\* is given up.
THEOREM SignInsAreBounded == Spec => SignInIsBounded
<1>1. WindowInv /\ [Next]_vars => [SignsIn => now < config.auth + Second * ActionTimeout]_vars
  <2> SUFFICES ASSUME WindowInv, Next, SignsIn
               PROVE  now < config.auth + Second * ActionTimeout
    BY Zenon DEF vars
  <2>1. ClickLands
    BY ZenonT(30) DEF SignsIn, Next, QueueLakeBooking, SystemQueueBooking, EndQueued, Claim, LoadInputs, Launch,
       EnsureAuthenticated, ClickForOtp, SubmitOtp, StartClick, ClickFails, YodelSignsIn, LookAgain, LoseSession,
       StartPolling, Attempt, AttemptEnds, Stop, SessionExpires, Timeout, Tick, End
  <2>2. pc \in Python /\ now <= clickBy /\ clickBy < config.auth + Second * ActionTimeout
    BY Zenon, <2>1 DEF ClickLands, WindowInv, ClicksInTime, Python
  <2>3. now \in Nat /\ clickBy \in Nat /\ config.auth + Second * ActionTimeout \in Nat
    BY <2>2, Moments DEF WindowInv, WindowTypes, Told
  <2> QED
    BY <2>2, <2>3
<1> QED
  BY <1>1, WindowInvariantHolds, PTL DEF Spec, SignInIsBounded

-----------------------------------------------------------------------------
(* LakeConnection. *)

Stored == [enabled : BOOLEAN, phone : Phone, updated : Nat]
Readings == [Profile -> Stored \cup {Nil}]
Settings == [choice : Profile \cup {Nil}, custom : BOOLEAN] \cup {Nil}
Run == [profile : Profile, command : {"sign-in", "book"}, status : Unfinished \cup Terminal,
        created : Nat, phone : Phone \cup {Nil}, used : Phone \cup {Nil}, finished : Nat]
Asked == [op : Started \cup {"none"}, at : {"idle", "read", "profiles", "write"},
          profile : Profile \cup {Nil}, row : Settings, profiles : Readings \cup {<<>>}]

LakeTypes ==
  /\ profile \in Readings /\ row \in Settings /\ jobs \in Seq(Run) /\ clock \in Nat
  /\ signedIn \in [Profile -> Phone \cup {Nil}] /\ req \in [Request -> Asked]
  /\ \A p \in Profile : profile[p] # Nil => profile[p].updated <= clock
  /\ \A j \in DOMAIN jobs : jobs[j].created <= clock /\ jobs[j].finished <= clock

\* Where a request is: only a choice or a booking resolves an account, and a view
\* reports on the sign-ins it has read.
Places ==
  \A r \in Request : /\ req[r].at = "profiles" => req[r].op \in {"choose", "book"}
                     /\ req[r].op = "book" /\ req[r].at = "write" => req[r].profile \in Profile
                     /\ req[r].op = "view" /\ req[r].at = "write" => req[r].profiles \in Readings

\* A pending run is younger than the last edit of its sign-in, and a run that is has
\* been given the number that is saved.
SignedWith(run, mine) ==
  /\ mine # Nil
  /\ run.status \in Unfinished => mine.updated <= run.created
  /\ run.phone # Nil /\ mine.updated <= run.created => mine.phone = run.phone
  /\ run.used # Nil => run.phone # Nil
  /\ run.status = "succeeded" => run.used # Nil

Signed == \A j \in DOMAIN jobs : SignedWith(jobs[j], profile[jobs[j].profile])

\* What a view has seen includes what is saved.
Current == \A r \in Request : req[r].op = "view" => Numbers \subseteq seen[r].numbers

\* A run that is younger than the edit a view has read was given a number saved while
\* the view ran.
Witnessed ==
  \A r \in Request : req[r].op = "view" /\ req[r].at = "write" =>
    \A j \in DOMAIN jobs :
      LET read == req[r].profiles[jobs[j].profile] IN
      read # Nil /\ jobs[j].created >= read.updated /\ jobs[j].phone # Nil
        => <<jobs[j].profile, jobs[j].phone>> \in seen[r].numbers

LakeInv == LakeTypes /\ Places /\ Signed /\ Current /\ Witnessed

\* Of some runs, one ended last: the order of profileConnection has a first element.
LEMMA LatestIsOne ==
  ASSUME LakeTypes, NEW js \in SUBSET DOMAIN jobs, js # {}
  PROVE  Latest(js) \in js
<1> DEFINE left == {n \in Nat : \E k \in js : n = clock - jobs[k].finished}
<1>1. \A k \in js : jobs[k] \in Run /\ jobs[k].finished <= clock
  BY DEF LakeTypes
<1>2. \A k \in js : jobs[k].finished \in Nat
  BY Zenon, <1>1 DEF Run
<1>3. \A k \in js : clock - jobs[k].finished \in left
  BY <1>1, <1>2 DEF LakeTypes
<1>4. left \subseteq Nat /\ left # {}
  BY Zenon, <1>3
<1>5. PICK n \in left : \A m \in left : <<m, n>> \notin OpToRel(<, Nat)
  BY Zenon, <1>4, NatLessThanWellFounded, WFMin
<1>6. PICK j \in js : n = clock - jobs[j].finished
  BY Zenon
<1>7. ASSUME NEW k \in js PROVE jobs[k].finished <= jobs[j].finished
  <2> DEFINE m == clock - jobs[k].finished
  <2>1. m \in Nat /\ n \in Nat /\ ~(<<m, n>> \in OpToRel(<, Nat))
    BY Zenon, <1>3, <1>5
  <2>2. m \in Nat /\ n \in Nat /\ ~(m < n)
    BY Zenon, <2>1 DEF OpToRel
  <2>3. clock \in Nat /\ jobs[k].finished \in Nat /\ jobs[j].finished \in Nat
    BY Zenon, <1>2 DEF LakeTypes
  <2> QED
    BY <1>6, <2>2, <2>3
<1> QED
  BY Zenon, <1>7 DEF Latest

\* A job is replaced by another one in the sequence.
LEMMA JobReplaced ==
  ASSUME NEW s \in Seq(Run), NEW j \in DOMAIN s, NEW new \in Run, NEW t, t = [s EXCEPT ![j] = new]
  PROVE  /\ t \in Seq(Run) /\ DOMAIN t = DOMAIN s /\ t[j] = new
         /\ \A k \in DOMAIN s : k # j => t[k] = s[k]
  OBVIOUS

\* A job is added at the end.
LEMMA JobAdded ==
  \A s \in Seq(Run), new \in Run :
    /\ Append(s, new) \in Seq(Run) /\ DOMAIN Append(s, new) = DOMAIN s \cup {Len(s) + 1}
    /\ Append(s, new)[Len(s) + 1] = new /\ \A k \in DOMAIN s : Append(s, new)[k] = s[k]
  OBVIOUS

\* A request that has read no sign-in has none.
LEMMA NothingRead == DOMAIN <<>> = {}
  OBVIOUS

\* While a view runs, the numbers it has seen grow by the saved ones.
LEMMA SeenGrows ==
  ASSUME LakeNext, NEW r \in Request, req'[r].op = "view"
  PROVE  seen[r].numbers \subseteq seen'[r].numbers /\ Numbers' \subseteq seen'[r].numbers
<1>1. seen'[r].numbers = seen[r].numbers \cup Numbers'
  BY Zenon DEF LakeNext, Saw
<1> QED
  BY Zenon, <1>1

\* A saved number is among them.
LEMMA NumberSaved ==
  ASSUME NEW p \in Profile, profile'[p] # Nil
  PROVE  <<p, profile'[p].phone>> \in Numbers'
  BY Zenon DEF Numbers

\* A view that goes on, or has just read the sign-ins, reports on runs that were there
\* or that have read a number that is saved now.
LEMMA StillWitnessed ==
  ASSUME LakeInv, LakeNext, LakeTypes', Signed',
         \A r \in Request : req'[r].op = "view" /\ req'[r].at = "write" =>
           req'[r] # NoRequest /\ (req'[r] = req[r] \/ req'[r].profiles = profile'),
         \A j \in DOMAIN jobs' :
           \/ /\ j \in DOMAIN jobs /\ jobs'[j].profile = jobs[j].profile
              /\ jobs'[j].created = jobs[j].created /\ jobs'[j].phone = jobs[j].phone
           \/ jobs'[j].phone = Nil
           \/ jobs'[j].phone = profile'[jobs'[j].profile].phone
  PROVE  Witnessed'
<1> SUFFICES ASSUME NEW r \in Request, req'[r].op = "view", req'[r].at = "write", NEW j \in DOMAIN jobs',
                    req'[r].profiles[jobs'[j].profile] # Nil,
                    jobs'[j].created >= req'[r].profiles[jobs'[j].profile].updated, jobs'[j].phone # Nil
             PROVE  <<jobs'[j].profile, jobs'[j].phone>> \in seen'[r].numbers
  BY Zenon DEF Witnessed
<1>1. req'[r].op = "view"
  BY Zenon
<1>2. jobs'[j] \in Run /\ jobs'[j].profile \in Profile
  <2>1. jobs' \in Seq(Run)
    BY Zenon DEF LakeTypes
  <2>2. jobs'[j] \in Run
    BY <2>1
  <2> QED
    BY Zenon, <2>2 DEF Run
<1>3. profile'[jobs'[j].profile] # Nil
  BY Zenon DEF Signed, SignedWith
<1>4. CASE jobs'[j].phone = profile'[jobs'[j].profile].phone
  BY Zenon, <1>1, <1>2, <1>3, <1>4, NumberSaved, SeenGrows
<1>5. CASE req'[r].profiles = profile'
  <2>1. profile'[jobs'[j].profile] \in Stored
    BY Zenon, <1>2, <1>3 DEF LakeTypes, Readings
  <2>2. profile'[jobs'[j].profile].updated <= jobs'[j].created
    BY Zenon, <1>2, <1>5, <2>1 DEF Run, Stored
  <2>3. profile'[jobs'[j].profile].phone = jobs'[j].phone
    BY Zenon, <2>2 DEF Signed, SignedWith
  <2> QED
    BY Zenon, <1>1, <1>2, <1>3, <2>3, NumberSaved, SeenGrows
<1>6. CASE /\ req'[r] = req[r] /\ j \in DOMAIN jobs /\ jobs'[j].profile = jobs[j].profile
           /\ jobs'[j].created = jobs[j].created /\ jobs'[j].phone = jobs[j].phone
  <2>1. <<jobs[j].profile, jobs[j].phone>> \in seen[r].numbers
    BY Zenon, <1>6 DEF LakeInv, Witnessed
  <2> QED
    BY Zenon, <1>1, <1>6, <2>1, SeenGrows
<1> QED
  BY Zenon, <1>4, <1>5, <1>6

\* Nothing runs: the request after its response.
LEMMA IdleRequest == NoRequest \in Asked /\ NoRequest.op = "none" /\ NoRequest.at = "idle"
<1>1. Nil \in Settings /\ Nil \in Profile \cup {Nil} /\ <<>> \in Readings \cup {<<>>}
  BY Zenon DEF Settings
<1> QED
  BY Zenon, <1>1 DEF NoRequest, Asked

\* One request goes on: to its response, or to a place that suits its operation.
LEMMA RequestMoves ==
  ASSUME LakeTypes, Places, NEW r \in Request, NEW new \in Asked, req' = [req EXCEPT ![r] = new],
         new.at = "profiles" => new.op \in {"choose", "book"},
         new.op = "book" /\ new.at = "write" => new.profile \in Profile,
         new.op = "view" /\ new.at = "write" => new.profiles = profile
  PROVE  /\ req' \in [Request -> Asked] /\ Places'
         /\ \A q \in Request : req'[q].op = "view" /\ req'[q].at = "write" =>
              req'[q] # NoRequest /\ (req'[q] = req[q] \/ req'[q].profiles = profile)
<1>1. req' \in [Request -> Asked] /\ req'[r] = new /\ \A q \in Request : q # r => req'[q] = req[q]
  BY Zenon DEF LakeTypes
<1>2. profile \in Readings
  BY Zenon DEF LakeTypes
<1>3. Places'
  BY Zenon, <1>1, <1>2 DEF Places
<1>4. \A q \in Request : req'[q].op = "view" => req'[q] # NoRequest
  BY Zenon, IdleRequest
<1> QED
  BY Zenon, <1>1, <1>3, <1>4

\* The same, when the step answers the request.
LEMMA RequestEnds ==
  ASSUME LakeTypes, Places, NEW r \in Request, Respond(r)
  PROVE  /\ req' \in [Request -> Asked] /\ Places'
         /\ \A q \in Request : req'[q].op = "view" /\ req'[q].at = "write" =>
              req'[q] # NoRequest /\ req'[q] = req[q]
<1>1. req' \in [Request -> Asked] /\ req'[r] = NoRequest /\ \A q \in Request : q # r => req'[q] = req[q]
  BY Zenon, IdleRequest DEF LakeTypes, Respond
<1>2. Places'
  BY Zenon, <1>1, IdleRequest DEF Places
<1>3. \A q \in Request : req'[q].op = "view" => req'[q] # NoRequest /\ q # r
  BY Zenon, <1>1, IdleRequest
<1> QED
  BY Zenon, <1>1, <1>2, <1>3

\* What is saved is among what a view has seen.
LEMMA StillCurrent ==
  ASSUME LakeNext
  PROVE  Current'
<1>1. \A r \in Request : req'[r].op = "view" => Numbers' \subseteq seen'[r].numbers
  BY Zenon, SeenGrows
<1> QED
  BY Zenon, <1>1 DEF Current

\* A step that changes neither a sign-in nor a job.
LEMMA ReadOnlyStep ==
  ASSUME LakeInv, LakeNext, UNCHANGED <<profile, jobs, clock>>, row' \in Settings,
         signedIn' \in [Profile -> Phone \cup {Nil}],
         req' \in [Request -> Asked], Places',
         \A q \in Request : req'[q].op = "view" /\ req'[q].at = "write" =>
           req'[q] # NoRequest /\ (req'[q] = req[q] \/ req'[q].profiles = profile)
  PROVE  LakeInv'
<1>1. LakeTypes'
  BY Zenon DEF LakeInv, LakeTypes
<1>2. Signed'
  BY Zenon DEF LakeInv, Signed
<1>3. profile' = profile /\ jobs' = jobs
  BY Zenon
<1>4. Witnessed'
  <2>1. \A q \in Request : req'[q].op = "view" /\ req'[q].at = "write" =>
           req'[q] # NoRequest /\ (req'[q] = req[q] \/ req'[q].profiles = profile')
    BY Zenon, <1>3
  <2> QED
    BY Zenon, <1>1, <1>2, <1>3, <2>1, StillWitnessed
<1> QED
  BY Zenon, <1>1, <1>2, <1>4, StillCurrent DEF LakeInv

\* A sign-in is created, or edited while none of its runs is pending.
LEMMA SignInSaved ==
  ASSUME LakeInv, LakeNext, NEW r \in Request, Respond(r), UNCHANGED <<row, jobs, signedIn>>, clock' = clock + 1,
         NEW p \in Profile \cup {Nil}, NEW phone \in Phone, NEW enabled \in BOOLEAN,
         profile' = [profile EXCEPT ![p] = [enabled |-> enabled, phone |-> phone, updated |-> clock']],
         ~Pending(p)
  PROVE  LakeInv'
<1> DEFINE new == [enabled |-> enabled, phone |-> phone, updated |-> clock + 1]
<1>1. clock \in Nat /\ clock + 1 \in Nat /\ clock' \in Nat
  BY DEF LakeInv, LakeTypes
<1>2. new \in Stored /\ new # Nil /\ new.updated = clock + 1 /\ new.phone = phone
  <2>1. new \in Stored
    BY Zenon, <1>1 DEF Stored
  <2> QED
    BY Zenon, <2>1, LakeAssumption DEF LakeAssumption, Stored
<1> HIDE DEF new
<1>3. /\ profile' \in Readings /\ (p \in Profile => profile'[p] = new)
      /\ \A q \in Profile : q # p => profile'[q] = profile[q]
  BY Zenon, <1>2 DEF LakeInv, LakeTypes, Readings, new
<1>4. \A j \in DOMAIN jobs : jobs[j] \in Run
  BY DEF LakeInv, LakeTypes
<1>5. \A j \in DOMAIN jobs : jobs[j].profile \in Profile /\ jobs[j].created \in Nat /\ jobs[j].finished \in Nat
                             /\ jobs[j].created <= clock /\ jobs[j].finished <= clock
  BY Zenon, <1>4 DEF Run, LakeInv, LakeTypes
<1>6. req' \in [Request -> Asked] /\ Places'
  BY Zenon, RequestEnds DEF LakeInv
<1>7. \A q \in Request : req'[q].op = "view" /\ req'[q].at = "write" => req'[q] # NoRequest /\ req'[q] = req[q]
  BY Zenon, RequestEnds DEF LakeInv
<1>8. jobs' = jobs /\ row' = row
  BY Zenon
<1>9. LakeTypes'
  <2>1. ASSUME NEW q \in Profile, profile'[q] # Nil PROVE profile'[q].updated <= clock + 1
    <3>1. CASE q = p
      BY <1>1, <1>2, <1>3, <3>1
    <3>2. CASE q # p
      <4>1. profile[q] \in Stored /\ profile[q].updated <= clock /\ profile'[q] = profile[q]
        BY Zenon, <1>3, <2>1, <3>2 DEF LakeInv, LakeTypes, Readings
      <4> QED
        BY <1>1, <4>1 DEF Stored
    <3> QED
      BY Zenon, <3>1, <3>2
  <2>2. \A j \in DOMAIN jobs : jobs[j].created <= clock + 1 /\ jobs[j].finished <= clock + 1
    BY <1>1, <1>5
  <2> QED
    BY Zenon, <1>1, <1>3, <1>6, <1>8, <2>1, <2>2 DEF LakeInv, LakeTypes
<1>10. Signed'
  <2>1. ASSUME NEW j \in DOMAIN jobs, jobs[j].profile = p
        PROVE  jobs[j].status \notin Unfinished /\ ~(new.updated <= jobs[j].created)
    <3>1. jobs[j].status \notin Unfinished
      BY Zenon, <2>1 DEF Pending
    <3> QED
      BY <1>1, <1>2, <1>5, <3>1
  <2>2. ASSUME NEW j \in DOMAIN jobs PROVE SignedWith(jobs[j], profile'[jobs[j].profile])
    <3>1. SignedWith(jobs[j], profile[jobs[j].profile]) /\ jobs[j].profile \in Profile
      BY Zenon, <1>5 DEF LakeInv, Signed
    <3>2. CASE jobs[j].profile # p
      BY Zenon, <1>3, <3>1, <3>2
    <3>3. CASE jobs[j].profile = p
      BY Zenon, <1>2, <1>3, <2>1, <3>1, <3>3 DEF SignedWith
    <3> QED
      BY Zenon, <3>2, <3>3
  <2> QED
    BY Zenon, <1>8, <2>2 DEF Signed
<1>11. Witnessed'
  BY Zenon, <1>7, <1>8, <1>9, <1>10, StillWitnessed
<1> QED
  BY Zenon, <1>6, <1>9, <1>10, <1>11, StillCurrent DEF LakeInv

\* A run is queued for a sign-in that is saved.
LEMMA RunQueued ==
  ASSUME LakeInv, LakeNext, NEW r \in Request, Respond(r), UNCHANGED <<profile, row, signedIn>>,
         NEW p \in Profile, NEW command \in {"sign-in", "book"}, Enqueue(p, command)
  PROVE  LakeInv'
<1> DEFINE new == [profile |-> p, command |-> command, status |-> "queued",
                   created |-> clock + 1, phone |-> Nil, used |-> Nil, finished |-> 0]
<1>1. /\ clock \in Nat /\ clock + 1 \in Nat /\ clock' = clock + 1 /\ 0 <= clock + 1
      /\ jobs \in Seq(Run) /\ Len(jobs) + 1 \notin DOMAIN jobs
  BY DEF LakeInv, LakeTypes, Enqueue
<1>2. new \in Run
  BY Zenon, <1>1 DEF Run, Unfinished
<1>3. jobs' = Append(jobs, new) /\ profile[p] # Nil
  BY Zenon, <1>1 DEF Enqueue
<1>4. /\ new.profile = p /\ new.status = "queued" /\ new.created = clock + 1
      /\ new.phone = Nil /\ new.used = Nil /\ new.finished = 0
  BY Zenon
<1> HIDE DEF new
<1>5. /\ jobs' \in Seq(Run) /\ DOMAIN jobs' = DOMAIN jobs \cup {Len(jobs) + 1}
      /\ jobs'[Len(jobs) + 1] = new /\ \A k \in DOMAIN jobs : jobs'[k] = jobs[k]
  BY Zenon, <1>1, <1>2, <1>3, JobAdded
<1>6. profile' = profile /\ row' = row
  BY Zenon
<1>7. profile[p] \in Stored /\ profile[p].updated \in Nat /\ profile[p].updated <= clock
  BY Zenon, <1>3 DEF LakeInv, LakeTypes, Readings, Stored
<1>8. /\ req' \in [Request -> Asked] /\ Places'
      /\ \A q \in Request : req'[q].op = "view" /\ req'[q].at = "write" => req'[q] # NoRequest /\ req'[q] = req[q]
  BY Zenon, RequestEnds DEF LakeInv
<1>9. LakeTypes'
  <2>1. \A q \in Profile : profile[q] # Nil => profile[q].updated <= clock + 1
    <3>1. \A q \in Profile : profile[q] # Nil => profile[q].updated \in Nat /\ profile[q].updated <= clock
      BY Zenon DEF LakeInv, LakeTypes, Readings, Stored
    <3> QED
      BY <1>1, <3>1
  <2>2. \A k \in DOMAIN jobs : jobs[k].created <= clock + 1 /\ jobs[k].finished <= clock + 1
    <3>1. \A k \in DOMAIN jobs : jobs[k] \in Run /\ jobs[k].created <= clock /\ jobs[k].finished <= clock
      BY DEF LakeInv, LakeTypes
    <3>2. \A k \in DOMAIN jobs : jobs[k].created \in Nat /\ jobs[k].finished \in Nat
      BY Zenon, <3>1 DEF Run
    <3> QED
      BY <1>1, <3>1, <3>2
  <2>3. clock + 1 <= clock + 1
    BY <1>1
  <2>4. \A k \in DOMAIN jobs' : jobs'[k].created <= clock' /\ jobs'[k].finished <= clock'
    BY Zenon, <1>1, <1>4, <1>5, <2>2, <2>3
  <2> QED
    BY Zenon, <1>1, <1>5, <1>6, <1>8, <2>1, <2>4 DEF LakeInv, LakeTypes
<1>10. Signed'
  <2>1. SignedWith(new, profile[p])
    <3>1. profile[p].updated <= clock + 1
      BY <1>1, <1>7
    <3> QED
      BY Zenon, <1>3, <1>4, <3>1 DEF SignedWith
  <2> QED
    BY Zenon, <1>4, <1>5, <1>6, <2>1 DEF LakeInv, Signed
<1>11. Witnessed'
  <2>1. \A k \in DOMAIN jobs' : (k \in DOMAIN jobs /\ jobs'[k] = jobs[k]) \/ jobs'[k].phone = Nil
    BY Zenon, <1>4, <1>5
  <2> QED
    BY Zenon, <1>8, <1>9, <1>10, <2>1, StillWitnessed
<1> QED
  BY Zenon, <1>8, <1>9, <1>10, <1>11, StillCurrent DEF LakeInv

\* A run goes on: it keeps its sign-in, its age and, unless it reads it now, its number.
LEMMA RunMoves ==
  ASSUME LakeInv, LakeNext, UNCHANGED <<profile, row, req>>, clock' \in Nat, clock <= clock',
         signedIn' \in [Profile -> Phone \cup {Nil}],
         NEW j \in DOMAIN jobs, NEW new \in Run, jobs' = [jobs EXCEPT ![j] = new],
         new.profile = jobs[j].profile, new.created = jobs[j].created, new.finished <= clock',
         new.phone = jobs[j].phone \/ new.phone = profile[jobs[j].profile].phone,
         SignedWith(new, profile[jobs[j].profile])
  PROVE  LakeInv'
<1>1. jobs \in Seq(Run) /\ clock \in Nat
  BY Zenon DEF LakeInv, LakeTypes
<1>2. /\ jobs' \in Seq(Run) /\ DOMAIN jobs' = DOMAIN jobs /\ jobs'[j] = new
      /\ \A k \in DOMAIN jobs : k # j => jobs'[k] = jobs[k]
  BY Zenon, <1>1, JobReplaced
<1>3. profile' = profile /\ row' = row /\ req' = req
  BY Zenon
<1>4. LakeTypes'
  <2>1. \A k \in DOMAIN jobs : jobs[k] \in Run /\ jobs[k].created <= clock /\ jobs[k].finished <= clock
    BY DEF LakeInv, LakeTypes
  <2>2. \A k \in DOMAIN jobs : jobs[k].created \in Nat /\ jobs[k].finished \in Nat
    BY Zenon, <2>1 DEF Run
  <2>3. \A k \in DOMAIN jobs : jobs[k].created <= clock' /\ jobs[k].finished <= clock'
    BY <1>1, <2>1, <2>2
  <2>4. \A q \in Profile : profile[q] # Nil => profile[q].updated <= clock'
    <3>1. \A q \in Profile : profile[q] # Nil => profile[q].updated \in Nat /\ profile[q].updated <= clock
      BY Zenon DEF LakeInv, LakeTypes, Readings, Stored
    <3> QED
      BY <1>1, <3>1
  <2>5. \A k \in DOMAIN jobs' : jobs'[k].created <= clock' /\ jobs'[k].finished <= clock'
    BY Zenon, <1>2, <2>3
  <2> QED
    BY Zenon, <1>2, <1>3, <2>4, <2>5 DEF LakeInv, LakeTypes
<1>5. Signed'
  BY Zenon, <1>2, <1>3 DEF LakeInv, Signed
<1>6. Places'
  BY Zenon, <1>3 DEF LakeInv, Places
<1>7. Witnessed'
  <2>1. \A k \in DOMAIN jobs' :
           \/ /\ k \in DOMAIN jobs /\ jobs'[k].profile = jobs[k].profile
              /\ jobs'[k].created = jobs[k].created /\ jobs'[k].phone = jobs[k].phone
           \/ jobs'[k].phone = profile'[jobs'[k].profile].phone
    BY Zenon, <1>2, <1>3
  <2>2. \A q \in Request : req'[q].op = "view" => req'[q] # NoRequest /\ req'[q] = req[q]
    BY Zenon, <1>3, IdleRequest
  <2> QED
    BY Zenon, <1>4, <1>5, <2>1, <2>2, StillWitnessed
<1> QED
  BY Zenon, <1>4, <1>5, <1>6, <1>7, StillCurrent DEF LakeInv

\* Every step keeps the invariant.
LEMMA LakeInductive ==
  ASSUME LakeInv, [LakeNext]_lakeVars
  PROVE  LakeInv'
<1>1. /\ profile \in Readings /\ row \in Settings /\ clock \in Nat /\ req \in [Request -> Asked]
      /\ signedIn \in [Profile -> Phone \cup {Nil}] /\ LakeTypes /\ Places
  BY Zenon DEF LakeInv, LakeTypes
<1>2. \A r \in Request : /\ req[r] \in Asked /\ req[r].profile \in Profile \cup {Nil}
                         /\ req[r].row \in Settings /\ Choice(req[r].row) \in Profile \cup {Nil}
                         /\ (req[r].row # Nil => req[r].row.custom \in BOOLEAN)
  BY Zenon, <1>1 DEF Asked, Settings, Choice
<1>3. ASSUME LakeNext, NEW r \in Request, Respond(r), row' \in Settings,
             UNCHANGED <<profile, jobs, clock, signedIn>>
      PROVE  LakeInv'
  BY Zenon, <1>1, <1>3, RequestEnds, ReadOnlyStep
<1>4. ASSUME LakeNext, NEW r \in Request, NEW new \in Asked, req' = [req EXCEPT ![r] = new],
             new.at = "profiles" => new.op \in {"choose", "book"},
             new.op = "book" /\ new.at = "write" => new.profile \in Profile,
             new.op = "view" /\ new.at = "write" => new.profiles = profile,
             UNCHANGED <<profile, row, jobs, clock, signedIn>>
      PROVE  LakeInv'
  <2>1. /\ row' \in Settings /\ UNCHANGED <<profile, jobs, clock>>
        /\ signedIn' \in [Profile -> Phone \cup {Nil}]
    BY Zenon, <1>1, <1>4
  <2> QED
    BY Zenon, <1>1, <1>4, <2>1, RequestMoves, ReadOnlyStep
<1>5. ASSUME LakeNext, NEW r \in Request, NEW op \in Started, NEW p \in Profile, Begin(r, op, p) PROVE LakeInv'
  <2> DEFINE new == [NoRequest EXCEPT !.op = op, !.at = "read", !.profile = p]
  <2>1. new \in Asked /\ new.at = "read"
    BY Zenon, IdleRequest DEF Asked
  <2>2. req' = [req EXCEPT ![r] = new] /\ UNCHANGED <<profile, row, jobs, clock, signedIn>>
    BY Zenon, <1>5 DEF Begin
  <2> HIDE DEF new
  <2>3. new.at # "profiles" /\ new.at # "write"
    BY Zenon, <2>1
  <2> QED
    BY Zenon, <1>4, <1>5, <2>1, <2>2, <2>3
<1>6. ASSUME LakeNext, NEW r \in Request, Refuse(r) \/ View(r) PROVE LakeInv'
  BY Zenon, <1>1, <1>3, <1>6 DEF Refuse, View
<1>7. ASSUME LakeNext, NEW r \in Request, ReadSettings(r) PROVE LakeInv'
  <2> DEFINE place == IF req[r].op \in {"choose", "book"} THEN "profiles" ELSE "write"
             new == [req[r] EXCEPT !.row = row, !.at = place]
  <2>1. place \in {"profiles", "write"} /\ (place = "profiles" => req[r].op \in {"choose", "book"})
        /\ (place = "write" => req[r].op \notin {"view", "book"})
    BY Zenon, <1>7 DEF ReadSettings
  <2> HIDE DEF place
  <2>2. new \in Asked /\ new.at = place /\ new.op = req[r].op
    BY Zenon, <1>1, <1>2, <2>1 DEF Asked
  <2>3. req' = [req EXCEPT ![r] = new] /\ UNCHANGED <<profile, row, jobs, clock, signedIn>>
    BY Zenon, <1>7 DEF ReadSettings, place
  <2> HIDE DEF new
  <2> QED
    BY Zenon, <1>4, <1>7, <2>1, <2>2, <2>3
<1>8. ASSUME LakeNext, NEW r \in Request, ResolveAccount(r) PROVE LakeInv'
  <2> DEFINE choice == IF req[r].op = "choose" THEN req[r].profile ELSE Choice(req[r].row)
             found == ResolveLakeBookingProfile(choice, profile)
  <2>1. CASE found = Nil
    BY Zenon, <1>1, <1>3, <1>8, <2>1 DEF ResolveAccount
  <2>2. CASE found # Nil
    <3> DEFINE new == [req[r] EXCEPT !.profile = found, !.at = "write"]
    <3>1. req' = [req EXCEPT ![r] = new] /\ UNCHANGED <<profile, row, jobs, clock, signedIn>>
      BY Zenon, <1>8, <2>2 DEF ResolveAccount
    <3>2. req[r].op \in {"choose", "book"}
      BY Zenon, <1>1, <1>8 DEF Places, ResolveAccount
    <3>3. found \in Profile
      <4>1. Enabled(profile) \subseteq Profile
        BY Zenon, <1>1 DEF Enabled, Readings
      <4>2. Cardinality(Enabled(profile)) = 1 => Enabled(profile) # {}
        BY FS_EmptySet
      <4>3. found \in Enabled(profile)
        BY Zenon, <2>2, <4>2 DEF ResolveLakeBookingProfile
      <4> QED
        BY Zenon, <4>1, <4>3
    <3> HIDE DEF found
    <3>4. new \in Asked /\ new.at = "write" /\ new.op = req[r].op /\ new.profile \in Profile
      BY Zenon, <1>2, <3>3 DEF Asked
    <3> HIDE DEF new
    <3>5. new.at # "profiles" /\ new.op # "view"
      BY Zenon, <3>2, <3>4
    <3> QED
      BY Zenon, <1>4, <1>8, <3>1, <3>4, <3>5
  <2> QED
    BY Zenon, <2>1, <2>2
<1>9. ASSUME LakeNext, NEW r \in Request, ReadProfiles(r) PROVE LakeInv'
  <2> DEFINE new == [req[r] EXCEPT !.profiles = profile, !.at = "write"]
  <2>1. new \in Asked /\ new.at = "write" /\ new.op = req[r].op /\ new.profiles = profile
    BY Zenon, <1>1, <1>2 DEF Asked
  <2>2. req' = [req EXCEPT ![r] = new] /\ UNCHANGED <<profile, row, jobs, clock, signedIn>>
    BY Zenon, <1>9 DEF ReadProfiles
  <2> HIDE DEF new
  <2>3. new.at # "profiles" /\ new.op # "book"
    BY Zenon, <1>9, <2>1 DEF ReadProfiles
  <2> QED
    BY Zenon, <1>4, <1>9, <2>1, <2>2, <2>3
<1>10. ASSUME NEW choice \in Profile \cup {Nil}, NEW custom \in BOOLEAN, SaveLakeSettings(choice, custom)
       PROVE  row' \in Settings
  BY Zenon, <1>10 DEF SaveLakeSettings, Settings
<1>11. ASSUME LakeNext, NEW r \in Request, Choose(r) PROVE LakeInv'
  <2>1. (req[r].row # Nil /\ req[r].row.custom) \in BOOLEAN
    BY Zenon
  <2>2. row' \in Settings
    BY Zenon, <1>2, <1>10, <1>11, <2>1 DEF Choose
  <2> QED
    BY Zenon, <1>3, <1>11, <2>2 DEF Choose
<1>12. ASSUME LakeNext, NEW r \in Request, Update(r) PROVE LakeInv'
  BY Zenon, <1>2, <1>3, <1>10, <1>12 DEF Update
<1>13. ASSUME LakeNext, NEW r \in Request, Reset(r) PROVE LakeInv'
  <2>1. row' \in Settings
    BY Zenon, <1>2, <1>10, <1>13 DEF Reset, Settings
  <2> QED
    BY Zenon, <1>3, <1>13, <2>1 DEF Reset
<1>14. \A j \in DOMAIN jobs : jobs[j] \in Run /\ SignedWith(jobs[j], profile[jobs[j].profile])
  BY DEF LakeInv, LakeTypes, Signed
<1>15. \A j \in DOMAIN jobs :
         /\ jobs[j].profile \in Profile /\ profile[jobs[j].profile] # Nil
         /\ profile[jobs[j].profile] \in Stored /\ profile[jobs[j].profile].phone \in Phone
  BY Zenon, <1>1, <1>14 DEF Run, SignedWith, Readings, Stored
<1>16. ASSUME LakeNext, NEW r \in Request, NEW phone \in Phone, NEW e \in BOOLEAN, Create(r, phone, e)
       PROVE  LakeInv'
  <2>1. ~Pending(req[r].profile)
    BY Zenon, <1>15, <1>16 DEF Create, Pending
  <2> QED
    BY Zenon, <1>2, <1>16, <2>1, SignInSaved DEF Create
<1>17. ASSUME LakeNext, NEW r \in Request, NEW phone \in Phone, NEW e \in BOOLEAN, Edit(r, phone, e)
       PROVE  LakeInv'
  BY Zenon, <1>2, <1>17, SignInSaved DEF Edit
<1>18. ASSUME LakeNext, NEW r \in Request, SignIn(r) PROVE LakeInv'
  <2>1. req[r].profile \in Profile
    <3>1. req[r].profiles \in Readings \cup {<<>>} /\ req[r].profile \in DOMAIN req[r].profiles
      BY Zenon, <1>2, <1>18 DEF Asked, SignIn, Enabled
    <3> QED
      BY Zenon, <3>1, NothingRead DEF Readings
  <2> QED
    BY Zenon, <1>18, <2>1, RunQueued DEF SignIn
<1>19. ASSUME LakeNext, NEW r \in Request, Book(r) PROVE LakeInv'
  <2>1. req[r].profile \in Profile
    BY Zenon, <1>1, <1>19 DEF Places, Book
  <2> QED
    BY Zenon, <1>19, <2>1, RunQueued DEF Book
<1>20. clock <= clock /\ clock + 1 \in Nat /\ clock <= clock + 1 /\ clock + 1 <= clock + 1
  BY <1>1
<1>21. ASSUME LakeNext, NEW j \in DOMAIN jobs, RunJob(j) PROVE LakeInv'
  <2> DEFINE new == [jobs[j] EXCEPT !.status = "running"]
  <2>1. /\ new \in Run /\ new.profile = jobs[j].profile /\ new.created = jobs[j].created
        /\ new.phone = jobs[j].phone /\ new.used = jobs[j].used /\ new.finished = jobs[j].finished /\ new.status = "running"
    BY Zenon, <1>14 DEF Run, Unfinished
  <2>2. jobs' = [jobs EXCEPT ![j] = new] /\ jobs[j].status = "queued" /\ UNCHANGED <<profile, row, req, clock, signedIn>>
    BY Zenon, <1>21 DEF RunJob
  <2> HIDE DEF new
  <2>3. SignedWith(new, profile[jobs[j].profile])
    BY Zenon, <1>14, <2>1, <2>2 DEF SignedWith, Unfinished
  <2>4. new.finished <= clock
    BY Zenon, <1>1, <2>1 DEF LakeTypes
  <2>5. clock' = clock /\ UNCHANGED <<profile, row, req>> /\ signedIn' \in [Profile -> Phone \cup {Nil}]
    BY Zenon, <1>1, <2>2
  <2> QED
    BY ZenonT(30), <1>1, <1>20, <1>21, <2>1, <2>2, <2>3, <2>4, <2>5, RunMoves
<1>22. ASSUME LakeNext, NEW j \in DOMAIN jobs, LoadCredentials(j) PROVE LakeInv'
  <2> DEFINE new == [jobs[j] EXCEPT !.phone = profile[jobs[j].profile].phone]
  <2>1. /\ new \in Run /\ new.profile = jobs[j].profile /\ new.created = jobs[j].created
        /\ new.phone = profile[jobs[j].profile].phone /\ new.finished = jobs[j].finished
        /\ new.status = jobs[j].status /\ new.used = jobs[j].used
    BY Zenon, <1>14, <1>15 DEF Run
  <2>2. jobs' = [jobs EXCEPT ![j] = new] /\ jobs[j].status = "running" /\ UNCHANGED <<profile, row, req, clock, signedIn>>
    BY Zenon, <1>22 DEF LoadCredentials
  <2> HIDE DEF new
  <2>3. SignedWith(new, profile[jobs[j].profile])
    BY Zenon, <1>14, <2>1, <2>2 DEF SignedWith, Unfinished
  <2>4. new.finished <= clock
    BY Zenon, <1>1, <2>1 DEF LakeTypes
  <2>5. clock' = clock /\ UNCHANGED <<profile, row, req>> /\ signedIn' \in [Profile -> Phone \cup {Nil}]
    BY Zenon, <1>1, <2>2
  <2> QED
    BY ZenonT(30), <1>1, <1>20, <1>22, <2>1, <2>2, <2>3, <2>4, <2>5, RunMoves
<1>23. ASSUME LakeNext, NEW j \in DOMAIN jobs, NEW s \in Terminal, EndJob(j, s) PROVE LakeInv'
  <2> DEFINE new == [jobs[j] EXCEPT !.status = s, !.finished = clock']
  <2>1. /\ clock' = clock + 1 /\ jobs[j].status \in Unfinished /\ (s = "succeeded" => jobs[j].used # Nil)
        /\ UNCHANGED <<profile, row, req, signedIn>> /\ jobs' = [jobs EXCEPT ![j] = new]
    BY Zenon, <1>23 DEF EndJob
  <2>2. /\ new \in Run /\ new.profile = jobs[j].profile /\ new.created = jobs[j].created
        /\ new.phone = jobs[j].phone /\ new.used = jobs[j].used /\ new.finished = clock' /\ new.status = s
    BY Zenon, <1>14, <1>20, <2>1 DEF Run
  <2> HIDE DEF new
  <2>3. SignedWith(new, profile[jobs[j].profile])
    BY Zenon, <1>14, <2>1, <2>2 DEF SignedWith, Unfinished, Terminal
  <2>4. /\ new.finished <= clock' /\ clock' \in Nat /\ clock <= clock'
        /\ signedIn' \in [Profile -> Phone \cup {Nil}]
    BY Zenon, <1>1, <1>20, <2>1, <2>2
  <2> QED
    BY Zenon, <1>23, <2>1, <2>2, <2>3, <2>4, RunMoves
<1>24. ASSUME LakeNext, NEW j \in DOMAIN jobs, RunSignsIn(j) PROVE LakeInv'
  <2> DEFINE p == jobs[j].profile
             n == IF signedIn[p] # Nil THEN signedIn[p] ELSE jobs[j].phone
             new == [jobs[j] EXCEPT !.used = n]
  <2>1. /\ jobs[j].status = "running" /\ jobs[j].phone # Nil /\ jobs' = [jobs EXCEPT ![j] = new]
        /\ signedIn' = [signedIn EXCEPT ![p] = n] /\ UNCHANGED <<profile, row, req, clock>>
    BY Zenon, <1>24 DEF RunSignsIn
  <2>2. n \in Phone \cup {Nil}
    BY Zenon, <1>1, <1>14, <1>15 DEF Run
  <2> HIDE DEF n
  <2>3. /\ new \in Run /\ new.profile = jobs[j].profile /\ new.created = jobs[j].created
        /\ new.phone = jobs[j].phone /\ new.finished = jobs[j].finished /\ new.status = jobs[j].status
    BY Zenon, <1>14, <2>2 DEF Run
  <2>4. signedIn' \in [Profile -> Phone \cup {Nil}]
    BY Zenon, <1>1, <1>15, <2>1, <2>2
  <2> HIDE DEF new, p
  <2>5. SignedWith(new, profile[jobs[j].profile])
    BY Zenon, <1>14, <2>1, <2>3 DEF SignedWith, Unfinished
  <2>6. new.finished <= clock
    BY Zenon, <1>1, <2>3 DEF LakeTypes
  <2>7. clock' = clock /\ UNCHANGED <<profile, row, req>>
    BY Zenon, <2>1
  <2> QED
    BY ZenonT(30), <1>1, <1>20, <1>24, <2>1, <2>3, <2>4, <2>5, <2>6, <2>7, RunMoves
<1>25. ASSUME LakeNext, NEW p \in Profile, YodelSignsOut(p) PROVE LakeInv'
  <2>1. /\ UNCHANGED <<profile, jobs, clock>> /\ row' = row /\ req' = req
        /\ signedIn' \in [Profile -> Phone \cup {Nil}]
    BY Zenon, <1>1, <1>25 DEF YodelSignsOut
  <2>2. Places' /\ \A q \in Request : req'[q].op = "view" => req'[q] # NoRequest
    BY Zenon, <1>1, <2>1, IdleRequest DEF Places
  <2> QED
    BY Zenon, <1>1, <1>25, <2>1, <2>2, ReadOnlyStep
<1>26. CASE UNCHANGED lakeVars
  <2>1. UNCHANGED <<profile, row, jobs, clock, signedIn, req, seen>>
    BY Zenon, <1>26 DEF lakeVars
  <2>2. LakeTypes' /\ Places' /\ Signed'
    BY Zenon, <2>1 DEF LakeInv, LakeTypes, Places, Signed
  <2>3. Current' /\ Witnessed'
    BY Zenon, <2>1 DEF LakeInv, Current, Numbers, Witnessed
  <2> QED
    BY Zenon, <2>2, <2>3 DEF LakeInv
<1>27. CASE LakeNext
  <2>1. LakeStep
    BY Zenon, <1>27 DEF LakeNext
  <2> QED
    BY ZenonT(30), <1>5, <1>6, <1>7, <1>8, <1>9, <1>11, <1>12, <1>13, <1>16, <1>17, <1>18, <1>19,
       <1>21, <1>22, <1>23, <1>24, <1>25, <1>27, <2>1 DEF LakeStep
<1> QED
  BY Zenon, <1>26, <1>27

\* What Signed and Witnessed say of runs, sign-ins and views is true for any number of
\* sign-ins, requests and runs.
THEOREM LakeInvariantHolds == LakeSpec => []LakeInv
<1>1. LakeInit => LakeInv
  <2> SUFFICES ASSUME LakeInit PROVE LakeInv
    BY Zenon
  <2>1. /\ profile = [p \in Profile |-> Nil] /\ row = Nil /\ jobs = <<>> /\ clock = 0
        /\ req = [r \in Request |-> NoRequest] /\ signedIn = [p \in Profile |-> Nil]
    BY Zenon DEF LakeInit
  <2>2. jobs \in Seq(Run) /\ DOMAIN jobs = {} /\ clock \in Nat
    BY <2>1
  <2>3. /\ profile \in Readings /\ row \in Settings /\ req \in [Request -> Asked]
        /\ signedIn \in [Profile -> Phone \cup {Nil}]
    BY Zenon, <2>1, IdleRequest DEF Readings, Settings
  <2>4. \A r \in Request : req[r] = NoRequest /\ req[r].op = "none" /\ req[r].at = "idle"
    BY Zenon, <2>1, IdleRequest
  <2>5. LakeTypes
    BY Zenon, <2>1, <2>2, <2>3 DEF LakeTypes
  <2>6. Places
    BY Zenon, <2>4 DEF Places
  <2>7. Signed /\ Current
    BY Zenon, <2>2, <2>4 DEF Signed, Current
  <2>8. Witnessed
    BY Zenon, <2>2 DEF Witnessed
  <2> QED
    BY Zenon, <2>5, <2>6, <2>7, <2>8 DEF LakeInv
<1> QED
  BY <1>1, LakeInductive, PTL DEF LakeSpec

\* A browser is signed in with a number that a run of its sign-in was given.
Sessions ==
  /\ \A p \in Profile : signedIn[p] # Nil => Given(p, signedIn[p])
  /\ \A j \in DOMAIN jobs : jobs[j].used # Nil => Given(jobs[j].profile, jobs[j].used)

\* Jobs keep the sign-in and the number they have.
JobsKeep ==
  \A j \in DOMAIN jobs : /\ j \in DOMAIN jobs' /\ jobs'[j].profile = jobs[j].profile
                         /\ jobs[j].phone # Nil => jobs'[j].phone = jobs[j].phone

\* Every step keeps what browsers are signed in with among the numbers given.
LEMMA SessionsInductive ==
  ASSUME LakeInv, Sessions, [LakeNext]_lakeVars
  PROVE  Sessions'
<1> DEFINE GivenNow(p, n) == \E k \in DOMAIN jobs' : jobs'[k].profile = p /\ jobs'[k].phone = n
<1>1. ASSUME JobsKeep, NEW p, NEW n, n # Nil, Given(p, n) PROVE GivenNow(p, n)
  BY Zenon, <1>1 DEF JobsKeep, Given
<1> HIDE DEF GivenNow
<1>2. ASSUME JobsKeep, \A p \in Profile : signedIn'[p] \in {Nil, signedIn[p]},
             \A j \in DOMAIN jobs' : \/ jobs'[j].used = Nil
                                     \/ j \in DOMAIN jobs /\ jobs'[j].used = jobs[j].used
      PROVE  Sessions'
  <2>1. ASSUME NEW p \in Profile, signedIn'[p] # Nil PROVE GivenNow(p, signedIn'[p])
    BY Zenon, <1>1, <1>2, <2>1 DEF Sessions
  <2>2. ASSUME NEW j \in DOMAIN jobs', jobs'[j].used # Nil PROVE GivenNow(jobs'[j].profile, jobs'[j].used)
    BY Zenon, <1>1, <1>2, <2>2 DEF Sessions, JobsKeep
  <2> QED
    BY Zenon, <2>1, <2>2 DEF Sessions, Given, GivenNow
<1>3. jobs \in Seq(Run) /\ signedIn \in [Profile -> Phone \cup {Nil}]
  BY Zenon DEF LakeInv, LakeTypes
<1>4. \A j \in DOMAIN jobs : jobs[j] \in Run
  BY <1>3
<1>5. ASSUME UNCHANGED <<jobs, signedIn>> PROVE Sessions'
  BY Zenon, <1>5 DEF Sessions, Given
<1>6. ASSUME NEW p \in Profile, NEW command \in {"sign-in", "book"}, Enqueue(p, command), UNCHANGED signedIn
      PROVE  Sessions'
  <2> DEFINE new == [profile |-> p, command |-> command, status |-> "queued",
                     created |-> clock + 1, phone |-> Nil, used |-> Nil, finished |-> 0]
  <2>1. clock + 1 \in Nat /\ Len(jobs) + 1 \notin DOMAIN jobs
    BY <1>3 DEF LakeInv, LakeTypes
  <2>2. new \in Run /\ new.used = Nil /\ jobs' = Append(jobs, new)
    BY Zenon, <1>6, <2>1 DEF Run, Unfinished, Enqueue
  <2> HIDE DEF new
  <2>3. /\ DOMAIN jobs' = DOMAIN jobs \cup {Len(jobs) + 1} /\ jobs'[Len(jobs) + 1] = new
        /\ \A k \in DOMAIN jobs : jobs'[k] = jobs[k]
    BY Zenon, <1>3, <2>2, JobAdded
  <2> QED
    BY Zenon, <1>2, <1>6, <2>2, <2>3 DEF JobsKeep
<1>7. ASSUME NEW j \in DOMAIN jobs, NEW new \in Run, jobs' = [jobs EXCEPT ![j] = new],
             new.profile = jobs[j].profile, jobs[j].phone # Nil => new.phone = jobs[j].phone
      PROVE  /\ JobsKeep /\ jobs'[j] = new /\ DOMAIN jobs' = DOMAIN jobs
             /\ \A k \in DOMAIN jobs : k # j => jobs'[k] = jobs[k]
  BY Zenon, <1>3, <1>7 DEF JobsKeep
<1>8. ASSUME NEW j \in DOMAIN jobs, NEW new \in Run, jobs' = [jobs EXCEPT ![j] = new],
             new.profile = jobs[j].profile, jobs[j].phone # Nil => new.phone = jobs[j].phone,
             new.used = jobs[j].used, UNCHANGED signedIn
      PROVE  Sessions'
  BY Zenon, <1>2, <1>7, <1>8
<1>9. ASSUME NEW j \in DOMAIN jobs, RunJob(j) PROVE Sessions'
  <2> DEFINE new == [jobs[j] EXCEPT !.status = "running"]
  <2>1. /\ new \in Run /\ new.profile = jobs[j].profile /\ new.phone = jobs[j].phone /\ new.used = jobs[j].used
        /\ jobs' = [jobs EXCEPT ![j] = new] /\ UNCHANGED signedIn
    BY Zenon, <1>4, <1>9 DEF Run, Unfinished, RunJob
  <2> HIDE DEF new
  <2> QED
    BY Zenon, <1>8, <2>1
<1>10. ASSUME NEW j \in DOMAIN jobs, LoadCredentials(j) PROVE Sessions'
  <2> DEFINE new == [jobs[j] EXCEPT !.phone = profile[jobs[j].profile].phone]
  <2>1. profile[jobs[j].profile].phone \in Phone
    BY Zenon, <1>4 DEF LakeInv, LakeTypes, Signed, SignedWith, Readings, Stored, Run
  <2>2. /\ new \in Run /\ new.profile = jobs[j].profile /\ new.used = jobs[j].used /\ jobs[j].phone = Nil
        /\ jobs' = [jobs EXCEPT ![j] = new] /\ UNCHANGED signedIn
    BY Zenon, <1>4, <1>10, <2>1 DEF Run, LoadCredentials
  <2> HIDE DEF new
  <2> QED
    BY Zenon, <1>8, <2>2
<1>11. ASSUME NEW j \in DOMAIN jobs, NEW s \in Terminal, EndJob(j, s) PROVE Sessions'
  <2> DEFINE new == [jobs[j] EXCEPT !.status = s, !.finished = clock']
  <2>1. clock' \in Nat
    BY <1>11 DEF EndJob, LakeInv, LakeTypes
  <2>2. /\ new \in Run /\ new.profile = jobs[j].profile /\ new.phone = jobs[j].phone /\ new.used = jobs[j].used
        /\ jobs' = [jobs EXCEPT ![j] = new] /\ UNCHANGED signedIn
    BY Zenon, <1>4, <1>11, <2>1 DEF Run, EndJob
  <2> HIDE DEF new
  <2> QED
    BY Zenon, <1>8, <2>2
<1>12. ASSUME NEW j \in DOMAIN jobs, RunSignsIn(j) PROVE Sessions'
  <2> DEFINE p == jobs[j].profile
             n == IF signedIn[p] # Nil THEN signedIn[p] ELSE jobs[j].phone
             new == [jobs[j] EXCEPT !.used = n]
  <2>1. p \in Profile /\ n \in Phone \cup {Nil}
    BY Zenon, <1>3, <1>4 DEF Run
  <2>2. n # Nil /\ Given(p, n)
    BY Zenon, <1>12, <2>1 DEF RunSignsIn, Sessions, Given
  <2>3. jobs' = [jobs EXCEPT ![j] = new] /\ signedIn' = [signedIn EXCEPT ![p] = n]
    BY Zenon, <1>12 DEF RunSignsIn
  <2> HIDE DEF n
  <2>4. new \in Run /\ new.profile = p /\ new.phone = jobs[j].phone /\ new.used = n
    BY Zenon, <1>4, <2>1 DEF Run
  <2> HIDE DEF new
  <2>5. /\ JobsKeep /\ jobs'[j] = new /\ DOMAIN jobs' = DOMAIN jobs
        /\ \A k \in DOMAIN jobs : k # j => jobs'[k] = jobs[k]
    BY Zenon, <1>7, <2>3, <2>4
  <2>6. GivenNow(p, n)
    BY Zenon, <1>1, <2>2, <2>5
  <2>7. ASSUME NEW q \in Profile, signedIn'[q] # Nil PROVE GivenNow(q, signedIn'[q])
    BY Zenon, <1>1, <1>3, <2>3, <2>5, <2>6, <2>7 DEF Sessions
  <2>8. ASSUME NEW k \in DOMAIN jobs', jobs'[k].used # Nil PROVE GivenNow(jobs'[k].profile, jobs'[k].used)
    BY Zenon, <1>1, <2>4, <2>5, <2>6, <2>8 DEF Sessions
  <2> QED
    BY Zenon, <2>7, <2>8 DEF Sessions, Given, GivenNow
<1>13. ASSUME NEW p \in Profile, YodelSignsOut(p) PROVE Sessions'
  <2>1. jobs' = jobs /\ \A q \in Profile : signedIn'[q] \in {Nil, signedIn[q]}
    BY Zenon, <1>3, <1>13 DEF YodelSignsOut
  <2> QED
    BY Zenon, <1>2, <2>1 DEF JobsKeep
<1>14. ASSUME NEW r \in Request, SignIn(r) \/ Book(r) PROVE Sessions'
  <2>1. CASE SignIn(r)
    <3>1. req[r].profiles \in Readings \cup {<<>>} /\ req[r].profile \in DOMAIN req[r].profiles
      BY Zenon, <2>1 DEF LakeInv, LakeTypes, Asked, SignIn, Enabled
    <3>2. req[r].profile \in Profile
      BY Zenon, <3>1, NothingRead DEF Readings
    <3> QED
      BY Zenon, <1>6, <2>1, <3>2 DEF SignIn
  <2>2. CASE Book(r)
    BY Zenon, <1>6, <2>2 DEF Book, LakeInv, Places
  <2> QED
    BY Zenon, <1>14, <2>1, <2>2
<1>15. ASSUME NEW r \in Request,
              \/ \E op \in Started, p \in Profile : Begin(r, op, p)
              \/ Refuse(r) \/ ReadSettings(r) \/ ResolveAccount(r) \/ ReadProfiles(r)
              \/ Choose(r) \/ Update(r) \/ Reset(r) \/ View(r)
              \/ \E phone \in Phone, e \in BOOLEAN : Create(r, phone, e) \/ Edit(r, phone, e)
       PROVE  Sessions'
  <2>1. UNCHANGED <<jobs, signedIn>>
    BY Zenon, <1>15 DEF Begin, Refuse, ReadSettings, ResolveAccount, ReadProfiles, Choose, Update, Reset, View,
       Create, Edit
  <2> QED
    BY Zenon, <1>5, <2>1
<1>16. CASE LakeNext
  BY ZenonT(30), <1>9, <1>10, <1>11, <1>12, <1>13, <1>14, <1>15, <1>16 DEF LakeNext, LakeStep
<1>17. CASE UNCHANGED lakeVars
  BY Zenon, <1>5, <1>17 DEF lakeVars
<1> QED
  BY Zenon, <1>16, <1>17

\* A connection is shown as verified only by a run that was given a number saved while
\* the page was read: UpdateProfile refuses an edit while a run of the sign-in is pending
\* and stamps the others, and profileConnection leaves out the runs queued before the
\* stamp.  The browser of that run was signed in with a number that a run of the same
\* sign-in was given, since ensure_authenticated keeps a session it finds.
THEOREM ConnectionsAreVerified == LakeSpec => []VerifiedWithSavedNumber
<1>1. LakeInv /\ Sessions => VerifiedWithSavedNumber
  <2> SUFFICES ASSUME LakeInv, Sessions, NEW r \in Request, NEW p \in Profile, req[r].op = "view",
                      req[r].at = "write", Connected(p, req[r].profiles)
               PROVE  LET run == jobs[Latest(VerifiedBy(p, req[r].profiles))]
                      IN  <<p, run.phone>> \in seen[r].numbers /\ Given(p, run.used)
    BY Zenon DEF VerifiedWithSavedNumber
  <2> DEFINE ps == req[r].profiles
             j == Latest(VerifiedBy(p, ps))
  <2>1. VerifiedBy(p, ps) # {} /\ ps[p] # Nil /\ VerifiedBy(p, ps) \in SUBSET DOMAIN jobs
    BY Zenon DEF Connected, Enabled, VerifiedBy, Evidence
  <2>2. j \in VerifiedBy(p, ps)
    BY Zenon, <2>1, LatestIsOne DEF LakeInv
  <2> HIDE DEF j
  <2>3. j \in DOMAIN jobs /\ jobs[j].profile = p /\ jobs[j].created >= ps[p].updated /\ jobs[j].status = "succeeded"
    BY Zenon, <2>2 DEF VerifiedBy, Evidence
  <2>4. jobs[j].used # Nil /\ jobs[j].phone # Nil
    BY Zenon, <2>3 DEF LakeInv, Signed, SignedWith
  <2>5. <<p, jobs[j].phone>> \in seen[r].numbers
    BY Zenon, <2>1, <2>3, <2>4 DEF LakeInv, Witnessed
  <2>6. Given(p, jobs[j].used)
    BY Zenon, <2>3, <2>4 DEF Sessions
  <2> QED
    BY Zenon, <2>5, <2>6 DEF j
<1>2. LakeInit => Sessions
  <2> SUFFICES ASSUME LakeInit PROVE Sessions
    BY Zenon
  <2>1. DOMAIN jobs = {}
    BY NothingRead DEF LakeInit
  <2> QED
    BY Zenon, <2>1 DEF LakeInit, Sessions
<1> QED
  BY <1>1, <1>2, SessionsInductive, LakeInvariantHolds, PTL DEF LakeSpec

\* A booking has read a choice that was saved since it started, and what it has resolved
\* it to was that choice or, without one, the only enabled sign-in.
Allowed ==
  \A r \in Request : req[r].op = "book" =>
    /\ req[r].at = "profiles" => Choice(req[r].row) \in seen[r].choices
    /\ req[r].at = "write" => \/ req[r].profile \in seen[r].choices
                              \/ Nil \in seen[r].choices /\ req[r].profile \in seen[r].sole

\* Finitely many sign-ins are saved, so that ResolveLakeBookingProfile can count them.
SavedSignIns == {p \in Profile : profile[p] # Nil}
BookingInv == LakeInv /\ Allowed /\ IsFiniteSet(SavedSignIns)

\* While a booking runs, what it has seen grows by what is saved.
LEMMA ChoicesGrow ==
  ASSUME LakeNext, NEW r \in Request, req'[r].op = "book"
  PROVE  /\ seen[r].choices \subseteq seen'[r].choices /\ Choice(row') \in seen'[r].choices
         /\ seen[r].sole \subseteq seen'[r].sole /\ Sole' \subseteq seen'[r].sole
<1>1. /\ seen'[r].choices = seen[r].choices \cup {Choice(row')}
      /\ seen'[r].sole = seen[r].sole \cup Sole'
  BY Zenon DEF LakeNext, Saw
<1> QED
  BY Zenon, <1>1

\* ResolveLakeBookingProfile returns the choice it is given, or the only enabled sign-in
\* when it is given none.
LEMMA ResolvesAsSaved ==
  ASSUME BookingInv, NEW choice, ResolveLakeBookingProfile(choice, profile) # Nil
  PROVE  \/ ResolveLakeBookingProfile(choice, profile) = choice
         \/ choice = Nil /\ ResolveLakeBookingProfile(choice, profile) \in Sole
<1> DEFINE on == Enabled(profile)
           found == ResolveLakeBookingProfile(choice, profile)
<1>1. on \in SUBSET SavedSignIns
  BY Zenon DEF Enabled, SavedSignIns, BookingInv, LakeInv, LakeTypes, Readings
<1>2. IsFiniteSet(on)
  BY Zenon, <1>1, FS_Subset DEF BookingInv
<1>3. Cardinality(on) = 1 => \E p : on = {p}
  BY Zenon, <1>2, FS_Singleton
<1>4. \/ found = choice
      \/ choice = Nil /\ Cardinality(on) = 1 /\ found = CHOOSE p \in on : TRUE
  BY Zenon DEF ResolveLakeBookingProfile
<1>5. CASE choice = Nil /\ Cardinality(on) = 1 /\ found = CHOOSE p \in on : TRUE
  <2>1. PICK p : on = {p}
    BY Zenon, <1>3, <1>5
  <2>2. found = p /\ p \in Profile
    BY Zenon, <1>1, <1>5, <2>1 DEF SavedSignIns
  <2> QED
    BY Zenon, <1>5, <2>1, <2>2 DEF Sole
<1> QED
  BY Zenon, <1>4, <1>5

\* What a step does to a request: nothing, its response, its start, or one of its reads.
LEMMA RequestSteps ==
  ASSUME LakeTypes, LakeNext, NEW r \in Request
  PROVE  \/ req'[r] = req[r] \/ req'[r] = NoRequest \/ req'[r].at = "read"
         \/ ReadSettings(r) \/ ResolveAccount(r) \/ ReadProfiles(r)
<1>1. \A q \in Request : \A new : req' = [req EXCEPT ![q] = new] => req'[q] = new /\ (r # q => req'[r] = req[r])
  BY Zenon DEF LakeTypes
<1>2. ASSUME NEW q \in Request, Respond(q) PROVE req'[r] = req[r] \/ req'[r] = NoRequest
  BY Zenon, <1>1, <1>2 DEF Respond
<1>3. ASSUME NEW q \in Request, NEW op \in Started, NEW p \in Profile, Begin(q, op, p)
      PROVE  req'[r] = req[r] \/ req'[r].at = "read"
  <2> DEFINE new == [NoRequest EXCEPT !.op = op, !.at = "read", !.profile = p]
  <2>1. req' = [req EXCEPT ![q] = new] /\ new.at = "read"
    BY Zenon, <1>3, IdleRequest DEF Begin, Asked
  <2> HIDE DEF new
  <2> QED
    BY Zenon, <1>1, <2>1
<1>4. ASSUME NEW q \in Request, q # r, ReadSettings(q) \/ ResolveAccount(q) \/ ReadProfiles(q)
      PROVE  req'[r] = req[r]
  BY Zenon, <1>4 DEF ReadSettings, ResolveAccount, ReadProfiles, Respond, LakeTypes
<1>5. ASSUME NEW q \in Request, Refuse(q) \/ View(q) \/ Choose(q) \/ Update(q) \/ Reset(q) \/ SignIn(q) \/ Book(q)
      PROVE  Respond(q)
  BY Zenon, <1>5 DEF Refuse, View, Choose, Update, Reset, SignIn, Book
<1>6. ASSUME NEW q \in Request, NEW phone \in Phone, NEW e \in BOOLEAN, Create(q, phone, e) \/ Edit(q, phone, e)
      PROVE  Respond(q)
  BY Zenon, <1>6 DEF Create, Edit
<1>7. ASSUME \/ \E j \in DOMAIN jobs :
                 RunJob(j) \/ LoadCredentials(j) \/ RunSignsIn(j) \/ \E s \in Terminal : EndJob(j, s)
             \/ \E p \in Profile : YodelSignsOut(p)
      PROVE  req' = req
  BY Zenon, <1>7 DEF RunJob, LoadCredentials, RunSignsIn, EndJob, YodelSignsOut
<1>8. LakeStep
  BY Zenon DEF LakeNext
<1> QED
  BY ZenonT(30), <1>2, <1>3, <1>4, <1>5, <1>6, <1>7, <1>8 DEF LakeStep

\* A step saves at most one sign-in.
LEMMA OneSignInSaved ==
  ASSUME LakeTypes, LakeNext, IsFiniteSet(SavedSignIns)
  PROVE  IsFiniteSet(SavedSignIns')
<1>1. \E p : SavedSignIns' \subseteq SavedSignIns \cup {p}
  <2>1. ASSUME profile' = profile PROVE SavedSignIns' \subseteq SavedSignIns \cup {Nil}
    BY Zenon, <2>1 DEF SavedSignIns
  <2>2. ASSUME NEW p, NEW new, profile' = [profile EXCEPT ![p] = new]
        PROVE  SavedSignIns' \subseteq SavedSignIns \cup {p}
    BY Zenon, <2>2 DEF SavedSignIns, LakeTypes, Readings
  <2>3. ASSUME NEW q \in Request, NEW phone \in Phone, NEW e \in BOOLEAN, Create(q, phone, e) \/ Edit(q, phone, e)
        PROVE  \E p : SavedSignIns' \subseteq SavedSignIns \cup {p}
    BY Zenon, <2>2, <2>3 DEF Create, Edit
  <2>4. ASSUME NEW q \in Request,
               \/ \E op \in Started, p \in Profile : Begin(q, op, p)
               \/ Refuse(q) \/ ReadSettings(q) \/ ResolveAccount(q) \/ ReadProfiles(q)
               \/ Choose(q) \/ Update(q) \/ Reset(q) \/ SignIn(q) \/ Book(q) \/ View(q)
        PROVE  profile' = profile
    BY Zenon, <2>4 DEF Begin, Refuse, ReadSettings, ResolveAccount, ReadProfiles, Choose, Update, Reset,
       SignIn, Book, View
  <2>5. ASSUME \/ \E j \in DOMAIN jobs :
                   RunJob(j) \/ LoadCredentials(j) \/ RunSignsIn(j) \/ \E s \in Terminal : EndJob(j, s)
               \/ \E p \in Profile : YodelSignsOut(p)
        PROVE  profile' = profile
    BY Zenon, <2>5 DEF RunJob, LoadCredentials, RunSignsIn, EndJob, YodelSignsOut
  <2>6. LakeStep
    BY Zenon DEF LakeNext
  <2> QED
    BY ZenonT(30), <2>1, <2>3, <2>4, <2>5, <2>6 DEF LakeStep
<1>2. PICK p : SavedSignIns' \subseteq SavedSignIns \cup {p}
  BY Zenon, <1>1
<1>3. IsFiniteSet(SavedSignIns \cup {p})
  BY Zenon, FS_AddElement
<1> QED
  BY Zenon, <1>2, <1>3, FS_Subset

\* Every step keeps the invariant, whatever is saved between the reads of a booking.
LEMMA BookingInductive ==
  ASSUME BookingInv, [LakeNext]_lakeVars
  PROVE  BookingInv'
<1>0. LakeInv /\ LakeTypes /\ Allowed /\ IsFiniteSet(SavedSignIns) /\ req \in [Request -> Asked]
  BY Zenon DEF BookingInv, LakeInv, LakeTypes
<1>1. LakeInv'
  BY Zenon, <1>0, LakeInductive
<1>2. CASE UNCHANGED lakeVars
  <2>1. UNCHANGED <<profile, req, seen>>
    BY Zenon, <1>2 DEF lakeVars
  <2> QED
    BY Zenon, <1>0, <1>1, <2>1 DEF BookingInv, Allowed, Choice, SavedSignIns
<1>3. CASE LakeNext
  <2> SUFFICES ASSUME NEW r \in Request, req'[r].op = "book"
               PROVE  /\ req'[r].at = "profiles" => Choice(req'[r].row) \in seen'[r].choices
                      /\ req'[r].at = "write" => \/ req'[r].profile \in seen'[r].choices
                                                 \/ Nil \in seen'[r].choices /\ req'[r].profile \in seen'[r].sole
    BY Zenon, <1>0, <1>1, <1>3, OneSignInSaved DEF BookingInv, Allowed, Choice
  <2>1. /\ seen[r].choices \subseteq seen'[r].choices /\ Choice(row') \in seen'[r].choices
        /\ seen[r].sole \subseteq seen'[r].sole /\ Sole' \subseteq seen'[r].sole
    BY Zenon, <1>3, ChoicesGrow
  <2>2. req'[r] # NoRequest
    BY Zenon, IdleRequest
  <2>3. CASE req'[r] = req[r]
    BY Zenon, <1>0, <2>1, <2>3 DEF Allowed
  <2>4. CASE req'[r].at = "read"
    BY Zenon, <2>4
  <2>5. CASE ReadSettings(r)
    <3>1. /\ row' = row /\ req'[r].row = row /\ req'[r].op = req[r].op
          /\ (req[r].op = "book" => req'[r].at = "profiles")
      BY Zenon, <1>0, <2>5 DEF ReadSettings, Asked
    <3> QED
      BY Zenon, <2>1, <3>1
  <2>6. CASE ReadProfiles(r)
    <3>1. req'[r].op = req[r].op /\ req[r].op # "book"
      BY Zenon, <1>0, <2>6 DEF ReadProfiles, Asked
    <3> QED
      BY Zenon, <3>1
  <2>7. CASE ResolveAccount(r)
    <3> DEFINE choice == IF req[r].op = "choose" THEN req[r].profile ELSE Choice(req[r].row)
               found == ResolveLakeBookingProfile(choice, profile)
               new == [req[r] EXCEPT !.profile = found, !.at = "write"]
    <3>1. found # Nil /\ req' = [req EXCEPT ![r] = new]
      BY Zenon, <1>0, <2>2, <2>7 DEF ResolveAccount, Respond
    <3>2. req[r] \in Asked /\ req[r].at = "profiles" /\ UNCHANGED profile
      BY Zenon, <1>0, <2>7 DEF ResolveAccount
    <3> HIDE DEF found
    <3>3. new.op = req[r].op /\ new.profile = found /\ new.at = "write"
      BY Zenon, <3>2 DEF Asked
    <3> HIDE DEF new
    <3>4. req'[r].op = req[r].op /\ req'[r].profile = found /\ req'[r].at = "write"
      BY Zenon, <1>0, <3>1, <3>3
    <3>5. choice \in seen'[r].choices
      BY Zenon, <1>0, <2>1, <3>2, <3>4 DEF Allowed
    <3> HIDE DEF choice
    <3>6. found = choice \/ (choice = Nil /\ found \in Sole)
      BY Zenon, <3>1, ResolvesAsSaved DEF found
    <3>7. Sole' = Sole
      BY Zenon, <3>2 DEF Sole, Enabled
    <3> QED
      BY Zenon, <2>1, <3>4, <3>5, <3>6, <3>7
  <2> QED
    BY Zenon, <1>0, <1>3, <2>2, <2>3, <2>4, <2>5, <2>6, <2>7, RequestSteps
<1> QED
  BY Zenon, <1>2, <1>3

\* Whatever is saved while settings and sign-ins are read, lakeBookingSetup finds only an
\* account that was the saved choice during the request or, if there was a moment without
\* a choice, the only enabled one.
THEOREM BookingsAreAsSaved == LakeSpec => BookedAsSaved
<1>1. LakeInit => Allowed /\ IsFiniteSet(SavedSignIns)
  <2> SUFFICES ASSUME LakeInit PROVE Allowed /\ IsFiniteSet(SavedSignIns)
    BY Zenon
  <2>1. \A r \in Request : req[r].op # "book"
    BY Zenon, IdleRequest DEF LakeInit
  <2>2. SavedSignIns = {}
    BY Zenon DEF LakeInit, SavedSignIns
  <2> QED
    BY Zenon, <2>1, <2>2, FS_EmptySet DEF Allowed
<1>2. ASSUME BookingInv, [LakeNext]_lakeVars
      PROVE  [\A r \in Request : Booked(r) =>
                \/ req[r].profile \in seen[r].choices
                \/ Nil \in seen[r].choices /\ req[r].profile \in seen[r].sole]_lakeVars
  <2> SUFFICES ASSUME LakeNext, NEW r \in Request, req[r].op = "book", Len(jobs') > Len(jobs), req'[r] # req[r]
               PROVE  \/ req[r].profile \in seen[r].choices
                      \/ Nil \in seen[r].choices /\ req[r].profile \in seen[r].sole
    BY Zenon, <1>2 DEF Booked
  <2>0. LakeTypes /\ Allowed /\ jobs \in Seq(Run)
    BY Zenon, <1>2 DEF BookingInv, LakeInv, LakeTypes
  <2>1. jobs' # jobs
    BY <2>0
  <2>2. ASSUME NEW q \in Request, SignIn(q) PROVE FALSE
    <3>1. req[q].op = "sign-in" /\ req' = [req EXCEPT ![q] = NoRequest]
      BY Zenon, <2>2 DEF SignIn, Respond
    <3> QED
      BY Zenon, <2>0, <3>1 DEF LakeTypes
  <2>3. ASSUME NEW q \in Request, Book(q) PROVE q = r /\ req[r].at = "write"
    BY Zenon, <2>0, <2>3 DEF LakeTypes, Book, Respond
  <2>4. ASSUME NEW q \in Request,
               \/ \E op \in Started, p \in Profile : Begin(q, op, p)
               \/ Refuse(q) \/ ReadSettings(q) \/ ResolveAccount(q) \/ ReadProfiles(q)
               \/ Choose(q) \/ Update(q) \/ Reset(q) \/ View(q)
               \/ \E phone \in Phone, e \in BOOLEAN : Create(q, phone, e) \/ Edit(q, phone, e)
        PROVE  jobs' = jobs
    BY Zenon, <2>4 DEF Begin, Refuse, ReadSettings, ResolveAccount, ReadProfiles, Choose, Update, Reset, View,
       Create, Edit
  <2>5. ASSUME \/ \E j \in DOMAIN jobs :
                   RunJob(j) \/ LoadCredentials(j) \/ RunSignsIn(j) \/ \E s \in Terminal : EndJob(j, s)
               \/ \E p \in Profile : YodelSignsOut(p)
        PROVE  req' = req
    BY Zenon, <2>5 DEF RunJob, LoadCredentials, RunSignsIn, EndJob, YodelSignsOut
  <2>6. LakeStep
    BY Zenon DEF LakeNext
  <2>7. req[r].at = "write"
    BY ZenonT(30), <2>1, <2>2, <2>3, <2>4, <2>5, <2>6 DEF LakeStep
  <2> QED
    BY Zenon, <2>0, <2>7 DEF Allowed
<1>3. LakeSpec => []BookingInv
  <2>1. LakeInv /\ Allowed /\ IsFiniteSet(SavedSignIns) => BookingInv
    BY Zenon DEF BookingInv
  <2> QED
    BY <1>1, <2>1, LakeInvariantHolds, BookingInductive, PTL DEF LakeSpec
<1> QED
  BY <1>2, <1>3, PTL DEF LakeSpec, BookedAsSaved
=============================================================================
