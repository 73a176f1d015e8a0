--------------------------- MODULE JobStoreProofs ---------------------------
(***************************************************************************)
(* Theorems about JobStore, for every number of accounts, profiles, jobs   *)
(* and dates and every value of the limits.                                *)
(***************************************************************************)
EXTENDS JobContract, TLAPS

Table == [JobId -> Job \cup {Unused, Gone}]
DatesOK(js) ==
  \A j \in JobId : js[j].status \in Row /\ js[j].command = "book" => js[j].date \in Dates

\* Deleting rows keeps the table's type.
LEMMA DeletedType ==
  ASSUME NEW js \in Table, DatesOK(js), NEW D
  PROVE  Deleted(js, D) \in Table /\ DatesOK(Deleted(js, D))
BY Zenon DEF Table, DatesOK, Deleted, Gone, Row, Pending, Active, Terminal, Prunable

\* The triggers leave a reservation, release it or detach it.
LEMMA ReservationsType ==
  ASSUME TypeOK, NEW js \in Table, NEW touched \in SUBSET JobId, NEW D
  PROVE  Reservations(js, touched, D) \in [Slots -> JobId \cup {NoReservation, Detached}]
BY Zenon DEF TypeOK, Reservations

\* A status update followed by its triggers keeps both tables' types.
LEMMA SettleType ==
  ASSUME TypeOK, NEW js \in Table, DatesOK(js), NEW touched \in SUBSET JobId, NEW keep,
         Settle(js, touched, keep)
  PROVE  /\ jobs' \in Table /\ DatesOK(jobs')
         /\ resv' \in [Slots -> JobId \cup {NoReservation, Detached}]
BY DeletedType, ReservationsType DEF Settle, Trim

\* Setting one row's status keeps the table's type.
LEMMA RowStatusType ==
  ASSUME NEW js \in Table, DatesOK(js), NEW j \in JobId, js[j] \in Job, NEW st \in Row
  PROVE  [js EXCEPT ![j].status = st] \in Table /\ DatesOK([js EXCEPT ![j].status = st])
<1>1. [js[j] EXCEPT !.status = st] \in Job
  BY Zenon DEF Job
<1> QED
  BY Zenon, <1>1 DEF Table, DatesOK, Job

\* A row in one of the statuses of a stored job is a job record.
LEMMA RowIsJob ==
  ASSUME TypeOK, NEW j \in JobId, NEW S \in SUBSET Row, Is(j, S)
  PROVE  jobs[j] \in Job
BY DEF TypeOK, Is, Row, Pending, Active, Terminal, Prunable, Unused, Gone

\* Rows keep their type when stale jobs fail, a claim starts one, a restart
\* recovers the active ones, or an account's work is cancelled.
LEMMA StatusUpdateType ==
  ASSUME TypeOK, NEW f \in [JobId -> Row], NEW S \in SUBSET JobId,
         \A j \in S : Is(j, Row)
  PROVE  LET js == [j \in JobId |-> IF j \in S THEN WithStatus(j, f[j]) ELSE jobs[j]]
         IN  js \in Table /\ DatesOK(js)
<1>1. \A j \in S : jobs[j] \in Job
  BY DEF TypeOK, Is, Row, Pending, Active, Terminal, Prunable, Unused, Gone
<1>2. \A j \in S : WithStatus(j, f[j]) \in Job /\ WithStatus(j, f[j]).command = jobs[j].command
                  /\ WithStatus(j, f[j]).date = jobs[j].date
  BY ZenonT(30), <1>1 DEF Job, WithStatus
<1> QED
  BY Zenon, <1>1, <1>2 DEF TypeOK, Table, DatesOK, Is, IsBook

\* Failing the stale jobs keeps the table's type.
LEMMA ExpiredType ==
  ASSUME TypeOK
  PROVE  Expired \in Table /\ DatesOK(Expired)
<1> DEFINE f == [j \in JobId |-> "failed"]
<1>1. f \in [JobId -> Row] /\ \A j \in StaleJobs : Is(j, Row) /\ j \in JobId
  BY Zenon DEF Row, Pending, Terminal, Prunable, StaleJobs, Stale, Is
<1>2. Expired = [j \in JobId |-> IF j \in StaleJobs THEN WithStatus(j, f[j]) ELSE jobs[j]]
  BY Zenon DEF Expired, StaleJobs
<1> HIDE DEF f
<1> QED
  BY Zenon, <1>1, <1>2, StatusUpdateType

\* Start-up recovery keeps the table's type.
LEMMA RecoveredType ==
  ASSUME TypeOK
  PROVE  Recovered \in Table /\ DatesOK(Recovered)
<1> DEFINE f == [j \in JobId |-> IF jobs[j].conf THEN "outcome_unknown" ELSE "interrupted"]
<1>1. f \in [JobId -> Row] /\ \A j \in ActiveJobs : Is(j, Row) /\ j \in JobId
  BY Zenon DEF Row, Pending, Terminal, Prunable, ActiveJobs, Is
<1>2. Recovered = [j \in JobId |-> IF j \in ActiveJobs THEN WithStatus(j, f[j]) ELSE jobs[j]]
  BY Zenon DEF Recovered, ActiveJobs
<1> HIDE DEF f
<1> QED
  BY Zenon, <1>1, <1>2, StatusUpdateType

\* Cancelling a row sets the flag, and its status when it was queued.
LEMMA CancelRowType ==
  ASSUME NEW row \in Job
  PROVE  /\ CancelRow(row) \in Job
         /\ CancelRow(row).command = row.command /\ CancelRow(row).date = row.date
         /\ CancelRow(row).profile = row.profile /\ CancelRow(row).source = row.source
         /\ CancelRow(row).conf = row.conf /\ CancelRow(row).cancel
         /\ CancelRow(row).status = IF row.status = "queued" THEN "cancelled" ELSE row.status
BY Zenon DEF CancelRow, Job, Row, Terminal, Prunable

\* Every kind of job callers queue has a command and Boolean flags.
LEMMA KindType ==
  ASSUME NEW kind \in Kinds
  PROVE  /\ kind.command \in {"auth-check", "dry-run", "book"}
         /\ kind.request \in BOOLEAN /\ kind.pairing \in BOOLEAN /\ kind.dedup \in BOOLEAN
<1>1. CASE \E c \in Commands : kind = FromRequest(c)
  BY <1>1, OwnerAssumption DEF FromRequest, OwnerAssumption
<1>2. CASE \E b \in BOOLEAN : kind = SignIn(b)
  BY <1>2 DEF SignIn
<1>3. CASE kind = PairingOnly
  BY Zenon, <1>3 DEF PairingOnly
<1> QED
  BY Zenon, <1>1, <1>2, <1>3 DEF Kinds

\* An admitted job is a job record with its kind's command.
LEMMA NewJobType ==
  ASSUME NEW p \in Profiles, NEW s \in Sources, NEW kind \in Kinds, NEW d \in Dates,
         now \in Nat, NEW due \in {now, now + 1}
  PROVE  /\ NewJob(p, s, kind, d, due) \in Job
         /\ NewJob(p, s, kind, d, due).command = kind.command
         /\ kind.command = "book" => NewJob(p, s, kind, d, due).date \in Dates
<1>1. /\ kind.command \in {"auth-check", "dry-run", "book"}
      /\ kind.request \in BOOLEAN /\ kind.pairing \in BOOLEAN
  BY Zenon, KindType
<1>2. due \in Nat /\ (IF kind.command = "book" THEN due + 1 ELSE NoExpiry) \in Nat
      /\ (IF kind.command = "book" THEN d ELSE 0) \in Nat
  BY BoundsAssumption DEF BoundsAssumption, NoExpiry
<1>3. "queued" \in Row
  BY Zenon DEF Row, Pending
<1> QED
  BY Zenon, <1>1, <1>2, <1>3 DEF NewJob, Job

\* The types of all columns are preserved by every store call.
THEOREM TypeCorrect == Spec => []TypeOK
<1> USE BoundsAssumption, OwnerAssumption DEF BoundsAssumption, OwnerAssumption
<1>1. Init => TypeOK
  BY DEF Init, TypeOK, Is, Unused, Row, Pending, Active, Terminal, Prunable, NoReservation
<1>2. TypeOK /\ [Next]_vars => TypeOK'
  <2> SUFFICES ASSUME TypeOK, [Next]_vars PROVE TypeOK'
    BY Zenon
  <2> DEFINE RowTypes == jobs \in Table /\ DatesOK(jobs)
  <2>0. RowTypes /\ (RowTypes' => jobs' \in [JobId -> Job \cup {Unused, Gone}]
                    /\ \A j \in JobId : jobs'[j].status \in Row /\ jobs'[j].command = "book" => jobs'[j].date \in Dates)
    BY Zenon DEF TypeOK, Table, DatesOK, Is, IsBook
  <2>1. CASE Enqueue
    <3>1. PICK p \in Profiles, s \in Sources, kind \in Kinds, d \in Dates, zone \in ZoneOffsets,
               due \in {now, now + 1} : EnqueueJob(p, s, kind, d, zone, due)
      BY Zenon, <2>1 DEF Enqueue
    <3>2. PICK D \in Trim(jobs, {}), j \in JobId :
               /\ jobs' = [Deleted(jobs, D) EXCEPT ![j] = NewJob(p, s, kind, d, due)]
               /\ resv' = [x \in Slots |-> IF kind.command = "book" /\ x = <<p, d>> THEN j
                                          ELSE Reservations(jobs, {}, D)[x]]
      BY Zenon, <3>1 DEF EnqueueJob
    <3>3. NewJob(p, s, kind, d, due) \in Job /\ NewJob(p, s, kind, d, due).command = kind.command
          /\ (kind.command = "book" => NewJob(p, s, kind, d, due).date \in Dates)
      BY NewJobType DEF TypeOK
    <3>4. RowTypes'
      BY Zenon, <2>0, <3>2, <3>3, DeletedType DEF Table, DatesOK
    <3>5. resv' \in [Slots -> JobId \cup {NoReservation, Detached}]
      BY <2>0, <3>2, ReservationsType
    <3> QED
      BY Zenon, <2>0, <3>1, <3>4, <3>5 DEF EnqueueJob, TypeOK, Is, IsBook
  <2>2. CASE SystemExpireStaleJobs
    <3>1. Expired \in Table /\ DatesOK(Expired)
      BY Zenon, ExpiredType
    <3> QED
      BY Zenon, <2>0, <2>2, <3>1, SettleType DEF SystemExpireStaleJobs, StaleJobs, TypeOK, Is, IsBook
  <2>3. CASE SystemRecoverInterruptedJobs
    <3>1. Recovered \in Table /\ DatesOK(Recovered)
      BY RecoveredType
    <3> QED
      BY Zenon, <2>0, <2>3, <3>1, SettleType DEF SystemRecoverInterruptedJobs, ActiveJobs, TypeOK, Is, IsBook
  <2>4. CASE SystemPruneTerminalJobs
    <3>1. PICK D \in Trim(jobs, {}) :
            /\ jobs' = Deleted(jobs, D)
            /\ resv' = [s \in Slots |-> IF resv[s] = Detached /\ PastEverywhere(s[2])
                                         THEN NoReservation ELSE Reservations(jobs, {}, D)[s]]
      BY Zenon, <2>4 DEF SystemPruneTerminalJobs
    <3>2. RowTypes'
      BY Zenon, <2>0, <3>1, DeletedType
    <3>3. resv' \in [Slots -> JobId \cup {NoReservation, Detached}]
      BY <2>0, <3>1, ReservationsType
    <3> QED
      BY Zenon, <2>0, <2>4, <3>2, <3>3 DEF SystemPruneTerminalJobs, TypeOK, Is, IsBook
  <2>5. CASE Tick
    BY <2>5 DEF Tick, TypeOK, Is, IsBook
  <2>6. ASSUME NEW j \in JobId, SystemClaimNextDueJobAt(j) PROVE TypeOK'
    <3> DEFINE js == [Expired EXCEPT ![j].status = "running"]
    <3>1. Is(j, {"queued"}) /\ ~Stale(j)
      BY Zenon, <2>6 DEF SystemClaimNextDueJobAt, Candidate
    <3>2. Expired[j] \in Job
      BY Zenon, <3>1, RowIsJob DEF Expired, Row, Pending
    <3>3. js \in Table /\ DatesOK(js)
      BY Zenon, <3>2, ExpiredType, RowStatusType DEF Row, Pending, Active
    <3> HIDE DEF js
    <3>4. Settle(js, StaleJobs, {})
      BY Zenon, <2>6 DEF SystemClaimNextDueJobAt, js
    <3> QED
      BY Zenon, <2>0, <2>6, <3>3, <3>4, SettleType DEF SystemClaimNextDueJobAt, StaleJobs, TypeOK, Is, IsBook
  <2>7. ASSUME NEW j \in JobId, NEW r \in Requests, SystemTransitionJob(j, r[1], r[2])
        PROVE  TypeOK'
    <3>1. r[1] \in SUBSET Row /\ r[2] \in Row
      BY DEF Requests, Row, Pending, Active, Terminal, Prunable
    <3>2. jobs[j] \in Job
      BY Zenon, <2>7, <3>1, RowIsJob DEF SystemTransitionJob
    <3>3. CASE r[2] \in Active
      <4>1. RowTypes' /\ UNCHANGED resv
        BY <2>0, <2>7, <3>1, <3>2, <3>3, RowStatusType
           DEF SystemTransitionJob, Active, Terminal, Prunable
      <4> QED
        BY Zenon, <2>0, <2>7, <4>1 DEF SystemTransitionJob, TypeOK, Is, IsBook
    <3>4. CASE r[2] \notin Active
      <4> DEFINE js == [jobs EXCEPT ![j].status = Resolve(j, r[2])]
      <4>1. Resolve(j, r[2]) \in Row
        BY Zenon, <3>1 DEF Resolve, Row, Terminal, Prunable
      <4>2. js \in Table /\ DatesOK(js)
        BY Zenon, <2>0, <3>2, <4>1, RowStatusType
      <4> HIDE DEF js
      <4>3. Settle(js, {j}, {j})
        BY Zenon, <2>7, <3>4 DEF SystemTransitionJob, js
      <4> QED
        BY Zenon, <2>0, <2>7, <4>2, <4>3, SettleType DEF SystemTransitionJob, TypeOK, Is, IsBook
    <3> QED
      BY Zenon, <3>3, <3>4
  <2>8. ASSUME NEW j \in JobId, SystemMarkConfirmationStarted(j) PROVE TypeOK'
    <3>1. jobs[j] \in Job
      BY Zenon, <2>8, RowIsJob DEF SystemMarkConfirmationStarted, Row, Pending
    <3>2. [jobs[j] EXCEPT !.conf = TRUE] \in Job
      BY Zenon, <3>1 DEF Job
    <3>3. RowTypes'
      BY ZenonT(30), <2>0, <2>8, <3>1, <3>2 DEF SystemMarkConfirmationStarted, Table, DatesOK, Job
    <3>4. confirmed' \subseteq Slots \X JobId
      BY <2>8, <3>1 DEF SystemMarkConfirmationStarted, TypeOK, SlotOf, Slots, Is, Row, Pending, IsBook, Job
    <3> QED
      BY Zenon, <2>0, <2>8, <3>3, <3>4 DEF SystemMarkConfirmationStarted, TypeOK, Is, IsBook
  <2>9. ASSUME NEW j \in JobId, RequestJobCancellation(j) PROVE TypeOK'
    <3> DEFINE js == [jobs EXCEPT ![j] = CancelRow(@)]
    <3>1. jobs[j] \in Job
      BY Zenon, <2>9, RowIsJob DEF RequestJobCancellation, Row, Pending, Terminal, Prunable
    <3>2. js \in Table /\ DatesOK(js)
      BY <2>0, <2>9, <3>1, CancelRowType
         DEF RequestJobCancellation, Table, DatesOK, Is, Row, Pending, Terminal, Prunable
    <3> HIDE DEF js
    <3>3. Settle(js, {j}, {j})
      BY Zenon, <2>9 DEF RequestJobCancellation, js
    <3> QED
      BY ZenonT(30), <2>0, <2>9, <3>2, <3>3, SettleType DEF RequestJobCancellation, TypeOK, Is, IsBook
  <2>10. ASSUME NEW u \in Users, DisableUser(u) PROVE TypeOK'
    <3> DEFINE js == [j \in JobId |-> IF j \in PendingOf(u) THEN CancelRow(jobs[j]) ELSE jobs[j]]
    <3>1. \A j \in PendingOf(u) : j \in JobId /\ Is(j, Row) /\ jobs[j] \in Job
      BY Zenon, RowIsJob DEF PendingOf, Row, Is
    <3>2. js \in Table /\ DatesOK(js)
      BY ZenonT(30), <2>0, <3>1, CancelRowType DEF Table, DatesOK, Is
    <3> HIDE DEF js
    <3>3. Settle(js, PendingOf(u), {})
      BY Zenon, <2>10 DEF DisableUser, js
    <3> QED
      BY Zenon, <2>0, <2>10, <3>1, <3>2, <3>3, SettleType DEF DisableUser, TypeOK, Is, IsBook
  <2>11. ASSUME NEW u \in Users, EnableUser(u) PROVE TypeOK'
    BY Zenon, <2>11 DEF EnableUser, TypeOK, Is, IsBook
  <2>12. ASSUME NEW u \in Users, DeleteMember(u) PROVE TypeOK'
    <3>1. RowTypes'
      BY Zenon, <2>0, <2>12, DeletedType DEF DeleteMember
    <3> QED
      BY Zenon, <2>0, <2>12, <3>1 DEF DeleteMember, TypeOK, Is, IsBook
  <2>13. ASSUME NEW p \in Profiles, NEW e \in {"enabled", "disabled"}, UpdateProfile(p, e)
         PROVE  TypeOK'
    BY Zenon, <2>13 DEF UpdateProfile, TypeOK, Is, IsBook
  <2>14. ASSUME NEW p \in Profiles, DeleteProfile(p) PROVE TypeOK'
    BY Zenon, <2>14 DEF DeleteProfile, TypeOK, Is, IsBook
  <2>15. CASE UNCHANGED vars
    BY Zenon, <2>15 DEF vars, TypeOK, Is, IsBook
  <2> QED
    BY Zenon, <2>1, <2>2, <2>3, <2>4, <2>5, <2>6, <2>7, <2>8, <2>9, <2>10, <2>11, <2>12, <2>13, <2>14, <2>15
       DEF Next
<1> QED
  BY <1>1, <1>2, PTL DEF Spec

-----------------------------------------------------------------------------
(***************************************************************************)
(* The booking guard.  OneConfirmationPerDate is not inductive: a second   *)
(* confirmation is excluded because a pending booking holds its slot, and  *)
(* because a confirmed slot is not handed out again.                       *)
(***************************************************************************)
\* ConfirmedDatesStayGuarded with the date test the pruning statement uses.
ConfirmedGuard ==
  \A c \in confirmed :
    \/ resv[c[1]] = c[2] /\ jobs[c[2]].conf
    \/ resv[c[1]] = Detached
    \/ /\ resv[c[1]] = NoReservation
       /\ PastEverywhere(c[1][2]) \/ profile[c[1][1]] = "deleted"

GuardInv ==
  /\ ReservationsMatchJobs
  /\ ConfirmedGuard
  /\ OneConfirmationPerDate

\* js changes statuses only: it keeps each row's slot, command and mark,
\* makes no job pending, and makes jobs retryable only among touched.
Rewrites(js, touched) ==
  /\ \A j \in JobId : Is(j, Row) =>
       /\ js[j].status \in Row
       /\ js[j].profile = jobs[j].profile /\ js[j].source = jobs[j].source
       /\ js[j].command = jobs[j].command
       /\ js[j].date = jobs[j].date /\ js[j].conf = jobs[j].conf
       /\ js[j].status \in Pending => Is(j, Pending)
       /\ j \notin touched => (Releasable(js[j]) => Releasable(jobs[j]))
  /\ \A j \in JobId : ~Is(j, Row) => js[j] = jobs[j]

\* Such an update, with its triggers, keeps the guard.
LEMMA SettleGuard ==
  ASSUME TypeOK, GuardInv, NEW js \in Table, NEW touched \in SUBSET JobId, NEW keep,
         Rewrites(js, touched), Settle(js, touched, keep), UNCHANGED <<profile, now, confirmed>>
  PROVE  GuardInv'
<1>1. PICK D \in SUBSET JobId : jobs' = Deleted(js, D) /\ resv' = Reservations(js, touched, D)
  BY Zenon DEF Settle, Trim
<1>2. NoReservation \notin JobId /\ Detached \notin JobId /\ NoReservation # Detached
  BY BoundsAssumption DEF BoundsAssumption, JobId, NoReservation, Detached
<1>3. \A j \in JobId : jobs'[j] = IF j \in D THEN Gone ELSE js[j]
  BY Zenon, <1>1 DEF Deleted
<1>4. \A s \in Slots : resv'[s] = IF resv[s] \in touched \cup D /\ Releasable(js[resv[s]]) THEN NoReservation
                                ELSE IF resv[s] \in D THEN Detached ELSE resv[s]
  BY Zenon, <1>1 DEF Reservations
<1>5. ReservationsMatchJobs'
  <2>1. ASSUME NEW j \in JobId, jobs'[j].status \in Pending, jobs'[j].command = "book"
        PROVE  resv'[<<jobs'[j].profile, jobs'[j].date>>] = j
    <3>1. j \notin D /\ jobs'[j] = js[j]
      BY <1>3, <2>1 DEF Gone, Pending, Active
    <3>2. Is(j, Pending) /\ IsBook(j) /\ <<jobs'[j].profile, jobs'[j].date>> = SlotOf(j)
      BY ZenonT(30), <2>1, <3>1 DEF Rewrites, Is, IsBook, SlotOf, Row
    <3>3. resv[SlotOf(j)] = j /\ SlotOf(j) \in Slots
      BY Zenon, <3>2, RowIsJob DEF GuardInv, ReservationsMatchJobs, TypeOK, Slots, SlotOf, Is, Row, Job
    <3>4. ~Releasable(js[j])
      BY Zenon, <2>1, <3>1 DEF Releasable, Retryable, Pending, Active
    <3> QED
      BY Zenon, <1>4, <3>1, <3>2, <3>3, <3>4
  <2>2. ASSUME NEW s \in Slots, resv'[s] \in JobId
        PROVE  /\ jobs'[resv'[s]].status \in Row
               /\ <<jobs'[resv'[s]].profile, jobs'[resv'[s]].date>> = s
               /\ jobs'[resv'[s]].command = "book" /\ ~Releasable(jobs'[resv'[s]])
    <3>1. resv'[s] = resv[s] /\ resv[s] \notin D
          /\ ~(resv[s] \in touched /\ Releasable(js[resv[s]]))
      BY Zenon, <1>2, <1>4, <2>2
    <3>2. Is(resv[s], Row) /\ SlotOf(resv[s]) = s /\ IsBook(resv[s]) /\ ~Releasable(jobs[resv[s]])
      BY Zenon, <2>2, <3>1 DEF GuardInv, ReservationsMatchJobs
    <3> QED
      BY <1>3, <2>2, <3>1, <3>2 DEF Rewrites, SlotOf, IsBook
  <2> QED
    BY Zenon, <2>1, <2>2 DEF ReservationsMatchJobs, Is, IsBook, SlotOf
<1>6. ConfirmedGuard'
  <2> SUFFICES ASSUME NEW c \in confirmed
               PROVE  \/ resv'[c[1]] = c[2] /\ jobs'[c[2]].conf
                      \/ resv'[c[1]] = Detached
                      \/ /\ resv'[c[1]] = NoReservation
                         /\ PastEverywhere(c[1][2]) \/ profile[c[1][1]] = "deleted"
    BY Zenon DEF ConfirmedGuard, PastEverywhere, UTCDate
  <2>1. c[1] \in Slots /\ c[2] \in JobId
    BY Zenon DEF TypeOK
  <2>2. CASE resv[c[1]] = c[2] /\ jobs[c[2]].conf
    <3>1. Is(c[2], Row)
      BY Zenon, <2>1, <2>2 DEF GuardInv, ReservationsMatchJobs
    <3>2. js[c[2]].conf
      BY Zenon, <2>1, <2>2, <3>1 DEF Rewrites
    <3>3. ~Releasable(js[c[2]])
      BY Zenon, <3>2 DEF Releasable
    <3> QED
      BY Zenon, <1>3, <1>4, <2>1, <2>2, <3>2, <3>3
  <2>3. CASE resv[c[1]] \in {NoReservation, Detached}
    <3>1. resv'[c[1]] = resv[c[1]]
      BY ZenonT(30), <1>2, <1>4, <2>1, <2>3
    <3> QED
      BY ZenonT(30), <1>2, <2>1, <2>3, <3>1 DEF GuardInv, ConfirmedGuard
  <2> QED
    BY Zenon, <2>2, <2>3 DEF GuardInv, ConfirmedGuard
<1> QED
  BY Zenon, <1>5, <1>6 DEF GuardInv, OneConfirmationPerDate

\* Admission takes a free slot, and a confirmed slot is free only once its
\* date is over everywhere, when admission refuses it.
LEMMA EnqueueGuard ==
  ASSUME TypeOK, GuardInv, Enqueue
  PROVE  GuardInv'
<1>1. PICK p \in Profiles, s \in Sources, kind \in Kinds, d \in Dates, zone \in ZoneOffsets,
           due \in {now, now + 1} : EnqueueJob(p, s, kind, d, zone, due)
  BY Zenon DEF Enqueue
<1>2. PICK D \in SUBSET JobId, j \in JobId :
        /\ Fresh(j)
        /\ kind.command = "book" => Reservations(jobs, {}, D)[<<p, d>>] = NoReservation
        /\ jobs' = [Deleted(jobs, D) EXCEPT ![j] = NewJob(p, s, kind, d, due)]
        /\ resv' = [x \in Slots |-> IF kind.command = "book" /\ x = <<p, d>> THEN j
                                   ELSE Reservations(jobs, {}, D)[x]]
        /\ \A k \in D : jobs[k].status \in Prunable
  BY Zenon, <1>1 DEF EnqueueJob, Trim
<1> DEFINE new == NewJob(p, s, kind, d, due)
<1>3. /\ new.status = "queued" /\ new.profile = p /\ new.command = kind.command
      /\ (kind.command = "book" => new.date = d) /\ ~new.conf
  BY Zenon DEF NewJob
<1>4. NoReservation \notin JobId /\ Detached \notin JobId /\ NoReservation # Detached
  BY SMTT(30), BoundsAssumption DEF BoundsAssumption, JobId, NoReservation, Detached
<1>5. \A k \in JobId : jobs'[k] = IF k = j THEN new ELSE IF k \in D THEN Gone ELSE jobs[k]
  BY Zenon, <1>2 DEF Deleted
<1>6. \A x \in Slots : Reservations(jobs, {}, D)[x] =
        IF resv[x] \in D /\ Releasable(jobs[resv[x]]) THEN NoReservation
        ELSE IF resv[x] \in D THEN Detached ELSE resv[x]
  BY Zenon DEF Reservations
<1>7. \A x \in Slots : resv'[x] = IF kind.command = "book" /\ x = <<p, d>> THEN j
                                ELSE Reservations(jobs, {}, D)[x]
  BY Zenon, <1>2
<1>8. ~Is(j, Row)
  BY Zenon, <1>2 DEF Fresh, Is, Row, Pending, Active, Terminal, Prunable
<1>9. \A x \in Slots : resv[x] # j
  BY Zenon, <1>8 DEF GuardInv, ReservationsMatchJobs
<1>10. \A x \in Slots : resv[x] \in JobId => ~Releasable(jobs[resv[x]])
  BY Zenon DEF GuardInv, ReservationsMatchJobs
<1> HIDE DEF new
<1>11. ReservationsMatchJobs'
  <2>1. ASSUME NEW k \in JobId, jobs'[k].status \in Pending, jobs'[k].command = "book"
        PROVE  resv'[<<jobs'[k].profile, jobs'[k].date>>] = k
    <3>1. CASE k = j
      BY ZenonT(30), <1>3, <1>5, <1>7, <2>1, <3>1 DEF Slots
    <3>2. CASE k # j
      <4>1. k \notin D /\ jobs'[k] = jobs[k]
        BY SMTT(30), <1>5, <2>1, <3>2 DEF Gone, Pending, Active
      <4>2. resv[SlotOf(k)] = k /\ SlotOf(k) \in Slots
        BY Zenon, <2>1, <4>1, RowIsJob
           DEF GuardInv, ReservationsMatchJobs, TypeOK, Slots, SlotOf, Is, IsBook, Row, Job
      <4>3. ~(kind.command = "book" /\ SlotOf(k) = <<p, d>>)
        BY ZenonT(30), <1>2, <1>4, <1>6, <4>1, <4>2
      <4> QED
        BY Zenon, <1>6, <1>7, <4>1, <4>2, <4>3 DEF SlotOf
    <3> QED
      BY Zenon, <3>1, <3>2
  <2>2. ASSUME NEW x \in Slots, resv'[x] \in JobId
        PROVE  /\ jobs'[resv'[x]].status \in Row
               /\ <<jobs'[resv'[x]].profile, jobs'[resv'[x]].date>> = x
               /\ jobs'[resv'[x]].command = "book" /\ ~Releasable(jobs'[resv'[x]])
    <3>1. CASE kind.command = "book" /\ x = <<p, d>>
      BY ZenonT(30), <1>3, <1>5, <1>7, <2>2, <3>1 DEF Row, Pending, Releasable, Retryable
    <3>2. CASE ~(kind.command = "book" /\ x = <<p, d>>)
      <4>1. resv'[x] = resv[x] /\ resv[x] \notin D
        BY ZenonT(30), <1>4, <1>6, <1>7, <2>2, <3>2
      <4> QED
        BY SMTT(30), <1>5, <1>9, <2>2, <4>1 DEF GuardInv, ReservationsMatchJobs, SlotOf, IsBook, Is
    <3> QED
      BY Zenon, <3>1, <3>2
  <2> QED
    BY Zenon, <2>1, <2>2 DEF ReservationsMatchJobs, Is, IsBook, SlotOf
<1>12. UNCHANGED <<profile, now, confirmed>>
  BY Zenon, <1>1 DEF EnqueueJob
<1>13. ConfirmedGuard'
  <2> SUFFICES ASSUME NEW c \in confirmed
               PROVE  \/ resv'[c[1]] = c[2] /\ jobs'[c[2]].conf
                      \/ resv'[c[1]] = Detached
                      \/ /\ resv'[c[1]] = NoReservation
                         /\ PastEverywhere(c[1][2]) \/ profile[c[1][1]] = "deleted"
    BY Zenon, <1>12 DEF ConfirmedGuard, PastEverywhere, UTCDate
  <2>1. c[1] \in Slots /\ c[2] \in JobId
    BY Zenon DEF TypeOK
  <2>2. CASE resv[c[1]] = c[2] /\ jobs[c[2]].conf
    <3>1. ~(kind.command = "book" /\ c[1] = <<p, d>>)
      BY SMTT(30), <1>2, <1>4, <1>6, <1>10, <2>1, <2>2
    <3> QED
      BY SMTT(30), <1>5, <1>6, <1>7, <1>9, <1>10, <2>1, <2>2, <3>1
  <2>3. CASE resv[c[1]] = Detached
    BY ZenonT(30), <1>2, <1>4, <1>6, <1>7, <2>1, <2>3
  <2>4. CASE resv[c[1]] = NoReservation /\ (PastEverywhere(c[1][2]) \/ profile[c[1][1]] = "deleted")
    <3>1. ~(kind.command = "book" /\ c[1] = <<p, d>>)
      <4> SUFFICES ASSUME kind.command = "book", c[1] = <<p, d>> PROVE FALSE
        BY Zenon
      <4>1. profile[p] = "enabled" /\ ~DatePassed(d, zone)
        BY Zenon, <1>1 DEF EnqueueJob
      <4>2. PastEverywhere(d)
        BY <2>4, <4>1
      <4>3. now \in Nat /\ d \in Nat
        BY Zenon, BoundsAssumption DEF BoundsAssumption, TypeOK
      <4> QED
        BY <4>1, <4>2, <4>3 DEF DatePassed, PastEverywhere, LocalDate, UTCDate, ZoneOffsets
    <3> QED
      BY ZenonT(30), <1>4, <1>6, <1>7, <2>1, <2>4, <3>1
  <2> QED
    BY Zenon, <2>2, <2>3, <2>4 DEF GuardInv, ConfirmedGuard
<1> QED
  BY Zenon, <1>11, <1>12, <1>13 DEF GuardInv, OneConfirmationPerDate

\* The multi-row and single-row updates are rewrites in the sense above.
LEMMA ExpiredRewrites ==
  ASSUME TypeOK
  PROVE  Rewrites(Expired, StaleJobs)
<1>1. \A j \in JobId : Is(j, Row) => jobs[j] \in Job
  BY Zenon, RowIsJob
<1> QED
  BY <1>1 DEF Rewrites, Expired, StaleJobs, Stale, WithStatus, Is, Job,
     Row, Pending, Active, Terminal, Prunable

\* So is the update of start-up recovery.
LEMMA RecoveredRewrites ==
  ASSUME TypeOK
  PROVE  Rewrites(Recovered, ActiveJobs)
<1>1. \A j \in JobId : Is(j, Row) => jobs[j] \in Job
  BY RowIsJob
<1> QED
  BY SMTT(30), <1>1 DEF Rewrites, Recovered, ActiveJobs, WithStatus, Is, Job,
     Row, Pending, Active, Terminal, Prunable

\* So is cancelling any set of rows, as disabling an account does.
LEMMA CancelRewrites ==
  ASSUME TypeOK, NEW S \in SUBSET JobId, \A j \in S : Is(j, Row)
  PROVE  Rewrites([j \in JobId |-> IF j \in S THEN CancelRow(jobs[j]) ELSE jobs[j]], S)
<1>1. \A j \in JobId : Is(j, Row) => jobs[j] \in Job
  BY Zenon, RowIsJob
<1> QED
  BY SMTT(30), <1>1, CancelRowType DEF Rewrites, Is, Row, Pending, Active, Terminal, Prunable

\* Retention deletes history and guards that no longer matter.
LEMMA PruneGuard ==
  ASSUME TypeOK, GuardInv, SystemPruneTerminalJobs
  PROVE  GuardInv'
<1>1. PICK D \in SUBSET JobId :
        /\ jobs' = Deleted(jobs, D)
        /\ resv' = [s \in Slots |-> IF resv[s] = Detached /\ PastEverywhere(s[2])
                                     THEN NoReservation ELSE Reservations(jobs, {}, D)[s]]
        /\ \A j \in D : jobs[j].status \in Prunable
  BY Zenon DEF SystemPruneTerminalJobs, Trim
<1>2. NoReservation \notin JobId /\ Detached \notin JobId /\ NoReservation # Detached
  BY BoundsAssumption DEF BoundsAssumption, JobId, NoReservation, Detached
<1>3. \A j \in JobId : jobs'[j] = IF j \in D THEN Gone ELSE jobs[j]
  BY Zenon, <1>1 DEF Deleted
<1>4. \A s \in Slots : resv[s] \in JobId => ~Releasable(jobs[resv[s]])
  BY Zenon DEF GuardInv, ReservationsMatchJobs
<1>5. \A s \in Slots : resv'[s] = IF resv[s] = Detached /\ PastEverywhere(s[2]) THEN NoReservation
                                ELSE IF resv[s] \in D THEN Detached ELSE resv[s]
  BY Zenon, <1>1, <1>4 DEF Reservations
<1>6. UNCHANGED <<profile, now, confirmed>>
  BY Zenon DEF SystemPruneTerminalJobs
<1>7. ReservationsMatchJobs'
  <2>1. ASSUME NEW j \in JobId, jobs'[j].status \in Pending, jobs'[j].command = "book"
        PROVE  resv'[<<jobs'[j].profile, jobs'[j].date>>] = j
    <3>1. j \notin D /\ jobs'[j] = jobs[j]
      BY SMTT(30), <1>3, <2>1 DEF Gone, Pending, Active
    <3>2. resv[SlotOf(j)] = j /\ SlotOf(j) \in Slots
      BY Zenon, <2>1, <3>1, RowIsJob
         DEF GuardInv, ReservationsMatchJobs, TypeOK, Slots, SlotOf, Is, IsBook, Row, Job
    <3> QED
      BY ZenonT(30), <1>2, <1>5, <3>1, <3>2 DEF SlotOf
  <2>2. ASSUME NEW s \in Slots, resv'[s] \in JobId
        PROVE  resv'[s] = resv[s] /\ resv[s] \notin D
    BY Zenon, <1>2, <1>5, <2>2
  <2> QED
    BY <1>3, <2>1, <2>2 DEF GuardInv, ReservationsMatchJobs, Is, IsBook, SlotOf
<1>8. ConfirmedGuard'
  BY SMTT(30), <1>2, <1>3, <1>5, <1>6 DEF GuardInv, ConfirmedGuard, TypeOK, PastEverywhere, UTCDate
<1> QED
  BY Zenon, <1>6, <1>7, <1>8 DEF GuardInv, OneConfirmationPerDate

\* A date that is over stays over.
LEMMA TickGuard ==
  ASSUME TypeOK, GuardInv, Tick
  PROVE  GuardInv'
<1>1. \A d \in Dates : PastEverywhere(d) => PastEverywhere(d)'
  BY BoundsAssumption DEF BoundsAssumption, TypeOK, Tick, PastEverywhere, UTCDate
<1>2. \A c \in confirmed : c[1][2] \in Dates
  BY Zenon DEF TypeOK, Slots
<1> QED
  BY ZenonT(30), <1>1, <1>2 DEF Tick, GuardInv, ReservationsMatchJobs, ConfirmedGuard,
     OneConfirmationPerDate, Is, IsBook, SlotOf

\* A step among the active statuses changes no reservation.
LEMMA ActiveStepGuard ==
  ASSUME TypeOK, GuardInv, NEW j \in JobId, jobs[j] \in Job, Is(j, Active), NEW st \in Active,
         jobs' = [jobs EXCEPT ![j].status = st], UNCHANGED <<resv, profile, now, confirmed>>
  PROVE  GuardInv'
<1>1. \A k \in JobId : k # j => jobs'[k] = jobs[k]
  BY Zenon DEF TypeOK
<1>2. /\ jobs'[j].status = st /\ jobs'[j].profile = jobs[j].profile /\ jobs'[j].date = jobs[j].date
      /\ jobs'[j].command = jobs[j].command /\ jobs'[j].conf = jobs[j].conf
  BY Zenon DEF TypeOK, Job
<1>3. Is(j, Pending) /\ st \in Pending /\ st \in Row /\ st \notin Retryable
  BY Zenon DEF Is, Pending, Active, Row, Retryable
<1>4. ReservationsMatchJobs'
  BY <1>1, <1>2, <1>3 DEF GuardInv, ReservationsMatchJobs, Is, IsBook, SlotOf, Releasable
<1>5. ConfirmedGuard'
  BY ZenonT(30), <1>1, <1>2 DEF GuardInv, ConfirmedGuard, TypeOK, PastEverywhere, UTCDate
<1> QED
  BY Zenon, <1>4, <1>5 DEF GuardInv, OneConfirmationPerDate

\* The mark: the job holds its slot, so no other job confirmed that slot.
LEMMA MarkGuard ==
  ASSUME TypeOK, GuardInv, NEW j \in JobId, SystemMarkConfirmationStarted(j)
  PROVE  GuardInv'
<1>1. Is(j, Active) /\ Is(j, Pending) /\ jobs[j] \in Job
  BY Zenon, RowIsJob DEF SystemMarkConfirmationStarted, Is, Pending, Row
<1>2. \A k \in JobId : k # j => jobs'[k] = jobs[k]
  BY Zenon DEF SystemMarkConfirmationStarted, TypeOK
<1>3. /\ jobs'[j].status = jobs[j].status /\ jobs'[j].profile = jobs[j].profile
      /\ jobs'[j].date = jobs[j].date /\ jobs'[j].command = jobs[j].command /\ jobs'[j].conf
  BY Zenon, <1>1 DEF SystemMarkConfirmationStarted, TypeOK, Job
<1>4. UNCHANGED <<resv, profile, now>>
  BY Zenon DEF SystemMarkConfirmationStarted
<1>5. ReservationsMatchJobs'
  BY <1>2, <1>3, <1>4 DEF GuardInv, ReservationsMatchJobs, Is, IsBook, SlotOf, Releasable
<1>6. \A k \in JobId : jobs[k].conf => jobs'[k].conf
  BY Zenon, <1>2, <1>3
<1>7. CASE ~IsBook(j)
  BY <1>4, <1>5, <1>6, <1>7 DEF SystemMarkConfirmationStarted, GuardInv, ConfirmedGuard,
     OneConfirmationPerDate, TypeOK, PastEverywhere, UTCDate
<1>8. CASE IsBook(j)
  <2>1. confirmed' = confirmed \cup {<<SlotOf(j), j>>}
    BY Zenon, <1>8 DEF SystemMarkConfirmationStarted
  <2>2. resv[SlotOf(j)] = j /\ j # NoReservation /\ j # Detached
    BY <1>1, <1>8, BoundsAssumption
       DEF GuardInv, ReservationsMatchJobs, BoundsAssumption, JobId, NoReservation, Detached
  <2>3. \A c \in confirmed : c[1] = SlotOf(j) => c[2] = j
    BY Zenon, <2>2 DEF GuardInv, ConfirmedGuard
  <2>4. OneConfirmationPerDate'
    BY SMTT(30), <2>1, <2>3 DEF GuardInv, OneConfirmationPerDate
  <2>5. ConfirmedGuard'
    BY SMTT(30), <1>3, <1>4, <1>6, <2>1, <2>2
       DEF GuardInv, ConfirmedGuard, TypeOK, PastEverywhere, UTCDate
  <2> QED
    BY Zenon, <1>5, <2>4, <2>5 DEF GuardInv
<1> QED
  BY Zenon, <1>7, <1>8

\* Steps that leave the queue alone keep the guard.
LEMMA UnchangedGuard ==
  ASSUME GuardInv, UNCHANGED <<profile, jobs, resv, now, confirmed>>
  PROVE  GuardInv'
BY ZenonT(30) DEF GuardInv, ReservationsMatchJobs, ConfirmedGuard, OneConfirmationPerDate,
   Is, IsBook, SlotOf, PastEverywhere, UTCDate

\* Removing a member removes the profiles with their guards and jobs.
LEMMA DeleteMemberGuard ==
  ASSUME TypeOK, GuardInv, NEW u \in Users, DeleteMember(u)
  PROVE  GuardInv'
<1> DEFINE D == OwnedBy(jobs, u, Row)
<1>1. \A j \in JobId : jobs'[j] = IF j \in D THEN Gone ELSE jobs[j]
  BY Zenon DEF DeleteMember, Deleted
<1>2. \A s \in Slots : resv'[s] = IF s[1] \in Owned(u) THEN NoReservation ELSE resv[s]
  BY Zenon DEF DeleteMember
<1>3. \A j \in JobId : j \in D <=> Is(j, Row) /\ Owner[jobs[j].profile] = u
  BY Zenon DEF OwnedBy, Is
<1>4. \A j \in JobId : Is(j, Row) => (j \in D <=> jobs[j].profile \in Owned(u))
  BY Zenon, <1>3, RowIsJob DEF Owned, Job
<1>5. NoReservation \notin JobId
  BY SMTT(30), BoundsAssumption DEF BoundsAssumption, JobId, NoReservation
<1> HIDE DEF D
<1>6. ReservationsMatchJobs'
  <2>1. ASSUME NEW j \in JobId, jobs'[j].status \in Pending, jobs'[j].command = "book"
        PROVE  resv'[<<jobs'[j].profile, jobs'[j].date>>] = j
    <3>1. j \notin D /\ jobs'[j] = jobs[j] /\ Is(j, Pending) /\ Is(j, Row)
      BY SMTT(30), <1>1, <2>1 DEF Gone, Pending, Active, Is, Row
    <3>2. resv[SlotOf(j)] = j /\ SlotOf(j) \in Slots
      BY ZenonT(30), <2>1, <3>1, RowIsJob
         DEF GuardInv, ReservationsMatchJobs, TypeOK, Slots, SlotOf, IsBook, Row, Job
    <3> QED
      BY ZenonT(30), <1>2, <1>4, <3>1, <3>2 DEF SlotOf
  <2>2. ASSUME NEW s \in Slots, resv'[s] \in JobId
        PROVE  resv'[s] = resv[s] /\ resv[s] \notin D
    <3>1. resv'[s] = resv[s] /\ s[1] \notin Owned(u)
      BY Zenon, <1>2, <1>5, <2>2
    <3> QED
      BY SMTT(30), <1>4, <2>2, <3>1 DEF GuardInv, ReservationsMatchJobs, SlotOf
  <2> QED
    BY SMTT(30), <1>1, <2>1, <2>2 DEF GuardInv, ReservationsMatchJobs, Is, IsBook, SlotOf
<1>7. ConfirmedGuard'
  <2> SUFFICES ASSUME NEW c \in confirmed
               PROVE  \/ resv'[c[1]] = c[2] /\ jobs'[c[2]].conf
                      \/ resv'[c[1]] = Detached
                      \/ /\ resv'[c[1]] = NoReservation
                         /\ PastEverywhere(c[1][2]) \/ profile'[c[1][1]] = "deleted"
    BY Zenon DEF DeleteMember, ConfirmedGuard, PastEverywhere, UTCDate
  <2>1. c[1] \in Slots /\ c[1][1] \in Profiles /\ c[2] \in JobId
    BY Zenon DEF TypeOK, Slots
  <2>2. CASE c[1][1] \in Owned(u)
    BY Zenon, <1>2, <2>1, <2>2 DEF DeleteMember
  <2>3. CASE c[1][1] \notin Owned(u)
    <3>1. resv[c[1]] = c[2] => c[2] \notin D
      BY SMTT(30), <1>4, <2>1, <2>3 DEF GuardInv, ReservationsMatchJobs, SlotOf
    <3> QED
      BY Zenon, <1>1, <1>2, <2>1, <2>3, <3>1 DEF DeleteMember, GuardInv, ConfirmedGuard
  <2> QED
    BY Zenon, <2>2, <2>3
<1> QED
  BY Zenon, <1>6, <1>7 DEF DeleteMember, GuardInv, OneConfirmationPerDate

\* Removing a profile cascades to its guards; it has no jobs left.
LEMMA DeleteProfileGuard ==
  ASSUME TypeOK, GuardInv, NEW p \in Profiles, DeleteProfile(p)
  PROVE  GuardInv'
<1>1. \A s \in Slots : resv'[s] = IF s[1] = p THEN NoReservation ELSE resv[s]
  BY Zenon DEF DeleteProfile
<1>2. UNCHANGED <<jobs, now, confirmed>> /\ profile' = [profile EXCEPT ![p] = "deleted"]
  BY Zenon DEF DeleteProfile
<1>3. \A j \in JobId : Is(j, Pending) /\ IsBook(j) => SlotOf(j) \in Slots /\ SlotOf(j)[1] # p
  BY Zenon, RowIsJob DEF DeleteProfile, TypeOK, Is, Row, Slots, SlotOf, Job
<1>4. NoReservation \notin JobId
  BY BoundsAssumption DEF BoundsAssumption, JobId, NoReservation
<1>5. ReservationsMatchJobs'
  BY ZenonT(30), <1>1, <1>2, <1>3, <1>4 DEF GuardInv, ReservationsMatchJobs, Is, IsBook, SlotOf
<1>6. ConfirmedGuard'
  BY SMTT(30), <1>1, <1>2 DEF GuardInv, ConfirmedGuard, TypeOK, Slots, PastEverywhere, UTCDate
<1> QED
  BY Zenon, <1>2, <1>5, <1>6 DEF GuardInv, OneConfirmationPerDate

\* The one-day slack of the pruning statement covers every time zone.
LEMMA GuardOutlivesDate ==
  ASSUME TypeOK, ConfirmedGuard
  PROVE  ConfirmedDatesStayGuarded
<1>1. \A d \in Dates, zone \in ZoneOffsets : PastEverywhere(d) => DatePassed(d, zone)
  BY BoundsAssumption DEF BoundsAssumption, TypeOK, PastEverywhere, DatePassed, LocalDate, UTCDate, ZoneOffsets
<1>2. \A c \in confirmed : c[1][2] \in Dates
  BY Zenon DEF TypeOK, Slots
<1> QED
  BY Zenon, <1>1, <1>2 DEF ConfirmedGuard, ConfirmedDatesStayGuarded

\* The booking guard holds in every reachable state, whatever the interleaving
\* of workers, cancellations, restarts, retention and account changes.
THEOREM BookingGuard == Spec => [](OneConfirmationPerDate /\ ConfirmedDatesStayGuarded /\ ReservationsMatchJobs)
<1>1. Init => GuardInv
  BY BoundsAssumption DEF BoundsAssumption, Init, GuardInv, ReservationsMatchJobs, ConfirmedGuard,
     OneConfirmationPerDate, Is, Unused, Row, Pending, Active, Terminal, Prunable, NoReservation, JobId
<1>2. TypeOK /\ TypeOK' /\ GuardInv /\ [Next]_vars => GuardInv'
  <2> SUFFICES ASSUME TypeOK, TypeOK', GuardInv, [Next]_vars PROVE GuardInv'
    BY Zenon
  <2>0. jobs \in Table /\ DatesOK(jobs) /\ \A j \in JobId : Is(j, Row) => jobs[j] \in Job
    BY ZenonT(30), RowIsJob DEF TypeOK, Table, DatesOK, Is, IsBook
  <2>1. CASE Enqueue
    BY ZenonT(30), <2>1, EnqueueGuard
  <2>2. CASE SystemExpireStaleJobs
    <3>1. StaleJobs \in SUBSET JobId
      BY ZenonT(30) DEF StaleJobs
    <3> QED
      BY ZenonT(30), <2>2, <3>1, ExpiredType, ExpiredRewrites, SettleGuard DEF SystemExpireStaleJobs
  <2>3. CASE SystemRecoverInterruptedJobs
    <3>1. ActiveJobs \in SUBSET JobId
      BY ZenonT(30) DEF ActiveJobs
    <3> QED
      BY <2>3, <3>1, RecoveredType, RecoveredRewrites, SettleGuard DEF SystemRecoverInterruptedJobs
  <2>4. CASE SystemPruneTerminalJobs
    BY <2>4, PruneGuard
  <2>5. CASE Tick
    BY <2>5, TickGuard
  <2>6. ASSUME NEW j \in JobId, SystemClaimNextDueJobAt(j) PROVE GuardInv'
    <3> DEFINE js == [Expired EXCEPT ![j].status = "running"]
    <3>1. Is(j, {"queued"}) /\ ~Stale(j)
      BY Zenon, <2>6 DEF SystemClaimNextDueJobAt, Candidate
    <3>2. Expired[j] = jobs[j] /\ jobs[j] \in Job
      BY Zenon, <3>1, RowIsJob DEF Expired, Row, Pending
    <3>3. js \in Table
      BY ZenonT(30), <3>2, ExpiredType, RowStatusType DEF Row, Pending, Active
    <3>4. Rewrites(js, StaleJobs)
      BY <3>1, <3>2, ExpiredType, ExpiredRewrites
         DEF Rewrites, Table, Job, Is, Row, Pending, Active, Releasable, Retryable
    <3> HIDE DEF js
    <3>5. Settle(js, StaleJobs, {}) /\ StaleJobs \in SUBSET JobId
      BY Zenon, <2>6 DEF SystemClaimNextDueJobAt, js, StaleJobs
    <3> QED
      BY ZenonT(30), <2>6, <3>3, <3>4, <3>5, SettleGuard DEF SystemClaimNextDueJobAt
  <2>7. ASSUME NEW j \in JobId, NEW r \in Requests, SystemTransitionJob(j, r[1], r[2])
        PROVE  GuardInv'
    <3>1. r[1] \in SUBSET Active /\ r[2] \in Row
      BY DEF Requests, Row, Pending, Active, Terminal, Prunable
    <3>2. Is(j, Active) /\ jobs[j] \in Job
      BY Zenon, <2>0, <2>7, <3>1 DEF SystemTransitionJob, Is, Row, Pending
    <3>3. CASE r[2] \in Active
      <4>1. /\ jobs' = [jobs EXCEPT ![j].status = r[2]]
            /\ UNCHANGED <<resv, profile, now, confirmed>>
        BY Zenon, <2>7, <3>3 DEF SystemTransitionJob, Active, Terminal, Prunable
      <4> QED
        BY Zenon, <2>0, <3>2, <3>3, <4>1, ActiveStepGuard
    <3>4. CASE r[2] \notin Active
      <4> DEFINE js == [jobs EXCEPT ![j].status = Resolve(j, r[2])]
      <4>1. Resolve(j, r[2]) \in Terminal
        BY Zenon, <2>7, <3>4 DEF SystemTransitionJob, Resolve, Terminal, Prunable
      <4>2. js \in Table
        BY ZenonT(30), <2>0, <3>2, <4>1, RowStatusType DEF Row
      <4>3. Rewrites(js, {j})
        BY <2>0, <3>2, <4>1 DEF Rewrites, Table, Job, Is, Row, Pending, Active, Terminal, Prunable
      <4> HIDE DEF js
      <4>4. Settle(js, {j}, {j})
        BY Zenon, <2>7, <3>4 DEF SystemTransitionJob, js
      <4> QED
        BY ZenonT(30), <2>7, <4>2, <4>3, <4>4, SettleGuard DEF SystemTransitionJob
    <3> QED
      BY Zenon, <3>3, <3>4
  <2>8. ASSUME NEW j \in JobId, SystemMarkConfirmationStarted(j) PROVE GuardInv'
    BY Zenon, <2>8, MarkGuard
  <2>9. ASSUME NEW j \in JobId, RequestJobCancellation(j) PROVE GuardInv'
    <3> DEFINE js == [k \in JobId |-> IF k \in {j} THEN CancelRow(jobs[k]) ELSE jobs[k]]
    <3>1. Is(j, Row) /\ jobs[j] \in Job
      BY Zenon, <2>0, <2>9 DEF RequestJobCancellation, Is, Row, Pending, Terminal, Prunable
    <3>2. js = [jobs EXCEPT ![j] = CancelRow(@)]
      BY Zenon, <2>0 DEF Table
    <3>3. js \in Table
      BY Zenon, <2>0, <3>1, CancelRowType DEF Table
    <3>4. Rewrites(js, {j})
      BY SMTT(30), <3>1, CancelRewrites
    <3> HIDE DEF js
    <3> QED
      BY Zenon, <2>9, <3>2, <3>3, <3>4, SettleGuard DEF RequestJobCancellation
  <2>10. ASSUME NEW u \in Users, DisableUser(u) PROVE GuardInv'
    <3> DEFINE js == [k \in JobId |-> IF k \in PendingOf(u) THEN CancelRow(jobs[k]) ELSE jobs[k]]
    <3>1. PendingOf(u) \in SUBSET JobId /\ \A k \in PendingOf(u) : Is(k, Row)
      BY Zenon DEF PendingOf, Is, Row
    <3>2. js \in Table
      BY ZenonT(30), <2>0, <3>1, CancelRowType DEF Table
    <3>3. Rewrites(js, PendingOf(u))
      BY ZenonT(30), <3>1, CancelRewrites
    <3> HIDE DEF js
    <3>4. Settle(js, PendingOf(u), {})
      BY Zenon, <2>10 DEF DisableUser, js
    <3> QED
      BY ZenonT(30), <2>10, <3>1, <3>2, <3>3, <3>4, SettleGuard DEF DisableUser
  <2>11. ASSUME NEW u \in Users, EnableUser(u) PROVE GuardInv'
    BY Zenon, <2>11, UnchangedGuard DEF EnableUser
  <2>12. ASSUME NEW u \in Users, DeleteMember(u) PROVE GuardInv'
    BY ZenonT(30), <2>12, DeleteMemberGuard
  <2>13. ASSUME NEW p \in Profiles, NEW e \in {"enabled", "disabled"}, UpdateProfile(p, e)
         PROVE  GuardInv'
    BY SMTT(30), <2>13 DEF UpdateProfile, GuardInv, ReservationsMatchJobs, ConfirmedGuard,
       OneConfirmationPerDate, TypeOK, Is, IsBook, SlotOf, PastEverywhere, UTCDate
  <2>14. ASSUME NEW p \in Profiles, DeleteProfile(p) PROVE GuardInv'
    BY <2>14, DeleteProfileGuard
  <2>15. CASE UNCHANGED vars
    BY Zenon, <2>15, UnchangedGuard DEF vars
  <2> QED
    BY Zenon, <2>1, <2>2, <2>3, <2>4, <2>5, <2>6, <2>7, <2>8, <2>9, <2>10, <2>11, <2>12, <2>13, <2>14, <2>15
       DEF Next
<1>3. TypeOK /\ GuardInv => OneConfirmationPerDate /\ ConfirmedDatesStayGuarded /\ ReservationsMatchJobs
  BY Zenon, GuardOutlivesDate DEF GuardInv
<1> QED
  BY <1>1, <1>2, <1>3, TypeCorrect, PTL DEF Spec

-----------------------------------------------------------------------------
(***************************************************************************)
(* Leases.  Only a claim makes a job active, and it sees the profile and   *)
(* the source idle in the same statement.                                  *)
(***************************************************************************)
Leased(j) == jobs'[j].status \in Active
SameLease(j) == Is(j, Active) /\ jobs'[j].profile = jobs[j].profile /\ jobs'[j].source = jobs[j].source

\* A step that makes no job active keeps the leases exclusive.
LEMMA LeaseKept ==
  ASSUME LeaseExclusive, \A j \in JobId : Leased(j) => SameLease(j)
  PROVE  LeaseExclusive'
BY DEF LeaseExclusive, Leased, SameLease, Is

\* A status update that makes no job active, followed by its triggers.
LEMMA SettleLease ==
  ASSUME LeaseExclusive, NEW js \in Table, NEW touched \in SUBSET JobId, NEW keep,
         Rewrites(js, touched), Settle(js, touched, keep),
         \A j \in JobId : js[j].status \in Active => Is(j, Active)
  PROVE  LeaseExclusive'
<1>1. PICK D \in SUBSET JobId : jobs' = Deleted(js, D)
  BY Zenon DEF Settle, Trim
<1>2. \A j \in JobId : jobs'[j] = IF j \in D THEN Gone ELSE js[j]
  BY Zenon, <1>1 DEF Deleted
<1>3. \A j \in JobId : Leased(j) => SameLease(j)
  BY SMTT(30), <1>2 DEF Leased, SameLease, Rewrites, Is, Gone, Active, Row, Pending
<1> QED
  BY Zenon, <1>3, LeaseKept

\* No two active jobs ever share a browser profile or an OTP source.
THEOREM LeasesAreExclusive == Spec => []LeaseExclusive
<1>1. Init => LeaseExclusive
  BY DEF Init, LeaseExclusive, Is, Unused, Active
<1>2. TypeOK /\ LeaseExclusive /\ [Next]_vars => LeaseExclusive'
  <2> SUFFICES ASSUME TypeOK, LeaseExclusive, [Next]_vars PROVE LeaseExclusive'
    BY Zenon
  <2>0. jobs \in Table /\ DatesOK(jobs) /\ \A j \in JobId : Is(j, Row) => jobs[j] \in Job
    BY Zenon, RowIsJob DEF TypeOK, Table, DatesOK, Is, IsBook
  <2>1. CASE Enqueue
    <3>1. PICK D \in SUBSET JobId, j \in JobId, new \in Job :
            new.status = "queued" /\ jobs' = [Deleted(jobs, D) EXCEPT ![j] = new]
      <4>1. PICK p \in Profiles, s \in Sources, kind \in Kinds, d \in Dates, zone \in ZoneOffsets,
                 due \in {now, now + 1} : EnqueueJob(p, s, kind, d, zone, due)
        BY Zenon, <2>1 DEF Enqueue
      <4>2. NewJob(p, s, kind, d, due) \in Job /\ NewJob(p, s, kind, d, due).status = "queued"
        BY ZenonT(30), NewJobType DEF TypeOK, NewJob
      <4>3. PICK D \in SUBSET JobId, j \in JobId :
                 jobs' = [Deleted(jobs, D) EXCEPT ![j] = NewJob(p, s, kind, d, due)]
        BY ZenonT(30), <4>1 DEF EnqueueJob, Trim
      <4> QED
        BY Zenon, <4>2, <4>3
    <3>2. \A k \in JobId : jobs'[k] = IF k = j THEN new ELSE IF k \in D THEN Gone ELSE jobs[k]
      BY ZenonT(30), <3>1 DEF Deleted
    <3> QED
      BY <3>1, <3>2, LeaseKept DEF Leased, SameLease, Gone, Active, Is
  <2>2. CASE SystemExpireStaleJobs
    <3>1. \A j \in JobId : Expired[j].status \in Active => Is(j, Active)
      BY ZenonT(30), <2>0 DEF Expired, Stale, WithStatus, Is, Active, Row, Pending, Job
    <3>2. StaleJobs \in SUBSET JobId
      BY Zenon DEF StaleJobs
    <3> QED
      BY ZenonT(30), <2>2, <3>1, <3>2, ExpiredType, ExpiredRewrites, SettleLease DEF SystemExpireStaleJobs
  <2>3. CASE SystemRecoverInterruptedJobs
    <3>1. \A j \in JobId : Recovered[j].status \in Active => Is(j, Active)
      BY Zenon, <2>0 DEF Recovered, Is
    <3>2. ActiveJobs \in SUBSET JobId
      BY Zenon DEF ActiveJobs
    <3> QED
      BY <2>3, <3>1, <3>2, RecoveredType, RecoveredRewrites, SettleLease DEF SystemRecoverInterruptedJobs
  <2>4. CASE SystemPruneTerminalJobs
    BY SMTT(30), <2>4, LeaseKept
       DEF SystemPruneTerminalJobs, Deleted, Gone, Leased, SameLease, Is, Active
  <2>6. ASSUME NEW j \in JobId, SystemClaimNextDueJobAt(j) PROVE LeaseExclusive'
    <3> DEFINE js == [Expired EXCEPT ![j].status = "running"]
    <3>1. Is(j, {"queued"}) /\ ~Stale(j) /\ LeaseFree(j)
      BY Zenon, <2>6 DEF SystemClaimNextDueJobAt, Candidate
    <3>2. Expired[j] = jobs[j] /\ jobs[j] \in Job
      BY Zenon, <3>1, RowIsJob DEF Expired, Row, Pending
    <3>3. js[j].profile = jobs[j].profile /\ js[j].source = jobs[j].source
      BY Zenon, <3>2, ExpiredType DEF Table, Job
    <3>4. \A k \in JobId : k # j /\ js[k].status \in Active =>
            Is(k, Active) /\ js[k].profile = jobs[k].profile /\ js[k].source = jobs[k].source
      BY <2>0, ExpiredType DEF Table, Expired, Stale, WithStatus, Is, Active, Row, Pending, Job
    <3> HIDE DEF js
    <3>5. PICK D \in SUBSET JobId : jobs' = Deleted(js, D)
      BY Zenon, <2>6 DEF SystemClaimNextDueJobAt, Settle, Trim, js
    <3>6. \A k \in JobId : jobs'[k] = IF k \in D THEN Gone ELSE js[k]
      BY Zenon, <3>5 DEF Deleted
    <3>7. \A k \in JobId : jobs'[k].status \in Active =>
            /\ jobs'[k].profile = jobs[k].profile /\ jobs'[k].source = jobs[k].source
            /\ k # j => Is(k, Active)
      BY SMTT(30), <3>3, <3>4, <3>6 DEF Gone, Active
    <3> QED
      BY SMTT(30), <3>1, <3>7 DEF LeaseExclusive, LeaseFree, Is
  <2>7. ASSUME NEW j \in JobId, NEW r \in Requests, SystemTransitionJob(j, r[1], r[2])
        PROVE  LeaseExclusive'
    <3>1. r[1] \in SUBSET Active /\ r[2] \in Row
      BY DEF Requests, Row, Pending, Active, Terminal, Prunable
    <3>2. Is(j, Active) /\ jobs[j] \in Job
      BY ZenonT(30), <2>0, <2>7, <3>1 DEF SystemTransitionJob, Is, Row, Pending
    <3>3. PICK D \in SUBSET JobId, st \in Row : jobs' = Deleted([jobs EXCEPT ![j].status = st], D)
      <4>1. CASE r[2] \in Active
        <5>1. jobs' = [jobs EXCEPT ![j].status = r[2]]
          BY Zenon, <2>7, <4>1 DEF SystemTransitionJob, Active, Terminal, Prunable
        <5>2. jobs' = Deleted([jobs EXCEPT ![j].status = r[2]], {})
          BY Zenon, <2>0, <5>1 DEF Deleted, Table
        <5> QED
          BY Zenon, <3>1, <5>2
      <4>2. CASE r[2] \notin Active
        <5>1. Resolve(j, r[2]) \in Row
          BY Zenon, <3>1 DEF Resolve, Row, Terminal, Prunable
        <5> QED
          BY Zenon, <2>7, <4>2, <5>1 DEF SystemTransitionJob, Settle, Trim
      <4> QED
        BY Zenon, <4>1, <4>2
    <3>4. \A k \in JobId : jobs'[k].status \in Active => SameLease(k)
      BY ZenonT(30), <2>0, <3>2, <3>3 DEF Deleted, Gone, SameLease, Is, Active, Table, Job
    <3> QED
      BY Zenon, <3>4, LeaseKept DEF Leased
  <2>8. ASSUME NEW j \in JobId, SystemMarkConfirmationStarted(j) PROVE LeaseExclusive'
    <3>1. jobs[j] \in Job
      BY Zenon, <2>0, <2>8 DEF SystemMarkConfirmationStarted, Is, Row, Pending
    <3> QED
      BY Zenon, <2>0, <2>8, <3>1, LeaseKept
         DEF SystemMarkConfirmationStarted, Leased, SameLease, Is, Table, Job
  <2>9. ASSUME NEW j \in JobId, RequestJobCancellation(j) PROVE LeaseExclusive'
    <3>1. Is(j, Row) /\ jobs[j] \in Job
      BY Zenon, <2>0, <2>9 DEF RequestJobCancellation, Is, Row, Pending, Terminal, Prunable
    <3>2. PICK D \in SUBSET JobId : jobs' = Deleted([jobs EXCEPT ![j] = CancelRow(@)], D)
      BY Zenon, <2>9 DEF RequestJobCancellation, Settle, Trim
    <3>3. \A k \in JobId : jobs'[k].status \in Active => SameLease(k)
      BY SMTT(30), <2>0, <3>1, <3>2, CancelRowType DEF Deleted, Gone, SameLease, Is, Active, Table
    <3> QED
      BY Zenon, <3>3, LeaseKept DEF Leased
  <2>10. ASSUME NEW u \in Users, DisableUser(u) PROVE LeaseExclusive'
    <3>1. PICK D \in SUBSET JobId :
            jobs' = Deleted([j \in JobId |-> IF j \in PendingOf(u) THEN CancelRow(jobs[j]) ELSE jobs[j]], D)
      BY Zenon, <2>10 DEF DisableUser, Settle, Trim
    <3>2. \A k \in PendingOf(u) : jobs[k] \in Job
      BY Zenon, <2>0 DEF PendingOf, Is, Row
    <3>3. \A k \in JobId : jobs'[k].status \in Active => SameLease(k)
      BY ZenonT(30), <3>1, <3>2, CancelRowType DEF Deleted, Gone, SameLease, Is, Active
    <3> QED
      BY Zenon, <3>3, LeaseKept DEF Leased
  <2>12. ASSUME NEW u \in Users, DeleteMember(u) PROVE LeaseExclusive'
    BY Zenon, <2>12, LeaseKept DEF DeleteMember, Deleted, Gone, Leased, SameLease, Is, Active
  <2>13. CASE UNCHANGED jobs
    BY Zenon, <2>13 DEF LeaseExclusive, Is
  <2> QED
    BY Zenon, <2>1, <2>2, <2>3, <2>4, <2>6, <2>7, <2>8, <2>9, <2>10, <2>12, <2>13
       DEF Next, vars, Tick, EnableUser, UpdateProfile, DeleteProfile
<1> QED
  BY <1>1, <1>2, TypeCorrect, PTL DEF Spec

-----------------------------------------------------------------------------
(***************************************************************************)
(* The life of a row.  Whatever a store call does to the other rows, to    *)
(* one row it does one of the following.                                   *)
(***************************************************************************)
\* The statuses a run of job j may end with.
Ends(j) ==
  IF jobs[j].conf THEN {"succeeded", "outcome_unknown"}
  ELSE IF jobs[j].cancel THEN {"cancelled", "interrupted"}
  ELSE Terminal \ {"outcome_unknown"}

\* A statement leaves row j alone or makes one update of it.
Updated(j, row) ==
  \/ row = jobs[j]
  \/ Is(j, {"queued"}) /\ ~Revoked(j) /\ row = WithStatus(j, "running")
  \/ Is(j, {"queued"}) /\ row = WithStatus(j, "failed")
  \/ Is(j, Active) /\ ~Revoked(j) /\ \E st \in Active : row = WithStatus(j, st)
  \/ Is(j, Active) /\ ~Revoked(j) /\ row = [jobs[j] EXCEPT !.conf = TRUE]
  \/ Is(j, Active) /\ \E st \in Ends(j) : row = WithStatus(j, st)
  \/ Is(j, Pending \cup {"cancelled"}) /\ row = CancelRow(jobs[j])

\* An update that retention may follow in the same statement.
Trimmed(j, row) ==
  /\ Updated(j, row) /\ row.status \in Prunable
  /\ row.status = "succeeded" => Is(j, {"succeeded"})

Admitted(j) ==
  /\ Is(j, {"unused"}) /\ jobs'[j] \in Job /\ jobs'[j].status = "queued"
  /\ ~jobs'[j].cancel /\ ~jobs'[j].conf
  /\ account[Owner[jobs'[j].profile]] = "active"

RowStep(j) ==
  \/ Updated(j, jobs'[j])
  \/ jobs'[j] = Gone /\ \E row \in Job : Trimmed(j, row)
  \/ Admitted(j)
  \/ jobs'[j] = Gone /\ Is(j, Terminal) /\ account'[UserOf(j)] = "deleted"

\* A guard loses its job only to retention, which had nothing to release.
GuardStep(s) ==
  resv[s] \in JobId /\ resv'[s] = Detached =>
    \E row \in Job : Trimmed(resv[s], row) /\ ~Releasable(row)

TableStep == (\A j \in JobId : RowStep(j)) /\ (\A s \in Slots : GuardStep(s))

\* No job has the id of a free or of a detached slot.
LEMMA Free == NoReservation \notin JobId /\ Detached \notin JobId /\ NoReservation # Detached
BY SMTT(30), BoundsAssumption DEF BoundsAssumption, JobId, NoReservation, Detached

\* A statement with its triggers is a step of every row.
LEMMA SettleRows ==
  ASSUME TypeOK, NEW js \in Table, NEW touched \in SUBSET JobId, NEW keep \in SUBSET JobId,
         Settle(js, touched, keep), \A j \in JobId : Updated(j, js[j]),
         \A j \in JobId \ keep : js[j].status = "succeeded" => Is(j, {"succeeded"})
  PROVE  TableStep
<1>1. PICK D \in SUBSET (JobId \ keep) : /\ \A j \in D : js[j].status \in Prunable
                                         /\ jobs' = Deleted(js, D)
                                         /\ resv' = Reservations(js, touched, D)
  BY Zenon DEF Settle, Trim
<1>2. \A j \in JobId : jobs'[j] = IF j \in D THEN Gone ELSE js[j]
  BY Zenon, <1>1 DEF Deleted
<1>3. \A j \in D : js[j] \in Job
  BY SMTT(30), <1>1 DEF Table, Prunable, Unused, Gone
<1>4. \A j \in D : Trimmed(j, js[j])
  BY Zenon, <1>1 DEF Trimmed
<1>5. \A s \in Slots : resv[s] \in JobId /\ resv'[s] = Detached => resv[s] \in D /\ ~Releasable(js[resv[s]])
  BY Zenon, <1>1, Free DEF Reservations
<1>6. \A j \in JobId : RowStep(j)
  BY Zenon, <1>1, <1>2, <1>3, <1>4 DEF RowStep
<1>7. \A s \in Slots : GuardStep(s)
  BY Zenon, <1>3, <1>4, <1>5 DEF GuardStep
<1> QED
  BY Zenon, <1>6, <1>7 DEF TableStep

\* Every store call is a step of every row.
LEMMA RowSteps ==
  ASSUME TypeOK, Next
  PROVE  TableStep
<1>0. jobs \in Table /\ \A j \in JobId : Is(j, Row) => jobs[j] \in Job
  BY ZenonT(30), RowIsJob DEF TypeOK, Table
<1>a. \A j \in JobId : Is(j, {"queued"}) \/ Is(j, Active) => Is(j, Row)
  BY Zenon DEF Is, Row, Pending
<1>b. \A j \in JobId : jobs[j] \in Job =>
        \A st : WithStatus(j, st).status = st /\ WithStatus(j, st) = [jobs[j] EXCEPT !.status = st]
  BY ZenonT(30) DEF WithStatus, Job
<1>c. ASSUME NEW D \in SUBSET JobId, \A j \in D : Is(j, Prunable), NEW j \in D
      PROVE  jobs[j] \in Job /\ Trimmed(j, jobs[j])
  <2>1. jobs[j] \in Job
    BY ZenonT(30), <1>0, <1>c DEF Is, Row, Terminal
  <2> QED
    BY Zenon, <1>c, <2>1 DEF Trimmed, Updated, Is
<1>1. CASE Enqueue
  <2>1. PICK p \in Profiles, s \in Sources, kind \in Kinds, d \in Dates, zone \in ZoneOffsets,
             due \in {now, now + 1} : EnqueueJob(p, s, kind, d, zone, due)
    BY Zenon, <1>1 DEF Enqueue
  <2> DEFINE new == NewJob(p, s, kind, d, due)
  <2>2. PICK D \in SUBSET JobId, j \in JobId :
             /\ Fresh(j) /\ jobs' = [Deleted(jobs, D) EXCEPT ![j] = new]
             /\ \A k \in D : jobs[k].status \in Prunable
             /\ resv' = [x \in Slots |-> IF kind.command = "book" /\ x = <<p, d>> THEN j
                                        ELSE Reservations(jobs, {}, D)[x]]
    BY <2>1, Zenon DEF EnqueueJob, Trim
  <2>3. new \in Job /\ new.status = "queued" /\ ~new.cancel /\ ~new.conf /\ new.profile = p
    BY ZenonT(30), NewJobType DEF NewJob, TypeOK
  <2>4. account[Owner[p]] = "active"
    BY Zenon, <2>1 DEF EnqueueJob
  <2> HIDE DEF new
  <2>5. \A k \in JobId : jobs'[k] = IF k = j THEN new ELSE IF k \in D THEN Gone ELSE jobs[k]
    BY ZenonT(30), <2>2 DEF Deleted
  <2>6. Admitted(j)
    BY ZenonT(30), <2>2, <2>3, <2>4, <2>5 DEF Admitted, Fresh
  <2>7. \A x \in Slots : resv[x] \in JobId /\ resv'[x] = Detached => resv[x] \in D /\ ~Releasable(jobs[resv[x]])
    BY ZenonT(30), <2>2, Free DEF Reservations
  <2> QED
    BY ZenonT(30), <1>c, <2>2, <2>5, <2>6, <2>7 DEF TableStep, RowStep, GuardStep, Updated, Is
<1>2. CASE SystemExpireStaleJobs
  <2>1. \A j \in JobId : Updated(j, Expired[j]) /\ (Expired[j].status = "succeeded" => Is(j, {"succeeded"}))
    BY <1>0, <1>a, <1>b DEF Expired, Stale, Updated, Is
  <2>2. StaleJobs \in SUBSET JobId
    BY Zenon DEF StaleJobs
  <2> QED
    BY ZenonT(30), <1>2, <2>1, <2>2, ExpiredType, SettleRows DEF SystemExpireStaleJobs
<1>3. CASE SystemRecoverInterruptedJobs
  <2>1. \A j \in JobId : Updated(j, Recovered[j]) /\ (Recovered[j].status = "succeeded" => Is(j, {"succeeded"}))
    BY <1>0, <1>a, <1>b DEF Recovered, Updated, Ends, Terminal, Prunable, Is
  <2>2. ActiveJobs \in SUBSET JobId
    BY Zenon DEF ActiveJobs
  <2> QED
    BY <1>3, <2>1, <2>2, RecoveredType, SettleRows DEF SystemRecoverInterruptedJobs
<1>4. CASE SystemPruneTerminalJobs
  <2>1. PICK D \in SUBSET JobId :
          /\ jobs' = Deleted(jobs, D) /\ \A j \in D : Is(j, Prunable)
          /\ resv' = [s \in Slots |-> IF resv[s] = Detached /\ PastEverywhere(s[2]) THEN NoReservation
                                       ELSE Reservations(jobs, {}, D)[s]]
    BY Zenon, <1>4 DEF SystemPruneTerminalJobs, Trim, Is
  <2>2. \A j \in JobId : jobs'[j] = IF j \in D THEN Gone ELSE jobs[j]
    BY Zenon, <2>1 DEF Deleted
  <2>3. \A s \in Slots : resv[s] \in JobId /\ resv'[s] = Detached => resv[s] \in D /\ ~Releasable(jobs[resv[s]])
    BY ZenonT(30), <2>1, Free DEF Reservations
  <2> QED
    BY ZenonT(30), <1>c, <2>1, <2>2, <2>3 DEF TableStep, RowStep, GuardStep, Updated
<1>6. ASSUME NEW j \in JobId, SystemClaimNextDueJobAt(j) PROVE TableStep
  <2> DEFINE js == [Expired EXCEPT ![j].status = "running"]
  <2>1. Is(j, {"queued"}) /\ ~Stale(j) /\ ~Revoked(j)
    BY Zenon, <1>6 DEF SystemClaimNextDueJobAt, Candidate
  <2>2. Expired[j] = jobs[j] /\ jobs[j] \in Job /\ Expired \in Table
    BY ZenonT(30), <1>0, <1>a, <2>1, ExpiredType DEF Expired
  <2>3. js \in Table
    BY ZenonT(30), <2>2, ExpiredType, RowStatusType DEF Row, Pending, Active
  <2>4. js[j] = WithStatus(j, "running") /\ \A k \in JobId : k # j => js[k] = Expired[k]
    BY <1>b, <2>2 DEF Table
  <2> HIDE DEF js
  <2>5. \A k \in JobId : Updated(k, js[k]) /\ (js[k].status = "succeeded" => Is(k, {"succeeded"}))
    BY <1>0, <1>a, <1>b, <2>1, <2>2, <2>4 DEF Expired, Stale, Updated, Is
  <2>6. Settle(js, StaleJobs, {}) /\ StaleJobs \in SUBSET JobId
    BY Zenon, <1>6 DEF SystemClaimNextDueJobAt, js, StaleJobs
  <2> QED
    BY ZenonT(30), <2>3, <2>5, <2>6, SettleRows
<1>7. ASSUME NEW j \in JobId, NEW r \in Requests, SystemTransitionJob(j, r[1], r[2])
      PROVE  TableStep
  <2>1. r[1] \in SUBSET Active /\ r[2] \in Row
    BY DEF Requests, Row, Pending, Active, Terminal, Prunable
  <2>2. Is(j, Active) /\ jobs[j] \in Job /\ (r[2] = "outcome_unknown" => jobs[j].conf)
    BY Zenon, <1>0, <1>7, <2>1 DEF SystemTransitionJob, Is, Row, Pending
  <2>3. CASE r[2] \in Active
    <3>1. jobs' = [jobs EXCEPT ![j].status = r[2]] /\ ~Revoked(j) /\ UNCHANGED resv
      BY Zenon, <1>7, <2>3 DEF SystemTransitionJob, Active, Terminal, Prunable
    <3>2. jobs'[j] = WithStatus(j, r[2]) /\ \A k \in JobId : k # j => jobs'[k] = jobs[k]
      BY SMTT(30), <1>0, <1>b, <2>2, <3>1 DEF Table
    <3> QED
      BY ZenonT(30), <2>2, <2>3, <3>1, <3>2, Free DEF TableStep, RowStep, GuardStep, Updated
  <2>4. CASE r[2] \notin Active
    <3> DEFINE js == [jobs EXCEPT ![j].status = Resolve(j, r[2])]
    <3>1. r[2] \in Terminal
      BY Zenon, <1>7, <2>4 DEF SystemTransitionJob
    <3>2. Resolve(j, r[2]) \in Ends(j) /\ Resolve(j, r[2]) \in Row
      BY ZenonT(30), <2>2, <3>1 DEF Resolve, Ends, Revoked, Row, Terminal, Prunable
    <3>3. js \in Table
      BY Zenon, <1>0, <2>2, <3>2, RowStatusType DEF TypeOK, DatesOK, Is, IsBook
    <3>4. js[j] = WithStatus(j, Resolve(j, r[2])) /\ \A k \in JobId : k # j => js[k] = jobs[k]
      BY ZenonT(30), <1>0, <1>b, <2>2 DEF Table
    <3> HIDE DEF js
    <3>5. \A k \in JobId : Updated(k, js[k]) /\ (k # j => js[k] = jobs[k])
      BY Zenon, <2>2, <3>2, <3>4 DEF Updated
    <3>6. Settle(js, {j}, {j})
      BY Zenon, <1>7, <2>4 DEF SystemTransitionJob, js
    <3> QED
      BY ZenonT(30), <3>3, <3>5, <3>6, SettleRows DEF Is
  <2> QED
    BY ZenonT(30), <2>3, <2>4
<1>8. ASSUME NEW j \in JobId, SystemMarkConfirmationStarted(j) PROVE TableStep
  <2>1. /\ Is(j, Active) /\ ~Revoked(j) /\ jobs'[j] = [jobs[j] EXCEPT !.conf = TRUE]
        /\ UNCHANGED resv /\ \A k \in JobId : k # j => jobs'[k] = jobs[k]
    BY Zenon, <1>0, <1>8 DEF SystemMarkConfirmationStarted, Table
  <2> QED
    BY ZenonT(30), <2>1, Free DEF TableStep, RowStep, GuardStep, Updated
<1>9. ASSUME NEW j \in JobId, RequestJobCancellation(j) PROVE TableStep
  <2> DEFINE js == [jobs EXCEPT ![j] = CancelRow(@)]
  <2>1. Is(j, Pending \cup {"cancelled"}) /\ jobs[j] \in Job
    BY ZenonT(30), <1>0, <1>9 DEF RequestJobCancellation, Is, Row, Terminal, Prunable
  <2>2. js \in Table /\ js[j] = CancelRow(jobs[j]) /\ \A k \in JobId : k # j => js[k] = jobs[k]
    BY Zenon, <1>0, <2>1, CancelRowType DEF Table
  <2> HIDE DEF js
  <2>3. \A k \in JobId : Updated(k, js[k]) /\ (k # j => js[k] = jobs[k])
    BY ZenonT(30), <2>1, <2>2 DEF Updated
  <2>4. Settle(js, {j}, {j})
    BY Zenon, <1>9 DEF RequestJobCancellation, js
  <2> QED
    BY ZenonT(30), <2>2, <2>3, <2>4, SettleRows DEF Is
<1>10. ASSUME NEW u \in Users, DisableUser(u) PROVE TableStep
  <2> DEFINE js == [k \in JobId |-> IF k \in PendingOf(u) THEN CancelRow(jobs[k]) ELSE jobs[k]]
  <2>1. \A k \in PendingOf(u) : k \in JobId /\ Is(k, Pending) /\ jobs[k] \in Job
    BY Zenon, <1>0 DEF PendingOf, Is, Row
  <2>2. js \in Table
    BY Zenon, <1>0, <2>1, CancelRowType DEF Table
  <2>3. \A k \in JobId : js[k] = IF k \in PendingOf(u) THEN CancelRow(jobs[k]) ELSE jobs[k]
    BY Zenon
  <2> HIDE DEF js
  <2>4. \A k \in JobId : Updated(k, js[k])
    BY ZenonT(30), <2>1, <2>3 DEF Updated, Is
  <2>5. \A k \in JobId : js[k].status = "succeeded" => Is(k, {"succeeded"})
    BY SMTT(30), <2>1, <2>3, CancelRowType DEF Is, Pending, Active
  <2>6. Settle(js, PendingOf(u), {}) /\ PendingOf(u) \in SUBSET JobId
    BY Zenon, <1>10, <2>1 DEF DisableUser, js
  <2> QED
    BY <2>2, <2>4, <2>5, <2>6, SettleRows
<1>11. ASSUME UNCHANGED jobs, \A s \in Slots : resv'[s] \in {resv[s], NoReservation} PROVE TableStep
  BY Zenon, <1>11, Free DEF TableStep, RowStep, GuardStep, Updated
<1>12. ASSUME NEW u \in Users, DeleteMember(u) PROVE TableStep
  <2>1. \A k \in JobId : jobs'[k] = IF k \in OwnedBy(jobs, u, Row) THEN Gone ELSE jobs[k]
    BY ZenonT(30), <1>12 DEF DeleteMember, Deleted
  <2>2. \A k \in OwnedBy(jobs, u, Row) : Is(k, Terminal) /\ account'[UserOf(k)] = "deleted"
    BY ZenonT(30), <1>12 DEF DeleteMember, OwnedBy, PendingOf, UserOf, Is, Row, TypeOK
  <2>3. \A s \in Slots : resv'[s] \in {resv[s], NoReservation}
    BY Zenon, <1>12 DEF DeleteMember
  <2> QED
    BY ZenonT(30), <2>1, <2>2, <2>3, Free DEF TableStep, RowStep, GuardStep, Updated
<1>13. ASSUME NEW p \in Profiles, DeleteProfile(p) PROVE TableStep
  BY ZenonT(30), <1>11, <1>13 DEF DeleteProfile
<1> QED
  BY Zenon, <1>1, <1>2, <1>3, <1>4, <1>6, <1>7, <1>8, <1>9, <1>10, <1>11, <1>12, <1>13
     DEF Next, Tick, EnableUser, UpdateProfile

\* What an update changes, column by column.
LEMMA UpdateColumns ==
  ASSUME TypeOK, NEW j \in JobId, NEW row, Updated(j, row), row # jobs[j]
  PROVE  /\ Is(j, Pending \cup {"cancelled"}) /\ jobs[j] \in Job
         /\ row.profile = jobs[j].profile /\ row.command = jobs[j].command
         /\ \/ /\ row.cancel = jobs[j].cancel /\ row.conf = jobs[j].conf
               /\ \/ Is(j, {"queued"}) /\ jobs[j].cancel = FALSE /\ row.status = "running"
                  \/ Is(j, {"queued"}) /\ row.status = "failed"
                  \/ Is(j, Active) /\ jobs[j].cancel = FALSE /\ row.status \in Active
                  \/ Is(j, Active) /\ row.status \in Ends(j)
            \/ /\ Is(j, Active) /\ jobs[j].cancel = FALSE /\ row.status = jobs[j].status
               /\ row.cancel = jobs[j].cancel /\ row.conf = TRUE
            \/ /\ row.status = IF jobs[j].status = "queued" THEN "cancelled" ELSE jobs[j].status
               /\ row.cancel = TRUE /\ row.conf = jobs[j].conf
<1>1. Is(j, Pending \cup {"cancelled"})
  BY Zenon DEF Updated, Is, Pending
<1>2. jobs[j] \in Job
  BY ZenonT(30), <1>1, RowIsJob DEF Row, Terminal, Prunable
<1>3. \A st : LET new == WithStatus(j, st) IN
        /\ new.status = st /\ new.profile = jobs[j].profile /\ new.command = jobs[j].command
        /\ new.cancel = jobs[j].cancel /\ new.conf = jobs[j].conf
  BY Zenon, <1>2 DEF WithStatus, Job
<1>4. ~Revoked(j) => jobs[j].cancel = FALSE
  BY Zenon, <1>2 DEF Revoked, Job
<1>5. CASE Is(j, {"queued"}) /\ ~Revoked(j) /\ row = WithStatus(j, "running")
  BY ZenonT(30), <1>1, <1>2, <1>3, <1>4, <1>5
<1>6. CASE Is(j, {"queued"}) /\ row = WithStatus(j, "failed")
  BY ZenonT(30), <1>1, <1>2, <1>3, <1>6
<1>7. CASE Is(j, Active) /\ ~Revoked(j) /\ \E st \in Active : row = WithStatus(j, st)
  BY <1>1, <1>2, <1>3, <1>4, <1>7
<1>8. CASE Is(j, Active) /\ ~Revoked(j) /\ row = [jobs[j] EXCEPT !.conf = TRUE]
  BY Zenon, <1>1, <1>2, <1>4, <1>8 DEF Job
<1>9. CASE Is(j, Active) /\ \E st \in Ends(j) : row = WithStatus(j, st)
  BY <1>1, <1>2, <1>3, <1>9
<1>10. CASE row = CancelRow(jobs[j])
  <2>1. row.cancel = TRUE
    BY <1>2, <1>10, Zenon DEF CancelRow, Job
  <2> QED
    BY Zenon, <1>1, <1>2, <1>10, <2>1, CancelRowType
<1> QED
  BY ZenonT(30), <1>5, <1>6, <1>7, <1>8, <1>9, <1>10 DEF Updated

\* So a row that an update leaves behind was a row with the same owner, whose
\* cancellation and mark it keeps, and it is queued only if it was.
LEMMA RowKept ==
  ASSUME TypeOK, NEW j \in JobId, NEW row, Updated(j, row), row.status \in Row
  PROVE  /\ Is(j, Row) /\ jobs[j] \in Job /\ row.profile = jobs[j].profile
         /\ jobs[j].cancel => row.cancel
         /\ jobs[j].conf => row.conf
         /\ row.status = "queued" => Is(j, {"queued"})
         /\ row.status \in Pending => Is(j, Pending)
<1>1. CASE row = jobs[j]
  BY Zenon, <1>1, RowIsJob DEF Is
<1>2. CASE row # jobs[j]
  BY ZenonT(30), <1>2, UpdateColumns DEF Is, Row, Pending, Active, Ends, Terminal, Prunable
<1> QED
  BY Zenon, <1>1, <1>2

(***************************************************************************)
(* A started confirmation decides how its job may end.                     *)
(***************************************************************************)
\* A job whose confirmation has started runs, succeeded or is in doubt: it is not
\* queued again and never in a status the operator may retry.
MarkedRows ==
  \A j \in JobId : Is(j, Row) /\ jobs[j].conf =>
    Is(j, Active \cup {"succeeded", "outcome_unknown"})

\* One update keeps that.
LEMMA MarkedKept ==
  ASSUME TypeOK, MarkedRows, NEW j \in JobId, NEW row, Updated(j, row), row.status \in Row, row.conf
  PROVE  row.status \in Active \cup {"succeeded", "outcome_unknown"}
<1>1. CASE row = jobs[j]
  BY Zenon, <1>1 DEF MarkedRows, Is
<1>2. CASE row # jobs[j]
  <2>1. Is(j, Row)
    BY Zenon, RowKept
  <2> QED
    BY ZenonT(30), <1>2, <2>1, UpdateColumns DEF MarkedRows, Is, Ends, Active, Pending
<1> QED
  BY Zenon, <1>1, <1>2

\* The mark decides in every state which statuses a job may have: claims, restarts,
\* results and cancellations all respect it.
THEOREM MarksAreRespected == Spec => []MarkedRows
<1>1. Init => MarkedRows
  BY DEF Init, MarkedRows, Is, Unused, Row, Pending, Active, Terminal, Prunable
<1>2. TypeOK /\ MarkedRows /\ Next => MarkedRows'
  <2> SUFFICES ASSUME TypeOK, MarkedRows, Next, NEW j \in JobId,
                      jobs'[j].status \in Row, jobs'[j].conf
               PROVE  jobs'[j].status \in Active \cup {"succeeded", "outcome_unknown"}
    BY Zenon DEF MarkedRows, Is
  <2>1. RowStep(j)
    BY Zenon, RowSteps DEF TableStep
  <2>2. Updated(j, jobs'[j])
    BY <2>1 DEF RowStep, Admitted, Gone, Row, Pending, Active, Terminal, Prunable
  <2> QED
    BY Zenon, <2>2, MarkedKept
<1>3. MarkedRows /\ UNCHANGED vars => MarkedRows'
  BY Zenon DEF MarkedRows, vars, Is
<1> QED
  BY <1>1, <1>2, <1>3, TypeCorrect, PTL DEF Spec

\* Each row lives the life JobLifecycle describes, whatever store calls interleave
\* and whichever rows the triggers delete: a row that retention removes in the step
\* that ends it was not marked, because MarkedRows keeps a marked one out of Prunable.
THEOREM RowsFollowLifecycle == Spec => EveryJobFollowsLifecycle
<1>1. Init => \A j \in JobId : Lifecycle(j)!Init
  BY DEF Init, Lifecycle!Init, Is, Unused, Row, Pending, Active, Terminal, Prunable
<1>2. TypeOK /\ MarkedRows /\ Next => \A j \in JobId : [Lifecycle(j)!Next]_(Lifecycle(j)!vars)
  <2> SUFFICES ASSUME TypeOK, MarkedRows, Next, NEW j \in JobId
               PROVE  [Lifecycle(j)!Next]_(Lifecycle(j)!vars)
    OBVIOUS
  <2>1. RowStep(j)
    BY Zenon, RowSteps DEF TableStep
  <2>2. CASE Updated(j, jobs'[j])
    <3>1. CASE jobs'[j] = jobs[j]
      BY ZenonT(30), <3>1 DEF Lifecycle!vars, Is
    <3>2. CASE jobs'[j] # jobs[j]
      <4>1. Is(j, Row) /\ Is(j, Row)' /\ jobs[j] \in Job
        BY ZenonT(30), <2>2, <3>2, UpdateColumns DEF Is, Row, Pending, Active, Ends, Terminal, Prunable
      <4> QED
        BY ZenonT(30), <2>2, <3>2, <4>1, UpdateColumns
           DEF Is, Ends, Pending, Active, Terminal, Prunable,
               Lifecycle!Next, Lifecycle!Claim, Lifecycle!Expire, Lifecycle!Approval, Lifecycle!End,
               Lifecycle!StartConfirmation, Lifecycle!RequestCancellation,
               Lifecycle!Pending, Lifecycle!Active, Lifecycle!Terminal
    <3> QED
      BY ZenonT(30), <3>1, <3>2
  <2>3. CASE jobs'[j] = Gone /\ \E row \in Job : Trimmed(j, row)
    <3>1. PICK row \in Job : Trimmed(j, row)
      BY ZenonT(30), <2>3
    <3>2. Is(j, Row) /\ jobs[j] \in Job /\ row.status \in Row /\ (jobs[j].conf => row.conf)
      BY ZenonT(30), <3>1, RowKept DEF Trimmed, Row, Terminal
    <3>3. row.conf => row.status = "succeeded"
      BY <3>1, <3>2, MarkedKept DEF Trimmed, Prunable, Active
    <3>4. Is(j, Terminal) \/ (Is(j, Pending) /\ jobs[j].conf = FALSE)
      <4>1. CASE jobs[j].conf
        <5>1. row.status = "succeeded"
          BY ZenonT(30), <3>2, <3>3, <4>1
        <5>2. Is(j, {"succeeded"})
          BY ZenonT(30), <3>1, <5>1 DEF Trimmed
        <5> QED
          BY Zenon, <5>2 DEF Is, Terminal, Prunable
      <4>2. CASE ~jobs[j].conf
        BY ZenonT(30), <3>2, <4>2 DEF Is, Row, Job
      <4> QED
        BY ZenonT(30), <4>1, <4>2
    <3>5. jobs'[j].status = "deleted" /\ ~Is(j, Row)'
      BY <2>3 DEF Gone, Is, Row, Pending, Active, Terminal, Prunable
    <3>6. \/ jobs[j].status \in Lifecycle(j)!Terminal
          \/ jobs[j].status \in Lifecycle(j)!Pending /\ jobs[j].conf = FALSE
      BY Zenon, <3>4 DEF Is, Pending, Active, Terminal, Prunable, Lifecycle!Pending, Lifecycle!Active,
         Lifecycle!Terminal
    <3>7. Lifecycle(j)!Forget
      BY Zenon, <3>2, <3>5, <3>6 DEF Lifecycle!Forget
    <3> QED
      BY Zenon, <3>7 DEF Lifecycle!Next
  <2>4. CASE Admitted(j)
    BY ZenonT(30), <2>4 DEF Admitted, Job, Is, Row, Pending, Active, Terminal, Prunable, Lifecycle!Next,
       Lifecycle!Admit
  <2>5. CASE jobs'[j] = Gone /\ Is(j, Terminal)
    BY <2>5 DEF Gone, Is, Row, Pending, Active, Terminal, Prunable, Lifecycle!Next,
       Lifecycle!Forget, Lifecycle!Terminal
  <2> QED
    BY Zenon, <2>1, <2>2, <2>3, <2>4, <2>5 DEF RowStep
<1> QED
  BY <1>1, <1>2, TypeCorrect, MarksAreRespected, PTL DEF Spec, EveryJobFollowsLifecycle

\* A terminal status never changes, and an unknown outcome stays on record until its
\* member is removed: no statement updates a terminal row except to note a cancellation,
\* and retention only takes prunable rows.
THEOREM TerminalStatusesAreFinal == Spec => TerminalIsFinal
<1>1. TypeOK /\ Next => \A j \in JobId : Is(j, Terminal) =>
        \/ jobs'[j].status = jobs[j].status
        \/ /\ jobs'[j].status = "deleted"
           /\ Is(j, {"outcome_unknown"}) => account'[UserOf(j)] = "deleted"
  <2> SUFFICES ASSUME TypeOK, Next, NEW j \in JobId, Is(j, Terminal)
               PROVE  \/ jobs'[j].status = jobs[j].status
                      \/ /\ jobs'[j].status = "deleted"
                         /\ Is(j, {"outcome_unknown"}) => account'[UserOf(j)] = "deleted"
    BY Zenon
  <2>1. RowStep(j)
    BY Zenon, RowSteps DEF TableStep
  <2>2. jobs[j] \in Job
    BY Zenon, RowIsJob DEF Row
  <2>3. \A row : Updated(j, row) => row.status = jobs[j].status
    BY SMTT(30), <2>2, CancelRowType DEF Updated, Is, Terminal, Prunable, Active
  <2>4. CASE jobs'[j] = Gone /\ \E row \in Job : Trimmed(j, row)
    BY <2>3, <2>4 DEF Trimmed, Gone, Is, Prunable
  <2> QED
    BY SMTT(30), <2>1, <2>3, <2>4 DEF RowStep, Admitted, Gone, Is, Terminal, Prunable
<1> QED
  BY <1>1, TypeCorrect, PTL DEF Spec, TerminalIsFinal

(***************************************************************************)
(* Accounts.                                                               *)
(***************************************************************************)
\* A disabled account has no queued job, and every job it still runs carries the
\* cancellation: DisableUser cancels in its own transaction, only an active account
\* admits jobs, and no update takes a cancellation back.
THEOREM DisabledAccountsAreRevoked == Spec => []DisabledWorkIsRevoked
<1>1. Init => DisabledWorkIsRevoked
  BY SMTT(30) DEF Init, DisabledWorkIsRevoked, Is, Unused, Pending, Active
<1>2. TypeOK /\ DisabledWorkIsRevoked /\ Next => DisabledWorkIsRevoked'
  <2> SUFFICES ASSUME TypeOK, DisabledWorkIsRevoked, Next, NEW j \in JobId,
                      jobs'[j].status \in Pending, account'[Owner[jobs'[j].profile]] # "active"
               PROVE  jobs'[j].cancel /\ jobs'[j].status # "queued"
    BY Zenon DEF DisabledWorkIsRevoked, Is, UserOf
  <2>1. RowStep(j)
    BY Zenon, RowSteps DEF TableStep
  <2>2. CASE UNCHANGED account
    <3>1. Updated(j, jobs'[j])
      BY SMTT(30), <2>1, <2>2 DEF RowStep, Admitted, Gone, Pending, Active
    <3> QED
      BY SMTT(30), <2>2, <3>1, RowKept DEF DisabledWorkIsRevoked, Is, UserOf, Row
  <2>3. ASSUME NEW u \in Users, DisableUser(u) PROVE jobs'[j].cancel /\ jobs'[j].status # "queued"
    <3> DEFINE js == [k \in JobId |-> IF k \in PendingOf(u) THEN CancelRow(jobs[k]) ELSE jobs[k]]
    <3>1. PICK D \in SUBSET JobId : jobs' = Deleted(js, D)
      BY ZenonT(30), <2>3 DEF DisableUser, Settle, Trim
    <3>2. jobs'[j] = IF j \in PendingOf(u) THEN CancelRow(jobs[j]) ELSE jobs[j]
      BY Zenon, <3>1 DEF Deleted, Gone, Pending, Active
    <3>3. CASE j \in PendingOf(u)
      <4>1. jobs[j] \in Job
        BY Zenon, <3>3, RowIsJob DEF PendingOf, Row, Is
      <4> QED
        BY SMTT(30), <3>2, <3>3, <4>1, CancelRowType
    <3>4. CASE j \notin PendingOf(u)
      <4>1. jobs'[j] = jobs[j] /\ UserOf(j) # u /\ Is(j, Pending)
        BY Zenon, <3>2, <3>4 DEF PendingOf, Is
      <4>2. account[UserOf(j)] # "active"
        BY SMTT(30), <2>3, <4>1 DEF DisableUser, TypeOK, UserOf
      <4> QED
        BY Zenon, <4>1, <4>2 DEF DisabledWorkIsRevoked, Is
    <3> QED
      BY Zenon, <3>3, <3>4
  <2>4. ASSUME NEW u \in Users, EnableUser(u) PROVE jobs'[j].cancel /\ jobs'[j].status # "queued"
    BY SMTT(30), <2>4 DEF EnableUser, DisabledWorkIsRevoked, TypeOK, Is, UserOf
  <2>5. ASSUME NEW u \in Users, DeleteMember(u) PROVE jobs'[j].cancel /\ jobs'[j].status # "queued"
    <3>1. jobs'[j] = jobs[j]
      BY Zenon, <2>5 DEF DeleteMember, Deleted, Gone, Pending, Active
    <3>2. UserOf(j) # u
      BY Zenon, <2>5, <3>1 DEF DeleteMember, PendingOf, Is
    <3>3. account' = [account EXCEPT ![u] = "deleted"] /\ account \in [Users -> {"active", "disabled", "deleted"}]
      BY Zenon, <2>5 DEF DeleteMember, TypeOK
    <3>4. account[UserOf(j)] # "active"
      BY SMTT(30), <3>1, <3>2, <3>3 DEF UserOf
    <3> QED
      BY Zenon, <3>1, <3>4 DEF DisabledWorkIsRevoked, Is
  <2>6. \/ UNCHANGED account
        \/ \E u \in Users : DisableUser(u) \/ EnableUser(u) \/ DeleteMember(u)
    <3>1. Enqueue => UNCHANGED account
      BY DEF Enqueue, EnqueueJob
    <3>2. SystemExpireStaleJobs \/ SystemRecoverInterruptedJobs \/ SystemPruneTerminalJobs \/ Tick
          => UNCHANGED account
      BY Zenon DEF SystemExpireStaleJobs, SystemRecoverInterruptedJobs, SystemPruneTerminalJobs, Tick
    <3>3. ASSUME NEW k \in JobId
          PROVE  \/ SystemClaimNextDueJobAt(k)
                 \/ \E r \in Requests : SystemTransitionJob(k, r[1], r[2])
                 \/ SystemMarkConfirmationStarted(k)
                 \/ RequestJobCancellation(k)
                 => UNCHANGED account
      BY Zenon DEF SystemClaimNextDueJobAt, SystemTransitionJob, SystemMarkConfirmationStarted,
         RequestJobCancellation
    <3>4. ASSUME NEW p \in Profiles
          PROVE  (\E e \in {"enabled", "disabled"} : UpdateProfile(p, e)) \/ DeleteProfile(p)
                 => UNCHANGED account
      BY Zenon DEF UpdateProfile, DeleteProfile
    <3> QED
      BY Zenon, <3>1, <3>2, <3>3, <3>4 DEF Next
  <2> QED
    BY Zenon, <2>2, <2>3, <2>4, <2>5, <2>6
<1>3. DisabledWorkIsRevoked /\ UNCHANGED vars => DisabledWorkIsRevoked'
  BY Zenon DEF DisabledWorkIsRevoked, vars, Is, UserOf
<1> QED
  BY <1>1, <1>2, <1>3, TypeCorrect, PTL DEF Spec

(***************************************************************************)
(* Guards.                                                                 *)
(***************************************************************************)
\* Retention detaches a guard only from a booking that succeeded: a retryable attempt
\* that the triggers delete was not marked, so its guard is released with it.
THEOREM DetachedGuardsAreSuccesses == Spec => OnlySuccessesDetach
<1>1. TypeOK /\ MarkedRows /\ ReservationsMatchJobs /\ Next =>
        \A s \in Slots : resv[s] \in JobId /\ resv'[s] = Detached => Is(resv[s], {"succeeded"})
  <2> SUFFICES ASSUME TypeOK, MarkedRows, ReservationsMatchJobs, Next, NEW s \in Slots,
                      resv[s] \in JobId, resv'[s] = Detached
               PROVE  Is(resv[s], {"succeeded"})
    BY Zenon
  <2> DEFINE j == resv[s]
  <2>1. IsBook(j) /\ Is(j, Row)
    BY Zenon DEF ReservationsMatchJobs
  <2>2. PICK row \in Job : Trimmed(j, row) /\ ~Releasable(row)
    BY Zenon, RowSteps DEF TableStep, GuardStep
  <2> HIDE DEF j
  <2>3. j \in JobId /\ Updated(j, row) /\ row.status \in Row
    BY Zenon, <2>2 DEF j, Trimmed, Row, Terminal
  <2>4. row.command = "book"
    BY Zenon, <2>1, <2>3, UpdateColumns DEF IsBook
  <2>5. row.conf => row.status = "succeeded"
    BY ZenonT(30), <2>2, <2>3, MarkedKept DEF Trimmed, Prunable, Active
  <2>6. row.status = "succeeded"
    BY ZenonT(30), <2>2, <2>4, <2>5 DEF Releasable, Trimmed, Prunable, Retryable
  <2> QED
    BY ZenonT(30), <2>2, <2>6 DEF Trimmed, j
<1>2. Spec => []ReservationsMatchJobs
  BY BookingGuard, PTL
<1> QED
  BY <1>1, <1>2, TypeCorrect, MarksAreRespected, PTL DEF Spec, OnlySuccessesDetach
=============================================================================
