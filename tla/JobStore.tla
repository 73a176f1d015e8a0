------------------------------ MODULE JobStore ------------------------------
(***************************************************************************)
(* The durable job queue of internal/store: the jobs and                   *)
(* booking_reservations tables with their triggers, and the account and    *)
(* profile columns the queue reads.  Every action is one store call, which *)
(* SQLite runs as one statement or one immediate transaction, so actions   *)
(* of any number of workers, HTTP handlers and CLI processes interleave    *)
(* here exactly as their transactions do in the database.                  *)
(*                                                                         *)
(* Abstractions: a row keeps the columns some guard reads.  Time advances  *)
(* in ticks of half a day, the grain at which a date differs between time  *)
(* zones.  History is trimmed oldest first in the code; which old rows go  *)
(* is left open here, and no property depends on it.                       *)
(***************************************************************************)
EXTENDS Integers, FiniteSets

CONSTANTS
  Users,        \* accounts
  Admin,        \* the one permanent administrator
  Profiles,     \* Yodel sign-ins (browser profiles)
  Sources,      \* OTP sources
  Owner,        \* the account that owns each profile and source
  Dates,        \* target dates, as day numbers
  MaxJobs,      \* bound: job ids ever allocated
  MaxTime,      \* bound: the last tick
  MaxPending,   \* MaxPendingJobsPerUser
  MaxHistory,   \* MaxTerminalJobHistoryPerUser
  MaxRetained,  \* MaxRetainedJobsPerUser
  Commands      \* the commands this instance queues

VARIABLES
  account,   \* users.status, and "deleted" for a removed row
  profile,   \* profiles.enabled, and "deleted" for a removed row
  jobs,      \* the jobs table
  resv,      \* booking_reservations: the job id holding each profile/date
  now,       \* the wall clock
  confirmed  \* history: every <<slot, job>> whose confirmation ever started

vars == <<account, profile, jobs, resv, now, confirmed>>

JobId == 1..MaxJobs
Slots == Profiles \X Dates
NoReservation == 0
Detached == -1       \* a row with job_id NULL
NoExpiry == 0        \* expires_at IS NULL

ASSUME BoundsAssumption ==
  /\ MaxJobs \in Nat /\ MaxTime \in Nat
  /\ MaxPending \in Nat \ {0} /\ MaxRetained \in Nat \ {0}
  /\ MaxHistory \in Nat \ {0}
  /\ Dates \subseteq Nat

ASSUME OwnerAssumption ==
  /\ Owner \in [Profiles \cup Sources -> Users]
  /\ Admin \in Users
  /\ Commands \subseteq {"auth-check", "dry-run", "book"}

(***************************************************************************)
(* Statuses (model/jobs.go).                                               *)
(***************************************************************************)
Active   == {"running", "awaiting_approval"}
Pending  == Active \cup {"queued"}
\* Mutant: unknown outcomes count as prunable history.
PrunableWithUnknown == {"succeeded", "failed", "cancelled", "interrupted", "outcome_unknown"}
Prunable == {"succeeded", "failed", "cancelled", "interrupted"}
Terminal == Prunable \cup {"outcome_unknown"}
Retryable == {"failed", "cancelled", "interrupted"}
Row      == Pending \cup Terminal

CanTransition(from, to) ==
  \/ from = "queued" /\ to \in {"running", "cancelled"}
  \/ from = "running" /\ to \in Terminal \cup {"awaiting_approval"}
  \/ /\ from = "awaiting_approval"
     /\ to \in {"running", "cancelled", "failed", "interrupted", "outcome_unknown"}

Job == [status : Row, profile : Profiles, source : Sources,
        command : {"auth-check", "dry-run", "book"},
        date : Nat,           \* the target date of a booking, 0 for other jobs
        request : BOOLEAN,    \* booking_request_id IS NOT NULL
        pairing : BOOLEAN,    \* dedup_key GLOB 'pairing:*'
        due : Nat, expires : Nat,
        cancel : BOOLEAN,     \* cancel_requested
        conf : BOOLEAN]       \* confirmation_started_at IS NOT NULL
Unused == [status |-> "unused"]    \* an id not allocated yet
Gone   == [status |-> "deleted"]   \* AUTOINCREMENT never reuses an id

Is(j, S)   == jobs[j].status \in S
UserOf(j)  == Owner[jobs[j].profile]
SlotOf(j)  == <<jobs[j].profile, jobs[j].date>>
IsBook(j)  == jobs[j].command = "book"
Revoked(j) == jobs[j].cancel \/ account[UserOf(j)] # "active"
WithStatus(j, st) == [jobs[j] EXCEPT !.status = st]
Fresh(j) == Is(j, {"unused"}) /\ \A k \in 1..(j - 1) : ~Is(k, {"unused"})

(***************************************************************************)
(* Triggers.  js is the jobs table after a statement has set the status of *)
(* the rows in touched; D is the set of rows the retention trigger (or     *)
(* pruneJobHistory) then deletes.                                          *)
(***************************************************************************)
History(js, u) == {j \in JobId : js[j].status \in Prunable /\ Owner[js[j].profile] = u}

Trim(js, keep) ==
  {D \in SUBSET {j \in JobId \ keep : js[j].status \in Prunable} :
     \A u \in Users :
       /\ Cardinality(History(js, u) \ D) <= MaxHistory
       /\ D \cap History(js, u) # {} => Cardinality(History(js, u) \ D) = MaxHistory}

Releasable(row) == row.command = "book" /\ ~row.conf /\ row.status \in Retryable

Deleted(js, D) ==
  [j \in JobId |-> IF j \in D THEN Gone ELSE js[j]]

\* Mutant: no release before a delete.
ReservationsNoDeleteTrigger(js, touched, D) ==
  [s \in Slots |->
     IF resv[s] \in touched \ D /\ Releasable(js[resv[s]]) THEN NoReservation
     ELSE IF resv[s] \in D THEN Detached
     ELSE resv[s]]
Reservations(js, touched, D) ==
  [s \in Slots |->
     IF resv[s] \in touched \cup D /\ Releasable(js[resv[s]]) THEN NoReservation
     ELSE IF resv[s] \in D THEN Detached
     ELSE resv[s]]

Settle(js, touched, keep) ==
  \E D \in Trim(js, keep) :
    /\ jobs' = Deleted(js, D)
    /\ resv' = Reservations(js, touched, D)

(***************************************************************************)
(* Admission (EnqueueJob, EnqueueBookingRequest and their callers in the   *)
(* engine).  A booking is admitted only while its date has not passed in   *)
(* the request's time zone, and always with an expiry.  The OTP source is  *)
(* the explicit one, the account's default or the profile's own; all three *)
(* are sources of the same owner, chosen freely by that owner.             *)
(***************************************************************************)
ZoneOffsets == {-1, 0, 1}     \* UTC-12 .. UTC+12, in ticks
UTCDate(t) == t \div 2
LocalDate(t, zone) == (t + zone) \div 2

DatePassed(d, zone) == LocalDate(now, zone) > d

\* The job kinds callers queue: QueueProfileSignIn, QueuePairing, and
\* SystemQueueBooking or QueueLakeBooking.
SignIn(pairing) ==
  [command |-> "auth-check", request |-> FALSE, pairing |-> pairing, dedup |-> TRUE]
PairingOnly ==
  [command |-> "auth-check", request |-> FALSE, pairing |-> TRUE, dedup |-> FALSE]
FromRequest(command) ==
  [command |-> command, request |-> TRUE, pairing |-> FALSE, dedup |-> FALSE]
Kinds ==
  {FromRequest(c) : c \in Commands} \cup
  (IF "auth-check" \in Commands THEN {SignIn(TRUE), SignIn(FALSE), PairingOnly} ELSE {})

PendingSignIn(p) ==
  \E j \in JobId : Is(j, Pending) /\ jobs[j].profile = p /\ ~jobs[j].request
                   /\ jobs[j].command = "auth-check"
PendingPairing(s) ==
  \E j \in JobId : Is(j, Pending) /\ jobs[j].source = s /\ jobs[j].pairing

OwnedBy(js, u, S) == {j \in JobId : js[j].status \in S /\ Owner[js[j].profile] = u}

NewJob(p, s, kind, d, due) ==
  [status |-> "queued", profile |-> p, source |-> s, command |-> kind.command,
   date |-> IF kind.command = "book" THEN d ELSE 0, request |-> kind.request, pairing |-> kind.pairing,
   due |-> due, expires |-> IF kind.command = "book" THEN due + 1 ELSE NoExpiry,
   cancel |-> FALSE, conf |-> FALSE]

EnqueueJob(p, s, kind, d, zone, due) ==
  /\ Owner[p] = Owner[s] /\ account[Owner[p]] = "active" /\ profile[p] = "enabled"
  /\ kind.dedup => ~PendingSignIn(p)
  /\ kind.pairing => ~PendingPairing(s)
  /\ kind.command = "book" => ~DatePassed(d, zone)
  /\ kind.command # "book" => due = now
  /\ \E D \in Trim(jobs, {}), j \in JobId :
       LET kept == Deleted(jobs, D) IN
       /\ Fresh(j)
       /\ kind.command = "book" => Reservations(jobs, {}, D)[<<p, d>>] = NoReservation
       /\ Cardinality(OwnedBy(kept, Owner[p], Pending)) < MaxPending
       /\ Cardinality(OwnedBy(kept, Owner[p], Row)) < MaxRetained
       /\ jobs' = [kept EXCEPT ![j] = NewJob(p, s, kind, d, due)]
       /\ resv' = [x \in Slots |-> IF kind.command = "book" /\ x = <<p, d>> THEN j
                                  ELSE Reservations(jobs, {}, D)[x]]
  /\ UNCHANGED <<account, profile, now, confirmed>>

(***************************************************************************)
(* Claiming (SystemClaimNextDueJobAt): stale queued jobs fail first, then  *)
(* the first due candidate whose profile and source are idle is leased.    *)
(***************************************************************************)
Stale(j) == Is(j, {"queued"}) /\ jobs[j].expires # NoExpiry /\ jobs[j].expires <= now
StaleJobs == {j \in JobId : Stale(j)}
Expired == [j \in JobId |-> IF Stale(j) THEN WithStatus(j, "failed") ELSE jobs[j]]

\* Mutant: the claim checks only the profile's lease.
LeaseFreeProfileOnly(j) ==
  \A k \in JobId : Is(k, Active) => jobs[k].profile # jobs[j].profile
LeaseFree(j) ==
  \A k \in JobId : Is(k, Active) =>
    jobs[k].profile # jobs[j].profile /\ jobs[k].source # jobs[j].source

Candidate(j) ==
  /\ Is(j, {"queued"}) /\ ~Stale(j) /\ ~Revoked(j) /\ jobs[j].due <= now
  /\ profile[jobs[j].profile] = "enabled"
  /\ IsBook(j) => resv[SlotOf(j)] = j
  /\ LeaseFree(j)

Before(j, k) == jobs[j].due < jobs[k].due \/ (jobs[j].due = jobs[k].due /\ j <= k)

SystemExpireStaleJobs ==
  /\ StaleJobs # {}
  /\ Settle(Expired, StaleJobs, {})
  /\ UNCHANGED <<account, profile, now, confirmed>>

SystemClaimNextDueJobAt(j) ==
  /\ Candidate(j)
  /\ \A k \in JobId : Candidate(k) => Before(j, k)
  /\ Settle([Expired EXCEPT ![j].status = "running"], StaleJobs, {})
  /\ UNCHANGED <<account, profile, now, confirmed>>

(***************************************************************************)
(* Transitions a worker asks for (SystemTransitionJob).  A terminal update *)
(* is resolved inside the statement: a started confirmation leaves only    *)
(* success or an unknown outcome, and before it a revocation wins.         *)
(***************************************************************************)
\* Mutant: the worker's result stands after a started confirmation.
ResolveIgnoringConfirmation(j, to) ==
  IF ~jobs[j].conf /\ Revoked(j) THEN "cancelled" ELSE to
Resolve(j, to) ==
  IF jobs[j].conf /\ to # "succeeded" THEN "outcome_unknown"
  ELSE IF ~jobs[j].conf /\ Revoked(j) THEN "cancelled"
  ELSE to

\* The engine's calls: the expected statuses and the requested one.
Requests ==
  {<<{"running"}, "awaiting_approval">>, <<{"awaiting_approval"}, "running">>,
   <<{"running"}, "succeeded">>} \cup
  {<<Active, to>> : to \in {"failed", "cancelled", "interrupted", "outcome_unknown"}}

SystemTransitionJob(j, expected, to) ==
  /\ \A from \in expected : CanTransition(from, to)
  /\ Is(j, expected)
  /\ to = "outcome_unknown" => jobs[j].conf
  /\ \/ /\ to \in Active /\ ~Revoked(j)
        /\ jobs' = [jobs EXCEPT ![j].status = to]
        /\ UNCHANGED resv
     \/ /\ to \in Terminal
        /\ Settle([jobs EXCEPT ![j].status = Resolve(j, to)], {j}, {j})
  /\ UNCHANGED <<account, profile, now, confirmed>>

SystemMarkConfirmationStarted(j) ==
  /\ Is(j, Active) /\ ~Revoked(j)
  /\ jobs' = [jobs EXCEPT ![j].conf = TRUE]
  /\ confirmed' = IF IsBook(j) THEN confirmed \cup {<<SlotOf(j), j>>} ELSE confirmed
  /\ UNCHANGED <<account, profile, resv, now>>

\* Mutant: a running job's row is left alone.
CancelRowQueuedOnly(row) ==
  IF row.status = "queued" THEN [row EXCEPT !.cancel = TRUE, !.status = "cancelled"] ELSE row

CancelRow(row) ==
  [row EXCEPT !.cancel = TRUE, !.status = IF @ = "queued" THEN "cancelled" ELSE @]

RequestJobCancellation(j) ==
  /\ Is(j, Pending \cup {"cancelled"})
  /\ Settle([jobs EXCEPT ![j] = CancelRow(@)], {j}, {j})
  /\ UNCHANGED <<account, profile, now, confirmed>>

(***************************************************************************)
(* Start-up recovery and retention.                                        *)
(***************************************************************************)
ActiveJobs == {j \in JobId : Is(j, Active)}

Recovered ==
  [j \in JobId |-> IF Is(j, Active)
                   THEN WithStatus(j, IF jobs[j].conf THEN "outcome_unknown" ELSE "interrupted")
                   ELSE jobs[j]]

SystemRecoverInterruptedJobs ==
  /\ ActiveJobs # {}
  /\ Settle(Recovered, ActiveJobs, {})
  /\ UNCHANGED <<account, profile, now, confirmed>>

\* Mutant: a guard is dropped once its date is over in UTC.
PastInUTC(d) == d < UTCDate(now)

\* target_date < date(now, '-1 day')
PastEverywhere(d) == d < UTCDate(now) - 1

SystemPruneTerminalJobs ==
  /\ \E D \in Trim(jobs, {}) :
       /\ jobs' = Deleted(jobs, D)
       /\ resv' = [s \in Slots |->
                     IF resv[s] = Detached /\ PastEverywhere(s[2]) THEN NoReservation
                     ELSE Reservations(jobs, {}, D)[s]]
  /\ UNCHANGED <<account, profile, now, confirmed>>

(***************************************************************************)
(* Accounts and profiles (UpdateUser, DeleteMember, UpdateProfile,         *)
(* DeleteProfile): the operations that change what the queue reads.        *)
(***************************************************************************)
PendingOf(u) == {j \in JobId : Is(j, Pending) /\ UserOf(j) = u}

DisableUser(u) ==
  /\ u # Admin /\ account[u] \in {"active", "disabled"}
  /\ account' = [account EXCEPT ![u] = "disabled"]
  /\ Settle([j \in JobId |-> IF j \in PendingOf(u) THEN CancelRow(jobs[j]) ELSE jobs[j]],
            PendingOf(u), {})
  /\ UNCHANGED <<profile, now, confirmed>>

EnableUser(u) ==
  /\ account[u] = "disabled"
  /\ account' = [account EXCEPT ![u] = "active"]
  /\ UNCHANGED <<profile, jobs, resv, now, confirmed>>

Owned(u) == {p \in Profiles : Owner[p] = u}

DeleteMember(u) ==
  /\ u # Admin /\ account[u] = "disabled"
  /\ PendingOf(u) = {}
  /\ account' = [account EXCEPT ![u] = "deleted"]
  /\ profile' = [p \in Profiles |-> IF p \in Owned(u) THEN "deleted" ELSE profile[p]]
  /\ jobs' = Deleted(jobs, OwnedBy(jobs, u, Row))
  /\ resv' = [s \in Slots |-> IF s[1] \in Owned(u) THEN NoReservation ELSE resv[s]]
  /\ UNCHANGED <<now, confirmed>>

UpdateProfile(p, enabled) ==
  /\ profile[p] # "deleted"
  /\ ~\E j \in JobId : Is(j, Pending) /\ jobs[j].profile = p
  /\ profile' = [profile EXCEPT ![p] = enabled]
  /\ UNCHANGED <<account, jobs, resv, now, confirmed>>

\* jobs.profile_id is ON DELETE RESTRICT; reservations cascade.
DeleteProfile(p) ==
  /\ profile[p] # "deleted"
  /\ ~\E j \in JobId : Is(j, Row) /\ jobs[j].profile = p
  /\ profile' = [profile EXCEPT ![p] = "deleted"]
  /\ resv' = [s \in Slots |-> IF s[1] = p THEN NoReservation ELSE resv[s]]
  /\ UNCHANGED <<account, jobs, now, confirmed>>

Tick ==
  /\ now < MaxTime
  /\ now' = now + 1
  /\ UNCHANGED <<account, profile, jobs, resv, confirmed>>

-----------------------------------------------------------------------------
Init ==
  /\ account = [u \in Users |-> "active"]
  /\ profile = [p \in Profiles |-> "enabled"]
  /\ jobs = [j \in JobId |-> Unused]
  /\ resv = [s \in Slots |-> NoReservation]
  /\ now = 0
  /\ confirmed = {}

Enqueue ==
  \E p \in Profiles, s \in Sources, kind \in Kinds, d \in Dates, zone \in ZoneOffsets,
     due \in {now, now + 1} : EnqueueJob(p, s, kind, d, zone, due)

Next ==
  \/ Enqueue
  \/ SystemExpireStaleJobs
  \/ SystemRecoverInterruptedJobs
  \/ SystemPruneTerminalJobs
  \/ Tick
  \/ \E j \in JobId :
       \/ SystemClaimNextDueJobAt(j)
       \/ \E r \in Requests : SystemTransitionJob(j, r[1], r[2])
       \/ SystemMarkConfirmationStarted(j)
       \/ RequestJobCancellation(j)
  \/ \E u \in Users : DisableUser(u) \/ EnableUser(u) \/ DeleteMember(u)
  \/ \E p \in Profiles :
       \/ \E enabled \in {"enabled", "disabled"} : UpdateProfile(p, enabled)
       \/ DeleteProfile(p)

Spec == Init /\ [][Next]_vars

-----------------------------------------------------------------------------
(***************************************************************************)
(* Properties.                                                             *)
(***************************************************************************)
\* Every column keeps its type; a booking's date is a target date.
TypeOK ==
  /\ account \in [Users -> {"active", "disabled", "deleted"}]
  /\ profile \in [Profiles -> {"enabled", "disabled", "deleted"}]
  /\ jobs \in [JobId -> Job \cup {Unused, Gone}]
  /\ \A j \in JobId : Is(j, Row) /\ IsBook(j) => jobs[j].date \in Dates
  /\ resv \in [Slots -> JobId \cup {NoReservation, Detached}]
  /\ now \in Nat
  /\ confirmed \subseteq Slots \X JobId

\* A claim leases the profile's browser and the OTP inbox: no two active jobs
\* ever share either one, so the unique indexes behind the claim never fire.
LeaseExclusive ==
  \A j, k \in JobId :
    Is(j, Active) /\ Is(k, Active) /\ j # k =>
      jobs[j].profile # jobs[k].profile /\ jobs[j].source # jobs[k].source

\* The booking guard: over the whole history of the database, pruned rows
\* included, at most one job ever starts the final confirmation for one
\* profile and date.
OneConfirmationPerDate ==
  \A a, b \in confirmed : a[1] = b[1] => a[2] = b[2]

\* A date once confirmed stays guarded, with or without its job row, until the
\* date is over in every time zone or the profile itself is gone.
ConfirmedDatesStayGuarded ==
  \A c \in confirmed :
    \/ resv[c[1]] = c[2] /\ jobs[c[2]].conf
    \/ resv[c[1]] = Detached
    \/ /\ resv[c[1]] = NoReservation
       /\ \/ \A zone \in ZoneOffsets : DatePassed(c[1][2], zone)
          \/ profile[c[1][1]] = "deleted"

\* Reservations and jobs agree: every pending booking holds its slot, and a
\* slot is held by a job only while that job may still have booked it.
ReservationsMatchJobs ==
  /\ \A j \in JobId : Is(j, Pending) /\ IsBook(j) => resv[SlotOf(j)] = j
  /\ \A s \in Slots : resv[s] \in JobId =>
       Is(resv[s], Row) /\ SlotOf(resv[s]) = s /\ IsBook(resv[s]) /\ ~Releasable(jobs[resv[s]])

\* Retention leaves a guard behind only for a booking that succeeded: an
\* attempt that may be retried frees its date even when the trigger deletes
\* its row before the release trigger has seen it.
OnlySuccessesDetach ==
  [][\A s \in Slots :
       resv[s] \in JobId /\ resv'[s] = Detached => Is(resv[s], {"succeeded"})]_vars

\* Disabling an account revokes all its work at once: no queued job of a
\* disabled account remains and every job it still runs carries the
\* cancellation.  That enabling the account brings none of it back is part of
\* the life of a job (EveryJobFollowsLifecycle: a cancellation stays).
DisabledWorkIsRevoked ==
  \A j \in JobId : Is(j, Pending) /\ account[UserOf(j)] # "active" =>
    jobs[j].cancel /\ ~Is(j, {"queued"})

\* A terminal status is final, and an unknown outcome stays on record for
\* review until the member who owns it is removed.
TerminalIsFinal ==
  [][\A j \in JobId : Is(j, Terminal) =>
       \/ jobs'[j].status = jobs[j].status
       \/ /\ jobs'[j].status = "deleted"
          /\ Is(j, {"outcome_unknown"}) => account'[UserOf(j)] = "deleted"]_vars
=============================================================================
