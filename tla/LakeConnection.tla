--------------------------- MODULE LakeConnection ---------------------------
(***************************************************************************)
(* One user's setup for one lake: the sign-ins connected to it             *)
(* (store/profiles.go), the lake's saved row with the chosen booking       *)
(* account (store/settings.go), and the requests of web/lakes.go,          *)
(* web/profiles.go, web/lake_connections.go and web/quick_booking.go that  *)
(* read them in several statements before they write or report.  A run     *)
(* signs in with the number it reads when it starts, unless its browser    *)
(* profile is signed in already.                                           *)
(***************************************************************************)
EXTENDS Naturals, Sequences, FiniteSets

CONSTANTS
  Profile, Phone,
  Request,    \* requests served at the same time
  Started,    \* the operations users start
  MaxJobs,    \* bound on jobs
  MaxEdits,   \* bound on edits of sign-ins
  Nil

\* No row is no row of sign-ins and no number.
ASSUME LakeAssumption ==
  /\ MaxJobs \in Nat /\ MaxEdits \in Nat /\ Nil \notin Profile \cup Phone
  /\ Nil \notin [enabled : BOOLEAN, phone : Phone, updated : Nat]

VARIABLES
  profile,    \* [Profile -> Nil or [enabled, phone, updated]]
  row,        \* lake_settings: Nil or [choice, custom]
  jobs,       \* sequence of [profile, command, status, created, phone, used, finished]:
              \* the number a run is given, and the one its browser is signed in with
  signedIn,   \* [Profile -> the number its browser profile is signed in with, or Nil]
  clock,      \* the last time stamp given
  edits,      \* edits made
  req,        \* [Request -> [op, at, profile, row, profiles]]
  seen        \* history: the [accounts, choices, sole] a booking, and the numbers a
              \* view could have found since it started

lakeVars == <<profile, row, jobs, signedIn, clock, edits, req, seen>>

-----------------------------------------------------------------------------
\* No handler runs.
NoRequest == [op |-> "none", at |-> "idle", profile |-> Nil, row |-> Nil, profiles |-> <<>>]

Unfinished == {"queued", "running"}
Terminal == {"succeeded", "failed", "cancelled"}

\* effectiveLakeSettings: without a row, the defaults have no booking account.
Choice(r) == IF r = Nil THEN Nil ELSE r.choice

Enabled(ps) == {p \in DOMAIN ps : ps[p] # Nil /\ ps[p].enabled}

\* Mutant: a disabled choice falls back to the only account.
ResolveFirstEnabled(choice, ps) ==
  IF choice \in Enabled(ps) THEN choice
  ELSE IF Cardinality(Enabled(ps)) = 1 THEN CHOOSE p \in Enabled(ps) : TRUE
  ELSE Nil

\* model.ResolveLakeBookingProfile; Nil stands for its three errors.
ResolveLakeBookingProfile(choice, ps) ==
  IF choice \in Enabled(ps) THEN choice
  ELSE IF choice = Nil /\ Cardinality(Enabled(ps)) = 1 THEN CHOOSE p \in Enabled(ps) : TRUE
  ELSE Nil

Pending(p) == \E j \in DOMAIN jobs : jobs[j].profile = p /\ jobs[j].status \in Unfinished

Nothing == [accounts |-> {}, choices |-> {}, sole |-> {}, numbers |-> {}]

LakeInit ==
  /\ profile = [p \in Profile |-> Nil] /\ row = Nil /\ jobs = <<>>
  /\ signedIn = [p \in Profile |-> Nil] /\ clock = 0 /\ edits = 0
  /\ req = [r \in Request |-> NoRequest] /\ seen = [r \in Request |-> Nothing]

\* Handlers of server.go's routes.
Begin(r, op, p) ==
  /\ req[r] = NoRequest /\ req' = [req EXCEPT ![r] = [NoRequest EXCEPT !.op = op, !.at = "read", !.profile = p]]
  /\ UNCHANGED <<profile, row, jobs, clock, edits, signedIn>>

\* The response; a refusal of any kind leaves nothing else.
Respond(r) == req' = [req EXCEPT ![r] = NoRequest]

Refuse(r) ==
  /\ req[r] # NoRequest /\ Respond(r)
  /\ UNCHANGED <<profile, row, jobs, clock, edits, signedIn>>

-----------------------------------------------------------------------------
(* Reading. *)

\* effectiveLakeSettings of lakeUpdate, lakeReset, lakeConnectionUpdate and
\* lakeBookingSetup.
ReadSettings(r) ==
  /\ req[r].at = "read" /\ req[r].op \in {"update", "reset", "choose", "book"}
  /\ req' = [req EXCEPT ![r].row = row,
                        ![r].at = IF req[r].op \in {"choose", "book"} THEN "profiles" ELSE "write"]
  /\ UNCHANGED <<profile, row, jobs, clock, edits, signedIn>>

\* ListProfiles and ResolveLakeBookingProfile, with the submitted or the saved choice.
ResolveAccount(r) ==
  /\ req[r].at = "profiles"
  /\ LET choice == IF req[r].op = "choose" THEN req[r].profile ELSE Choice(req[r].row)
         found  == ResolveLakeBookingProfile(choice, profile)
     IN  IF found = Nil THEN Respond(r)
         ELSE req' = [req EXCEPT ![r].profile = found, ![r].at = "write"]
  /\ UNCHANGED <<profile, row, jobs, clock, edits, signedIn>>

\* GetProfile of profileUpdate and profileSignIn; ListProfiles of lakeConnections.
ReadProfiles(r) ==
  /\ req[r].at = "read" /\ req[r].op \in {"edit", "sign-in", "view"}
  /\ req' = [req EXCEPT ![r].profiles = profile, ![r].at = "write"]
  /\ UNCHANGED <<profile, row, jobs, clock, edits, signedIn>>

-----------------------------------------------------------------------------
(* Lake settings. *)

\* SaveLakeSettings, with the trigger lake_booking_profile_insert or _update.
SaveLakeSettings(choice, custom) ==
  /\ choice # Nil => profile[choice] # Nil
  /\ row' = [choice |-> choice, custom |-> custom]

\* lakeConnectionUpdate: every other setting is written back as it was read.
Choose(r) ==
  /\ req[r].op = "choose" /\ req[r].at = "write" /\ Respond(r)
  /\ SaveLakeSettings(req[r].profile, req[r].row # Nil /\ req[r].row.custom)
  /\ UNCHANGED <<profile, jobs, clock, edits, signedIn>>

\* lakeUpdate
Update(r) ==
  /\ req[r].op = "update" /\ req[r].at = "write" /\ Respond(r)
  /\ SaveLakeSettings(Choice(req[r].row), TRUE)
  /\ UNCHANGED <<profile, jobs, clock, edits, signedIn>>

\* lakeReset: the row is deleted, or replaced by the defaults and the choice.
Reset(r) ==
  /\ req[r].op = "reset" /\ req[r].at = "write" /\ Respond(r)
  /\ IF Choice(req[r].row) = Nil THEN row' = Nil
     ELSE SaveLakeSettings(Choice(req[r].row), FALSE)
  /\ UNCHANGED <<profile, jobs, clock, edits, signedIn>>

-----------------------------------------------------------------------------
(* Sign-ins. *)

\* CreateProfile
Create(r, phone, enabled) ==
  /\ req[r].op = "create" /\ req[r].at = "read" /\ Respond(r)
  /\ profile[req[r].profile] = Nil /\ clock' = clock + 1
  /\ profile' = [profile EXCEPT ![req[r].profile] =
                   [enabled |-> enabled, phone |-> phone, updated |-> clock']]
  /\ UNCHANGED <<row, jobs, edits, signedIn>>

\* Mutant: an edit leaves updated_at.
EditUnstamped(r, phone, enabled) ==
  /\ req[r].op = "edit" /\ req[r].at = "write" /\ Respond(r) /\ edits < MaxEdits
  /\ clock' = clock + 1 /\ edits' = edits + 1
  /\ req[r].profiles[req[r].profile] # Nil /\ ~Pending(req[r].profile)
  /\ profile' = [profile EXCEPT ![req[r].profile].enabled = enabled, ![req[r].profile].phone = phone]
  /\ UNCHANGED <<row, jobs, signedIn>>

\* UpdateProfile: nothing while a job of the sign-in is pending.  The number is
\* replaced or, when the form leaves it blank, kept.
Edit(r, phone, enabled) ==
  /\ req[r].op = "edit" /\ req[r].at = "write" /\ Respond(r) /\ edits < MaxEdits
  /\ clock' = clock + 1 /\ edits' = edits + 1
  /\ req[r].profiles[req[r].profile] # Nil /\ ~Pending(req[r].profile)
  /\ profile' = [profile EXCEPT ![req[r].profile] =
                   [enabled |-> enabled, phone |-> phone, updated |-> clock']]
  /\ UNCHANGED <<row, jobs, signedIn>>

-----------------------------------------------------------------------------
(* Jobs. *)

\* enqueueJobTx
Enqueue(p, command) ==
  /\ profile[p] # Nil /\ profile[p].enabled /\ Len(jobs) < MaxJobs
  /\ command = "sign-in" => \A j \in DOMAIN jobs :
       ~(jobs[j].profile = p /\ jobs[j].command = "sign-in" /\ jobs[j].status \in Unfinished)
  /\ clock' = clock + 1
  /\ jobs' = Append(jobs, [profile |-> p, command |-> command, status |-> "queued",
                          created |-> clock', phone |-> Nil, used |-> Nil,
                          finished |-> 0])

\* QueueProfileSignIn
SignIn(r) ==
  /\ req[r].op = "sign-in" /\ req[r].at = "write" /\ Respond(r)
  /\ req[r].profile \in Enabled(req[r].profiles) /\ Enqueue(req[r].profile, "sign-in")
  /\ UNCHANGED <<profile, row, edits, signedIn>>

\* lakeBookingCreate
Book(r) ==
  /\ req[r].op = "book" /\ req[r].at = "write" /\ Respond(r) /\ Enqueue(req[r].profile, "book")
  /\ UNCHANGED <<profile, row, edits, signedIn>>

\* SystemClaimNextDueJobAt
RunJob(j) ==
  /\ jobs[j].status = "queued" /\ profile[jobs[j].profile].enabled
  /\ \A k \in DOMAIN jobs : jobs[k].status = "running" => jobs[k].profile # jobs[j].profile
  /\ jobs' = [jobs EXCEPT ![j].status = "running"]
  /\ UNCHANGED <<profile, row, clock, edits, req, signedIn>>

\* loadInputs: SystemGetProfileCredentials.
LoadCredentials(j) ==
  /\ jobs[j].status = "running" /\ jobs[j].phone = Nil
  /\ jobs' = [jobs EXCEPT ![j].phone = profile[jobs[j].profile].phone]
  /\ UNCHANGED <<profile, row, clock, edits, req, signedIn>>

\* ensure_authenticated: a browser that is signed in stays so, whatever the number;
\* another one signs in with the number the run was given.
RunSignsIn(j) ==
  LET p == jobs[j].profile
      n == IF signedIn[p] # Nil THEN signedIn[p] ELSE jobs[j].phone
  IN  /\ jobs[j].status = "running" /\ jobs[j].phone # Nil
      /\ jobs' = [jobs EXCEPT ![j].used = n] /\ signedIn' = [signedIn EXCEPT ![p] = n]
      /\ UNCHANGED <<profile, row, clock, edits, req>>

\* Yodel ends the session of a browser.
YodelSignsOut(p) ==
  /\ signedIn[p] # Nil /\ signedIn' = [signedIn EXCEPT ![p] = Nil]
  /\ UNCHANGED <<profile, row, jobs, clock, edits, req>>

\* SystemTransitionJob to a terminal status; failed stands for interrupted and
\* outcome_unknown too, and for the expiry of a queued booking.
EndJob(j, status) ==
  /\ jobs[j].status \in Unfinished
  /\ status = "succeeded" => jobs[j].used # Nil
  /\ status = "failed" => jobs[j].status = "running" \/ jobs[j].command = "book"
  /\ clock' = clock + 1 /\ jobs' = [jobs EXCEPT ![j].status = status, ![j].finished = clock']
  /\ UNCHANGED <<profile, row, edits, req, signedIn>>

-----------------------------------------------------------------------------
(* The status of a connection. *)

\* profileConnection: jobs that count as evidence about a sign-in that was read.
Evidence(p, ps) == {j \in DOMAIN jobs : jobs[j].profile = p /\ jobs[j].created >= ps[p].updated}
VerifiedBy(p, ps) == {j \in Evidence(p, ps) : jobs[j].status = "succeeded"}
FailedSignIn(p, ps) ==
  {j \in Evidence(p, ps) : jobs[j].command = "sign-in" /\ jobs[j].status = "failed"}
Latest(js) == CHOOSE j \in js : \A k \in js : jobs[k].finished <= jobs[j].finished

\* "Connection verified"
Connected(p, ps) ==
  /\ p \in Enabled(ps) /\ VerifiedBy(p, ps) # {}
  /\ \A f \in FailedSignIn(p, ps) : jobs[f].finished <= jobs[Latest(VerifiedBy(p, ps))].finished

\* ListJobs of lakeConnections, and the page.
View(r) ==
  /\ req[r].op = "view" /\ req[r].at = "write" /\ Respond(r)
  /\ UNCHANGED <<profile, row, jobs, clock, edits, signedIn>>

-----------------------------------------------------------------------------
LakeStep ==
  \/ \E r \in Request :
       \/ \E op \in Started, p \in Profile : Begin(r, op, p)
       \/ Refuse(r) \/ ReadSettings(r) \/ ResolveAccount(r) \/ ReadProfiles(r)
       \/ Choose(r) \/ Update(r) \/ Reset(r) \/ SignIn(r) \/ Book(r) \/ View(r)
       \/ \E phone \in Phone, e \in BOOLEAN : Create(r, phone, e) \/ Edit(r, phone, e)
  \/ \E j \in DOMAIN jobs :
       RunJob(j) \/ LoadCredentials(j) \/ RunSignsIn(j) \/ \E s \in Terminal : EndJob(j, s)
  \/ \E p \in Profile : YodelSignsOut(p)

\* The account the saved setup allows: the enabled choice or, without a choice, the
\* only enabled sign-in.
Bookable ==
  {p \in Enabled(profile) : Choice(row) = p \/ (Choice(row) = Nil /\ Enabled(profile) = {p})}
Sole == {p \in Profile : Enabled(profile) = {p}}
Numbers == {<<p, profile[p].phone>> : p \in {q \in Profile : profile[q] # Nil}}

Saw(r, op, field, saved) == IF req'[r].op = op THEN seen[r][field] \cup saved ELSE {}

LakeNext ==
  /\ LakeStep
  /\ seen' = [r \in Request |-> [accounts |-> Saw(r, "book", "accounts", Bookable'),
                                 choices  |-> Saw(r, "book", "choices", {Choice(row')}),
                                 sole     |-> Saw(r, "book", "sole", Sole'),
                                 numbers  |-> Saw(r, "view", "numbers", Numbers')]]

LakeSpec == LakeInit /\ [][LakeNext]_lakeVars

-----------------------------------------------------------------------------
LakeTypeOK ==
  /\ \A p \in Profile : profile[p] = Nil
       \/ profile[p] \in [enabled : BOOLEAN, phone : Phone, updated : 1 .. clock]
  /\ row = Nil \/ row \in [choice : Profile \cup {Nil}, custom : BOOLEAN]
  /\ Len(jobs) <= MaxJobs /\ edits <= MaxEdits
  /\ \A j \in DOMAIN jobs : /\ jobs[j].profile \in Profile /\ profile[jobs[j].profile] # Nil
                            /\ jobs[j].status \in Unfinished \cup Terminal
                            /\ jobs[j].created \in 1 .. clock
                            /\ {jobs[j].phone, jobs[j].used} \subseteq Phone \cup {Nil}
  /\ signedIn \in [Profile -> Phone \cup {Nil}]
  /\ \A r \in Request : /\ seen[r].accounts \cup seen[r].sole \subseteq Profile
                        /\ seen[r].choices \subseteq Profile \cup {Nil}
                        /\ seen[r].numbers \subseteq Profile \X Phone

\* A run of the sign-in was given the number.
Given(p, n) == \E k \in DOMAIN jobs : jobs[k].profile = p /\ jobs[k].phone = n

\* web/lake_connections.go: "any edit invalidates older evidence".  A connection is
\* shown as verified only by a run that was given a number saved while the page was
\* read, though sign-ins and jobs are read in two statements.  The browser was signed
\* in with that number, or with one another run of the same sign-in had been given and
\* an edit has left signed in.
VerifiedWithSavedNumber ==
  \A r \in Request, p \in Profile :
    req[r].op = "view" /\ req[r].at = "write" /\ Connected(p, req[r].profiles)
      => LET run == jobs[Latest(VerifiedBy(p, req[r].profiles))]
         IN  <<p, run.phone>> \in seen[r].numbers /\ Given(p, run.used)

\* A booking of the request is admitted.
Booked(r) == req[r].op = "book" /\ Len(jobs') > Len(jobs) /\ req'[r] # req[r]

\* lakeBookingSetup and ResolveLakeBookingProfile: whatever is saved while settings
\* and sign-ins are read, a booking is queued only for an account that was the saved
\* choice during the request or, if there was a moment without a choice, the only
\* enabled one.
BookedAsSaved ==
  [][\A r \in Request : Booked(r) =>
       \/ req[r].profile \in seen[r].choices
       \/ Nil \in seen[r].choices /\ req[r].profile \in seen[r].sole]_lakeVars

\* model/settings.go: "A disabled choice never switches identities implicitly".  A
\* booking is queued for an account that the saved setup resolved to at some moment
\* of the request.
NoImplicitSwitch == [][\A r \in Request : Booked(r) => req[r].profile \in seen[r].accounts]_lakeVars
=============================================================================
