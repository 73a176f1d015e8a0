---------------------------- MODULE OtpChallenge ----------------------------
(***************************************************************************)
(* Signing in with one-time codes: Python's authentication flow, the       *)
(* coordinator's OTP frames, the provider goroutines that poll an inbox,   *)
(* and the hub that shows the operator the current code.  A run may need   *)
(* several challenges (a resend, a session that expires again) before it   *)
(* asks the coordinator its next question, the approval or the gate of     *)
(* JobRun.  A code is known by the challenge whose click made Yodel send   *)
(* it; messages may arrive late, never, or out of order.                   *)
(***************************************************************************)
EXTENDS Naturals, Sequences, Functions

CONSTANT MaxChallenges   \* bound: challenges of one run

ASSUME ChallengesAssumption == MaxChallenges \in Nat \ {0}

Challenge == 1..MaxChallenges

VARIABLES
  py, login, cur, ignored,   \* Python: phase, form or resend, challenge, ended ones
  toEngine, toWorker,        \* frames in flight, <<type, challenge>>; to Python with
                             \* the inbox position of the code, or 0
  challenges,                \* runState.challenges
  armedAt,                   \* the inbox position each challenge was armed at
  polling,                   \* challenges with a goroutine in WaitForCode
  async,                     \* the results channel, <<kind, challenge, position>>
  inbox, sent,               \* the provider's messages; codes Yodel still delivers
  display, timers,           \* Hub.otps: the challenge whose code is shown, or 0;
                             \* the goroutines in expireOTP
  code, used,                \* the message Python holds; all it has submitted
  cancelled,                 \* the run's context: "no", "yes", "told" once Python is
  alive, coord               \* the process; the coordinator

python == <<py, login, cur, ignored, code, used>>
phone  == <<inbox, sent>>
engine == <<challenges, armedAt, polling, async, display, timers, coord>>
otpVars == <<python, phone, engine, toEngine, toWorker, cancelled, alive>>

-----------------------------------------------------------------------------
(***************************************************************************)
(* Python (control.py, protocol.py and the sign-in part of action.py).     *)
(* check_cancelled moves frames to a deferred queue that receive reads     *)
(* first; their order is kept, so one queue stands for both.               *)
(***************************************************************************)
Stale(f) == f[1] \in {"otp.ready", "otp.error", "otp.expired", "otp.provide"} /\ f[2] \in ignored

\* _next takes the n-th frame: the ones before it are discarded.
Take(n) ==
  /\ ~Stale(toWorker[n]) /\ \A i \in 1 .. n - 1 : Stale(toWorker[i])
  /\ toWorker' = SubSeq(toWorker, n + 1, Len(toWorker))

PyStep == alive /\ UNCHANGED <<phone, engine, cancelled, alive>>

Emit(type) == toEngine' = Append(toEngine, <<type, cur>>)

\* The phases that block in receive, with the answers they expect.
Expected ==
  [creds    |-> {<<"credentials.provide", 0>>},
   arming   |-> {<<"otp.ready", cur>>, <<"otp.error", cur>>, <<"otp.expired", cur>>},
   waiting  |-> {<<"otp.provide", cur>>, <<"otp.error", cur>>, <<"otp.expired", cur>>},
   asking   |-> {<<"answer", 0>>}]

Receive(n, phase, type) ==
  /\ PyStep /\ py = phase /\ Take(n)
  /\ toWorker[n][1] = type /\ <<type, toWorker[n][2]>> \in Expected[phase]

\* Anything else a receive finds ends the run: a cancellation, or a frame of
\* some other exchange.
ReceiveOther(n) ==
  /\ PyStep /\ py \in DOMAIN Expected /\ Take(n)
  /\ <<toWorker[n][1], toWorker[n][2]>> \notin Expected[py]
  /\ py' = IF toWorker[n][1] = "control.cancel" THEN "cancelled" ELSE "protocol_error"
  /\ UNCHANGED <<login, cur, ignored, code, used, toEngine>>

CheckCancelled ==
  /\ PyStep /\ py \in {"auth", "triggered", "ready"}
  /\ \E i \in DOMAIN toWorker : toWorker[i][1] = "control.cancel"
  /\ py' = "cancelled"
  /\ UNCHANGED <<login, cur, ignored, code, used, toEngine, toWorker>>

\* Mutant: late replies of an ended challenge are not discarded.
EndChallengeKeepingReplies(type, next) ==
  /\ Emit(type) /\ py' = next
  /\ UNCHANGED <<ignored, login, cur>>

\* otp_submitted, otp_not_required and otp_failed
EndChallenge(type, next) ==
  /\ Emit(type) /\ ignored' = ignored \cup {cur} /\ py' = next
  /\ UNCHANGED <<login, cur>>

RequestCredentials ==
  /\ PyStep /\ py = "auth" /\ cur < MaxChallenges
  /\ toEngine' = Append(toEngine, <<"credentials.request", 0>>) /\ py' = "creds"
  /\ UNCHANGED <<login, cur, ignored, code, used, toWorker>>

ReceiveCredentials(n) ==
  /\ Receive(n, "creds", "credentials.provide")
  /\ py' = "phone"
  /\ UNCHANGED <<login, cur, ignored, code, used, toEngine>>

\* From the login form with its number filled in, or for a resend.
PrepareOtp ==
  /\ PyStep /\ py \in {"phone", "auth"} /\ cur < MaxChallenges
  /\ login' = (py = "phone") /\ cur' = cur + 1 /\ py' = "arming"
  /\ toEngine' = Append(toEngine, <<"otp.prepare", cur + 1>>)
  /\ UNCHANGED <<ignored, code, used, toWorker>>

\* The coordinator sends otp.expired only after the trigger.
ReceiveReady(n) ==
  /\ \/ /\ Receive(n, "arming", "otp.ready") /\ py' = "armed"
        /\ UNCHANGED <<ignored, login, cur, toEngine>>
     \/ Receive(n, "arming", "otp.error") /\ EndChallenge("otp.failed", "failed")
  /\ UNCHANGED <<code, used>>

\* The click that makes Yodel send a code, unless the session turns out valid.
Click ==
  /\ alive /\ py = "armed" /\ py' = "clicked"
  /\ sent' \in {sent, sent \cup {cur}}
  /\ UNCHANGED <<login, cur, ignored, code, used, inbox, engine, toEngine, toWorker, cancelled, alive>>

OtpTriggered ==
  /\ PyStep /\ py = "clicked"
  /\ Emit("otp.triggered") /\ py' = IF login THEN "triggered" ELSE "waiting"
  /\ UNCHANGED <<login, cur, ignored, code, used, toWorker>>

\* _wait_for_auth_or_otp
AfterLogin ==
  /\ PyStep /\ py = "triggered"
  /\ \/ py' = "waiting" /\ UNCHANGED <<login, cur, ignored, toEngine>>
     \/ EndChallenge("otp.not_required", "auth")
     \/ EndChallenge("otp.failed", "failed")
  /\ UNCHANGED <<code, used, toWorker>>

WaitForOtp(n) ==
  /\ \/ /\ Receive(n, "waiting", "otp.provide")
        /\ code' = toWorker[n][3] /\ py' = "filling"
        /\ UNCHANGED <<ignored, login, cur, toEngine>>
     \/ /\ Receive(n, "waiting", "otp.error") \/ Receive(n, "waiting", "otp.expired")
        /\ EndChallenge("otp.failed", "failed") /\ UNCHANGED code
  /\ UNCHANGED used

SubmitOtp ==
  /\ PyStep /\ py = "filling"
  /\ EndChallenge("otp.submitted", "auth")
  /\ code' = 0 /\ used' = Append(used, code)
  /\ UNCHANGED toWorker

\* A passed deadline, a missing control or a click that reports an error ends
\* the challenge; any other browser error ends the run without a word.
ChallengeFails ==
  /\ PyStep /\ py \in {"arming", "armed", "clicked", "waiting", "filling"}
  /\ EndChallenge("otp.failed", "failed")
  /\ code' = 0 /\ UNCHANGED <<used, toWorker>>
BrowserFails ==
  /\ PyStep /\ py \notin {"failed", "cancelled", "protocol_error", "done"}
  /\ py' = "failed"
  /\ UNCHANGED <<login, cur, ignored, code, used, toEngine, toWorker>>

\* Authenticated: the run goes on to its next question.
Authenticated ==
  /\ PyStep /\ py = "auth" /\ py' = "ready"
  /\ UNCHANGED <<login, cur, ignored, code, used, toEngine, toWorker>>
Reauthenticate ==
  /\ PyStep /\ py = "ready" /\ cur < MaxChallenges /\ py' = "auth"
  /\ UNCHANGED <<login, cur, ignored, code, used, toEngine, toWorker>>
Ask ==
  /\ PyStep /\ py = "ready" /\ py' = "asking"
  /\ toEngine' = Append(toEngine, <<"question", 0>>)
  /\ UNCHANGED <<login, cur, ignored, code, used, toWorker>>
Answered(n) ==
  /\ Receive(n, "asking", "answer") /\ py' = "done"
  /\ UNCHANGED <<login, cur, ignored, code, used, toEngine>>

\* Python may die at any time; the kill that follows a cancellation also drops
\* the frames that were not read yet.
Exit ==
  /\ alive /\ alive' = FALSE
  /\ \/ UNCHANGED toEngine
     \/ cancelled # "no" /\ toEngine' = <<>>
  /\ UNCHANGED <<python, phone, engine, toWorker, cancelled>>

-----------------------------------------------------------------------------
(***************************************************************************)
(* Messages, and the provider's WaitForCode for one armed challenge.       *)
(***************************************************************************)
DeliverCode(c) ==
  /\ c \in sent /\ sent' = sent \ {c} /\ inbox' = Append(inbox, c)
  /\ UNCHANGED <<python, engine, toEngine, toWorker, cancelled, alive>>

\* Select prefers the newest by the sender's clock, which need not be the order
\* of the inbox: any message past the cursor may come first.
Result(kind, c, position) == async' = Append(async, <<kind, c, position>>)
WaitForCode(c) ==
  /\ c \in polling /\ polling' = polling \ {c}
  /\ \/ \E i \in DOMAIN inbox : i > armedAt[c] /\ Result("code", c, i)
     \/ \E kind \in {"otp.error", "otp.expired"} : Result(kind, c, 0)
     \/ cancelled # "no" /\ UNCHANGED async
  /\ UNCHANGED <<python, phone, challenges, armedAt, display, timers, coord, toEngine, toWorker, cancelled, alive>>

-----------------------------------------------------------------------------
(***************************************************************************)
(* The coordinator and the hub.                                            *)
(***************************************************************************)
Handle(type) ==
  /\ coord = "run" /\ toEngine # <<>> /\ Head(toEngine)[1] = type
  /\ toEngine' = Tail(toEngine)
  /\ UNCHANGED <<python, phone, cancelled, alive>>

Send(frame) == toWorker' = Append(toWorker, frame)
Return(why) == coord' = why /\ display' = 0
SendOrFail(frame) ==
  \/ Send(frame) /\ UNCHANGED <<coord, display>>
  \/ ~alive /\ Return("returned") /\ UNCHANGED toWorker

HandleCredentials ==
  /\ Handle("credentials.request") /\ SendOrFail(<<"credentials.provide", 0, 0>>)
  /\ UNCHANGED <<challenges, armedAt, polling, async, timers>>

HandleQuestion ==
  /\ Handle("question") /\ SendOrFail(<<"answer", 0, 0>>)
  /\ UNCHANGED <<challenges, armedAt, polling, async, timers>>

\* Mutant: the cursor is one message behind the inbox.
ArmOneBehind(c) == armedAt' = [armedAt EXCEPT ![c] = Len(inbox) - 1]
ArmAt(c) == armedAt' = [armedAt EXCEPT ![c] = Len(inbox)]

HandlePrepare ==
  LET c == Head(toEngine)[2] IN
  /\ Handle("otp.prepare")
  /\ IF challenges[c] # "none"
     THEN Return("sequence_error") /\ UNCHANGED <<challenges, armedAt, toWorker>>
     ELSE \/ /\ challenges' = [challenges EXCEPT ![c] = "armed"] /\ ArmAt(c)
             /\ SendOrFail(<<"otp.ready", c, 0>>)
          \/ /\ Send(<<"otp.error", c, 0>>)
             /\ UNCHANGED <<challenges, armedAt, coord, display>>
  /\ UNCHANGED <<polling, async, timers>>

HandleTriggered ==
  LET c == Head(toEngine)[2] IN
  /\ Handle("otp.triggered")
  /\ IF challenges[c] # "armed"
     THEN Return("sequence_error") /\ UNCHANGED <<challenges, polling>>
     ELSE /\ challenges' = [challenges EXCEPT ![c] = "waiting"]
          /\ polling' = polling \cup {c} /\ UNCHANGED <<coord, display>>
  /\ UNCHANGED <<armedAt, async, timers, toWorker>>

\* Ending a challenge clears the shown code and cancels its wait, which then
\* reports an error.  "none" is an id that is not in the map.
HandleEnd(type) ==
  LET c == Head(toEngine)[2] IN
  /\ Handle(type)
  /\ display' = 0 /\ challenges' = [challenges EXCEPT ![c] = "none"]
  /\ UNCHANGED <<armedAt, polling, async, timers, coord, toWorker>>

Active(c) == challenges[c] # "none"

\* Mutant: a code without an expiry is shown until its challenge ends.
SetOTPForever(c) == display' = c /\ UNCHANGED timers
SetOTP(c) == display' = c /\ timers' = timers \cup {c}

\* Mutant: Python is not told that its wait failed.
ReplySkipped(r) == UNCHANGED toWorker
ReplyError(r) == Send(<<r[1], r[2], 0>>)

HandleAsync ==
  LET r == Head(async) IN
  /\ coord = "run" /\ async # <<>> /\ async' = Tail(async)
  /\ \/ ~Active(r[2]) /\ UNCHANGED <<toWorker, display, timers, coord>>
     \/ Active(r[2]) /\ r[1] # "code" /\ ReplyError(r) /\ UNCHANGED <<display, timers, coord>>
     \/ /\ Active(r[2]) /\ r[1] = "code"
        /\ SetOTP(r[2]) /\ Send(<<"otp.provide", r[2], r[3]>>) /\ UNCHANGED coord
     \/ /\ Active(r[2]) /\ r[1] = "code" /\ ~alive
        /\ Return("returned") /\ timers' = timers \cup {r[2]} /\ UNCHANGED toWorker
  /\ UNCHANGED <<python, phone, challenges, armedAt, polling, toEngine, cancelled, alive>>

\* A timer takes away the code it was started for and no later one.
ExpireOTP(c) ==
  /\ c \in timers /\ timers' = timers \ {c}
  /\ display' = IF display = c THEN 0 ELSE display
  /\ UNCHANGED <<python, phone, challenges, armedAt, polling, async, coord, toEngine, toWorker,
                 cancelled, alive>>

\* The run's context ends: the hub forgets the code, and a goroutine of
\* process.Cancel tells the worker some time later.
CancelRun ==
  /\ coord = "run" /\ cancelled = "no" /\ cancelled' = "yes" /\ display' = 0
  /\ UNCHANGED <<python, phone, challenges, armedAt, polling, async, timers, coord, toEngine,
                 toWorker, alive>>
SendCancel ==
  /\ cancelled = "yes" /\ cancelled' = "told" /\ Send(<<"control.cancel", 0, 0>>)
  /\ UNCHANGED <<python, phone, engine, toEngine, alive>>

HandleDone ==
  /\ coord = "run" /\ ~alive /\ toEngine = <<>>
  /\ Return("returned")
  /\ UNCHANGED <<python, phone, challenges, armedAt, polling, async, timers, toEngine, toWorker,
                 cancelled, alive>>

-----------------------------------------------------------------------------
OtpInit ==
  /\ py = "auth" /\ login = FALSE /\ cur = 0 /\ ignored = {} /\ code = 0 /\ used = <<>>
  /\ inbox = <<>> /\ sent = {} /\ toEngine = <<>> /\ toWorker = <<>>
  /\ challenges = [c \in Challenge |-> "none"] /\ armedAt = [c \in Challenge |-> 0]
  /\ polling = {} /\ async = <<>> /\ display = 0 /\ timers = {} /\ coord = "run"
  /\ cancelled = "no" /\ alive = TRUE

Ends == {"otp.submitted", "otp.not_required", "otp.failed"}

HandleFrame ==
  \/ HandleCredentials \/ HandleQuestion \/ HandlePrepare \/ HandleTriggered
  \/ \E type \in Ends : HandleEnd(type)

Read ==
  \E n \in DOMAIN toWorker :
    ReceiveOther(n) \/ ReceiveCredentials(n) \/ ReceiveReady(n) \/ WaitForOtp(n) \/ Answered(n)

OtpNext ==
  \/ Read \/ CheckCancelled \/ RequestCredentials
  \/ PrepareOtp \/ Click \/ OtpTriggered \/ AfterLogin
  \/ SubmitOtp \/ ChallengeFails \/ BrowserFails
  \/ Authenticated \/ Reauthenticate \/ Ask \/ Exit
  \/ \E c \in Challenge : DeliverCode(c) \/ WaitForCode(c) \/ ExpireOTP(c)
  \/ HandleFrame \/ HandleAsync \/ HandleDone \/ CancelRun \/ SendCancel

OtpSpec == OtpInit /\ [][OtpNext]_otpVars

\* The coordinator, the goroutines and their timers, and Python's reads run;
\* nothing is assumed of Yodel, the phone network or the browser.
OtpFairness ==
  /\ WF_otpVars(HandleFrame) /\ WF_otpVars(HandleAsync) /\ WF_otpVars(HandleDone) /\ WF_otpVars(SendCancel)
  /\ \A c \in Challenge : WF_otpVars(WaitForCode(c)) /\ WF_otpVars(ExpireOTP(c))
  /\ WF_otpVars(Read)

OtpFairSpec == OtpSpec /\ OtpFairness

-----------------------------------------------------------------------------
\* Challenges, results and frames name challenges of this run.
OtpTypeOK ==
  /\ cur \in 0..MaxChallenges /\ ignored \subseteq Challenge /\ polling \subseteq Challenge
  /\ challenges \in [Challenge -> {"none", "armed", "waiting"}]
  /\ armedAt \in [Challenge -> Nat] /\ display \in 0..MaxChallenges /\ timers \subseteq Challenge
  /\ \A i \in DOMAIN inbox : inbox[i] \in Challenge
  /\ \A i \in DOMAIN async : async[i][2] \in Challenge
  /\ cancelled \in {"no", "yes", "told"} /\ alive \in BOOLEAN
  /\ coord \in {"run", "returned", "sequence_error"}

\* Late replies of an ended challenge never disturb the next exchange, and
\* the coordinator never refuses a frame: neither side of the protocol meets
\* a frame out of sequence, however results, deadlines and exits interleave.
NoSequenceError == py # "protocol_error" /\ coord # "sequence_error"

\* The inbox position of the arm separates codes: taken before the click, it lies
\* before a code sent for its challenge, however fast that arrives; and a resend is
\* armed behind the code that was refused, so that none is submitted twice.
CursorSeparatesCodes ==
  /\ \A c \in Challenge, i \in DOMAIN inbox : inbox[i] = c => armedAt[c] < i
  /\ IsInjective(used)

\* Python never waits for ever for the provider or for a code: the coordinator
\* answers every challenge, unless the run is over.
ChallengesAreAnswered ==
  (py \in {"arming", "waiting"} /\ alive) ~> (py \notin {"arming", "waiting"} \/ ~alive \/ coord # "run")

\* A shown code disappears even when Python hangs with it: each SetOTP starts
\* a timer of its own, which fires although the challenge is never ended.
ShownCodeDisappears == (display # 0) ~> (display = 0)
=============================================================================
