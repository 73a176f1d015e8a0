------------------------- MODULE OtpChallengeProofs -------------------------
(***************************************************************************)
(* Proofs about OtpChallenge, for any number of challenges: neither side   *)
(* meets a frame out of sequence, and the cursors keep the codes apart.    *)
(* Both rest on what a frame in flight says of the challenge it names, and *)
(* on Python giving up a challenge and ignoring its frames in one step.    *)
(***************************************************************************)
EXTENDS OtpChallenge, TLAPS

(***************************************************************************)
(* Frames in flight: f is in the queue q, and at most once.                *)
(***************************************************************************)
In(f, q) == \E i \in 1 .. Len(q) : q[i] = f
Once(f, q) == \A i, k \in 1 .. Len(q) : q[i] = f /\ q[k] = f => i = k

Stopped == {"failed", "cancelled"}
Signing == {"arming", "armed", "clicked", "triggered", "waiting", "filling"}
Between == {"auth", "creds", "phone", "ready", "asking", "done"}

Questions == {"credentials.request", "question"} \X {0}
Reports == {"otp.prepare", "otp.triggered", "otp.submitted", "otp.not_required", "otp.failed"} \X Challenge
Answers == {"credentials.provide", "answer", "control.cancel"} \X {0} \X {0}
Replies == {"otp.ready", "otp.error", "otp.expired"} \X Challenge \X {0}
Codes == {"otp.provide"} \X Challenge \X Nat
ToEngine == Questions \cup Reports
ToWorker == Answers \cup Replies \cup Codes
Results == {"code", "otp.error", "otp.expired"} \X Challenge \X Nat

Types ==
  /\ py \in Stopped \cup Signing \cup Between /\ cur \in 0 .. MaxChallenges /\ ignored \subseteq Challenge
  /\ toEngine \in Seq(ToEngine) /\ toWorker \in Seq(ToWorker) /\ async \in Seq(Results)
  /\ challenges \in [Challenge -> {"none", "armed", "waiting"}] /\ armedAt \in [Challenge -> Nat]
  /\ polling \subseteq Challenge /\ sent \subseteq Challenge /\ inbox \in Seq(Challenge)
  /\ code \in Nat /\ used \in Seq(Nat) /\ coord \in {"run", "returned"}

Prepare(c) == <<"otp.prepare", c>>
Triggered(c) == <<"otp.triggered", c>>
Ready(c) == <<"otp.ready", c, 0>>
AskCredentials == <<"credentials.request", 0>>
Credentials == <<"credentials.provide", 0, 0>>
Question == <<"question", 0>>
Answer == <<"answer", 0, 0>>

\* Python has ended every challenge before the present one.
Numbers ==
  \A c \in Challenge : (c \in ignored => c <= cur) /\ (c < cur => c \in ignored)

\* No wait for challenge c has begun, and no code for it was sent.
Quiet(c) ==
  /\ c \notin polling /\ \A i \in 1 .. Len(async) : async[i][2] # c
  /\ \A i \in 1 .. Len(toWorker) : ~(toWorker[i][1] = "otp.provide" /\ toWorker[i][2] = c)
Unsent(c) == c \notin sent /\ \A i \in 1 .. Len(inbox) : inbox[i] # c

\* Only challenges that Python has named are known to anyone else.
Known ==
  /\ \A i \in 1 .. Len(toEngine) : toEngine[i][2] <= cur
  /\ \A i \in 1 .. Len(toWorker) : toWorker[i][2] <= cur
  /\ \A c \in Challenge : c > cur => challenges[c] = "none" /\ Quiet(c) /\ Unsent(c)

\* Of a question and its answer at most one is in flight.
Alone(question, answer) ==
  /\ Once(question, toEngine) /\ Once(answer, toWorker)
  /\ ~(In(question, toEngine) /\ In(answer, toWorker))

\* A challenge that is still to be prepared has left no trace at the coordinator or
\* the phone.
Prepared ==
  \A c \in Challenge :
    /\ Alone(Prepare(c), Ready(c))
    /\ In(Prepare(c), toEngine) => challenges[c] = "none" /\ Quiet(c) /\ Unsent(c)

\* A provider that is ready stays so until Python says more, and looks behind every
\* code that was used.
Armed ==
  \A c \in Challenge :
    In(Ready(c), toWorker) /\ c \notin ignored =>
      challenges[c] = "armed" /\ \A k \in 1 .. Len(used) : used[k] <= armedAt[c]

\* The last word on a challenge makes Python ignore it, and comes after the
\* trigger, which comes after the provider was found ready.
Ended ==
  \A i \in 1 .. Len(toEngine) : toEngine[i][1] \in Ends =>
    /\ toEngine[i][2] \in ignored
    /\ \A k \in 1 .. Len(toEngine) : toEngine[k] = Triggered(toEngine[i][2]) => k < i
Triggers ==
  \A c \in Challenge :
    /\ Once(Triggered(c), toEngine)
    /\ In(Triggered(c), toEngine) => challenges[c] = "armed" /\ ~In(Ready(c), toWorker)

\* The code at position i may answer challenge c.
Fits(c, i) == armedAt[c] < i /\ i <= Len(inbox)

\* A cursor lies before what it is to find.
Cursors ==
  /\ \A c \in Challenge : /\ armedAt[c] <= Len(inbox)
                          /\ \A i \in 1 .. Len(inbox) : inbox[i] = c => armedAt[c] < i
  /\ \A i \in 1 .. Len(async) : async[i][1] = "code" => Fits(async[i][2], async[i][3])
  /\ \A i \in 1 .. Len(toWorker) : toWorker[i][1] = "otp.provide" => Fits(toWorker[i][2], toWorker[i][3])

\* The codes were submitted in the order of the inbox.
Increasing ==
  /\ \A k \in 1 .. Len(used) : used[k] <= Len(inbox)
  /\ \A k, m \in 1 .. Len(used) : k < m => used[k] < used[m]

\* What Python is doing: it is signing in with a challenge that is not over, waits for
\* the answer that is on its way, clicks when the provider is armed, and holds a code
\* that is newer than all it has used.
Phases ==
  /\ py \in Between => cur = 0 \/ cur \in ignored
  /\ py \in Signing => cur \in Challenge /\ cur \notin ignored
  /\ In(AskCredentials, toEngine) \/ In(Credentials, toWorker) => py \in Stopped \cup {"creds"}
  /\ In(Question, toEngine) \/ In(Answer, toWorker) => py \in Stopped \cup {"asking"}
  /\ \A c \in Challenge \ ignored :
       In(Prepare(c), toEngine) \/ In(Ready(c), toWorker) => py \in Stopped \cup {"arming"}
  /\ py \in {"armed", "clicked"} => challenges[cur] = "armed"
  /\ py \in {"arming", "armed", "clicked"} => Quiet(cur) /\ ~In(Triggered(cur), toEngine)
  /\ py \in Signing \ {"arming"} => \A k \in 1 .. Len(used) : used[k] <= armedAt[cur]
  /\ py = "filling" => Fits(cur, code)

\* What does not depend on what Python is doing.
Flight ==
  /\ Types /\ Numbers /\ Known /\ Alone(AskCredentials, Credentials) /\ Alone(Question, Answer)
  /\ Prepared /\ Armed /\ Ended /\ Triggers /\ Cursors /\ Increasing

Inv == Flight /\ Phases

-----------------------------------------------------------------------------
(***************************************************************************)
(* Queues.                                                                 *)
(***************************************************************************)
\* The queue r is what is left of q once its first frames are gone.
Suffix(r, q) ==
  \E n \in 0 .. Len(q) :
    Len(r) = Len(q) - n /\ \A i \in 1 .. Len(r) : i + n \in 1 .. Len(q) /\ r[i] = q[i + n]

\* A suffix has no new frame, none more often, and its frames in the old order: what
\* holds of a queue that only its reader touches.
LEMMA SuffixFrames ==
  ASSUME NEW S, NEW q \in Seq(S), NEW r \in Seq(S), Suffix(r, q)
  PROVE  /\ \A i \in 1 .. Len(r) : \E k \in 1 .. Len(q) : r[i] = q[k]
         /\ \A i, j \in 1 .. Len(r) : \E k, m \in 1 .. Len(q) : r[i] = q[k] /\ r[j] = q[m] /\ (k < m => i < j)
         /\ \A f : In(f, r) => In(f, q)
         /\ \A f : Once(f, q) => Once(f, r)
<1>1. PICK n \in 0 .. Len(q) :
        Len(r) = Len(q) - n /\ \A i \in 1 .. Len(r) : i + n \in 1 .. Len(q) /\ r[i] = q[i + n]
  BY Zenon DEF Suffix
<1>2. Len(q) \in Nat /\ Len(r) \in Nat /\ n \in Nat
  OBVIOUS
<1>3. \A i \in 1 .. Len(r) : \E k \in 1 .. Len(q) : r[i] = q[k]
  BY Zenon, <1>1
<1>4. \A i, j \in 1 .. Len(r) : \E k, m \in 1 .. Len(q) : r[i] = q[k] /\ r[j] = q[m] /\ (k < m => i < j)
  <2> TAKE i, j \in 1 .. Len(r)
  <2>1. i + n \in 1 .. Len(q) /\ j + n \in 1 .. Len(q) /\ r[i] = q[i + n] /\ r[j] = q[j + n]
    BY Zenon, <1>1
  <2>2. i + n < j + n => i < j
    BY <1>2
  <2> QED
    BY Zenon, <2>1, <2>2
<1>5. \A f : In(f, r) => In(f, q)
  BY Zenon, <1>3 DEF In
<1>6. \A f : Once(f, q) => Once(f, r)
  <2> SUFFICES ASSUME NEW f, Once(f, q), NEW i \in 1 .. Len(r), NEW k \in 1 .. Len(r), r[i] = f, r[k] = f
               PROVE  i = k
    BY Zenon DEF Once
  <2>1. i + n \in 1 .. Len(q) /\ k + n \in 1 .. Len(q) /\ q[i + n] = f /\ q[k + n] = f
    BY Zenon, <1>1
  <2>2. i + n = k + n
    BY Zenon, <2>1 DEF Once
  <2> QED
    BY <1>2, <2>2
<1> QED
  BY Zenon, <1>3, <1>4, <1>5, <1>6

\* The same as one fact about the two queues.
Kept(r, q) ==
  /\ \A i \in 1 .. Len(r) : \E k \in 1 .. Len(q) : r[i] = q[k]
  /\ \A i, j \in 1 .. Len(r) : \E k, m \in 1 .. Len(q) : r[i] = q[k] /\ r[j] = q[m] /\ (k < m => i < j)
  /\ \A f : In(f, r) => In(f, q)
  /\ \A f : Once(f, q) => Once(f, r)

\* A queue that only its reader touched keeps what it still holds.
LEMMA SuffixKept ==
  ASSUME NEW S, NEW q \in Seq(S), NEW r \in Seq(S), Suffix(r, q)
  PROVE  Kept(r, q)
<1>1. /\ \A i \in 1 .. Len(r) : \E k \in 1 .. Len(q) : r[i] = q[k]
      /\ \A i, j \in 1 .. Len(r) : \E k, m \in 1 .. Len(q) : r[i] = q[k] /\ r[j] = q[m] /\ (k < m => i < j)
      /\ \A f : In(f, r) => In(f, q)
      /\ \A f : Once(f, q) => Once(f, r)
  BY Zenon, SuffixFrames
<1> QED
  BY Zenon, <1>1 DEF Kept

\* Nothing read, everything dropped, the head taken by the coordinator, and the n-th
\* frame taken by Python leave a suffix.
LEMMA Suffixes ==
  ASSUME NEW S, NEW q \in Seq(S)
  PROVE  /\ Suffix(q, q)
         /\ <<>> \in Seq(S) /\ Suffix(<<>>, q)
         /\ q # <<>> => Tail(q) \in Seq(S) /\ Suffix(Tail(q), q)
         /\ \A n \in 1 .. Len(q) :
              SubSeq(q, n + 1, Len(q)) \in Seq(S) /\ Suffix(SubSeq(q, n + 1, Len(q)), q)
<1>0. Len(q) \in Nat
  BY SMTT(30)
<1>1. Suffix(q, q)
  <2>1. 0 \in 0 .. Len(q) /\ Len(q) = Len(q) - 0 /\ \A i \in 1 .. Len(q) : i + 0 \in 1 .. Len(q) /\ q[i] = q[i + 0]
    BY <1>0
  <2> QED
    BY Zenon, <2>1 DEF Suffix
<1>2. <<>> \in Seq(S) /\ Suffix(<<>>, q)
  <2>1. <<>> \in Seq(S) /\ Len(<<>>) = 0
    OBVIOUS
  <2>2. Len(q) \in 0 .. Len(q) /\ 0 = Len(q) - Len(q) /\ \A i \in 1 .. 0 : FALSE
    BY <1>0
  <2> QED
    BY Zenon, <2>1, <2>2 DEF Suffix
<1>3. q # <<>> => Tail(q) \in Seq(S) /\ Suffix(Tail(q), q)
  <2> SUFFICES ASSUME q # <<>> PROVE Tail(q) \in Seq(S) /\ Suffix(Tail(q), q)
    BY Zenon
  <2>1. Tail(q) \in Seq(S) /\ Len(q) > 0 /\ Len(Tail(q)) = Len(q) - 1
    OBVIOUS
  <2>2. \A i \in 1 .. Len(Tail(q)) : i + 1 \in 1 .. Len(q) /\ Tail(q)[i] = q[i + 1]
    OBVIOUS
  <2>3. 1 \in 0 .. Len(q)
    BY <1>0, <2>1
  <2> QED
    BY Zenon, <2>1, <2>2, <2>3 DEF Suffix
<1>4. ASSUME NEW n \in 1 .. Len(q)
      PROVE  SubSeq(q, n + 1, Len(q)) \in Seq(S) /\ Suffix(SubSeq(q, n + 1, Len(q)), q)
  <2> DEFINE r == SubSeq(q, n + 1, Len(q))
  <2>1. r \in Seq(S) /\ Len(r) = Len(q) - n /\ n \in 0 .. Len(q)
    BY <1>0
  <2>2. ASSUME NEW i \in 1 .. Len(r)
        PROVE  i + n \in 1 .. Len(q) /\ r[i] = q[i + n]
    BY <1>0, <2>1
  <2> HIDE DEF r
  <2>3. Suffix(r, q)
    BY Zenon, <2>1, <2>2 DEF Suffix
  <2> QED
    BY Zenon, <2>1, <2>3 DEF r
<1> QED
  BY Zenon, <1>1, <1>2, <1>3, <1>4

\* What follows the n-th frame is the rest of the queue.
LEMMA RestFrames ==
  ASSUME NEW S, NEW q \in Seq(S), NEW n \in 1 .. Len(q), NEW r, r = SubSeq(q, n + 1, Len(q))
  PROVE  \A i \in 1 .. Len(r) : i + n \in 1 .. Len(q) /\ r[i] = q[i + n] /\ i + n # n
<1>1. Len(q) \in Nat /\ r \in Seq(S) /\ Len(r) = Len(q) - n
  BY SMTT(30)
<1> QED
  BY SMTT(30), <1>1

\* What a queue holds is of the type of its frames.
LEMMA Elements ==
  ASSUME NEW S, NEW q \in Seq(S), NEW k \in 1 .. Len(q)
  PROVE  q[k] \in S
BY SMTT(30)

\* Positions in the inbox are ordered.
LEMMA Beneath ==
  ASSUME NEW x \in Nat, NEW y \in Nat, NEW z \in Nat, x <= y, y < z
  PROVE  x < z
BY SMTT(30)

\* A frame that is sent comes last, after all that were in flight.
LEMMA AppendFrames ==
  ASSUME NEW S, NEW q \in Seq(S), NEW g \in S
  PROVE  /\ Append(q, g) \in Seq(S) /\ Len(Append(q, g)) = Len(q) + 1 /\ Len(q) \in Nat
         /\ \A i \in 1 .. Len(Append(q, g)) :
              \/ i \in 1 .. Len(q) /\ Append(q, g)[i] = q[i]
              \/ i = Len(q) + 1 /\ Append(q, g)[i] = g
         /\ \A f : In(f, Append(q, g)) => In(f, q) \/ f = g
         /\ \A f : Once(f, q) /\ (f = g => ~In(f, q)) => Once(f, Append(q, g))
<1>1. Append(q, g) \in Seq(S) /\ Len(Append(q, g)) = Len(q) + 1 /\ Len(q) \in Nat
  OBVIOUS
<1>2. ASSUME NEW i \in 1 .. Len(Append(q, g))
      PROVE  \/ i \in 1 .. Len(q) /\ Append(q, g)[i] = q[i]
             \/ i = Len(q) + 1 /\ Append(q, g)[i] = g
  <2>1. CASE i = Len(q) + 1
    BY <1>1, <2>1
  <2>2. CASE i \in 1 .. Len(q)
    BY <1>1, <2>2
  <2> QED
    BY <1>1, <2>1, <2>2
<1>3. \A f : In(f, Append(q, g)) => In(f, q) \/ f = g
  BY Zenon, <1>2 DEF In
<1>4. \A f : Once(f, q) /\ (f = g => ~In(f, q)) => Once(f, Append(q, g))
  BY Zenon, <1>1, <1>2 DEF Once, In
<1> QED
  BY Zenon, <1>1, <1>2, <1>3, <1>4

\* The same as one fact about the queue before and after.
Added(r, q, g) ==
  /\ Len(r) = Len(q) + 1 /\ Len(q) \in Nat
  /\ \A i \in 1 .. Len(r) : \/ i \in 1 .. Len(q) /\ r[i] = q[i]
                            \/ i = Len(q) + 1 /\ r[i] = g
  /\ \A f : In(f, r) => In(f, q) \/ f = g
  /\ \A f : Once(f, q) /\ (f = g => ~In(f, q)) => Once(f, r)

\* A queue that a frame was written to holds that frame and what it held.
LEMMA AppendAdded ==
  ASSUME NEW S, NEW q \in Seq(S), NEW g \in S, NEW r, r = Append(q, g)
  PROVE  r \in Seq(S) /\ Added(r, q, g)
<1>1. /\ r \in Seq(S) /\ Len(r) = Len(q) + 1 /\ Len(q) \in Nat
      /\ \A i \in 1 .. Len(r) : \/ i \in 1 .. Len(q) /\ r[i] = q[i]
                                \/ i = Len(q) + 1 /\ r[i] = g
      /\ \A f : In(f, r) => In(f, q) \/ f = g
      /\ \A f : Once(f, q) /\ (f = g => ~In(f, q)) => Once(f, r)
  BY ZenonT(30), AppendFrames
<1> QED
  BY Zenon, <1>1 DEF Added

\* The head of a queue that holds it once is gone from the rest.
LEMMA HeadFrames ==
  ASSUME NEW S, NEW q \in Seq(S), q # <<>>
  PROVE  /\ Head(q) \in S /\ 1 \in 1 .. Len(q) /\ Head(q) = q[1] /\ In(Head(q), q)
         /\ Once(Head(q), q) => ~In(Head(q), Tail(q))
         /\ \A i \in 1 .. Len(Tail(q)) : i + 1 \in 1 .. Len(q) /\ Tail(q)[i] = q[i + 1]
<1>1. Head(q) \in S /\ 1 \in 1 .. Len(q) /\ Head(q) = q[1]
  OBVIOUS
<1>2. \A i \in 1 .. Len(Tail(q)) : i + 1 \in 1 .. Len(q) /\ Tail(q)[i] = q[i + 1] /\ i + 1 # 1
  OBVIOUS
<1> QED
  BY Zenon, <1>1, <1>2 DEF In, Once

\* What a frame is, by its type.
LEMMA FrameForms ==
  /\ \A f \in ToEngine :
       /\ f[1] = "credentials.request" => f = AskCredentials
       /\ f[1] = "question" => f = Question
       /\ f[1] = "otp.prepare" => f[2] \in Challenge /\ f = Prepare(f[2])
       /\ f[1] = "otp.triggered" => f[2] \in Challenge /\ f = Triggered(f[2])
       /\ f[1] \in Ends => f[2] \in Challenge
  /\ \A f \in ToWorker :
       /\ f[1] = "credentials.provide" => f = Credentials
       /\ f[1] = "answer" => f = Answer
       /\ f[1] = "otp.ready" => f[2] \in Challenge /\ f = Ready(f[2])
       /\ f[1] \in {"otp.provide", "otp.error", "otp.expired"} => f[2] \in Challenge /\ f[3] \in Nat
       /\ f[1] \in {"credentials.provide", "answer", "control.cancel", "otp.ready", "otp.provide",
                    "otp.error", "otp.expired"}
  /\ \A r \in Results : r[1] \in {"code", "otp.error", "otp.expired"} /\ r[2] \in Challenge /\ r[3] \in Nat
<1>1. \A f \in ToEngine :
       /\ f[1] = "credentials.request" => f = AskCredentials
       /\ f[1] = "question" => f = Question
       /\ f[1] = "otp.prepare" => f[2] \in Challenge /\ f = Prepare(f[2])
       /\ f[1] = "otp.triggered" => f[2] \in Challenge /\ f = Triggered(f[2])
       /\ f[1] \in Ends => f[2] \in Challenge
  BY DEF ToEngine, Questions, Reports, AskCredentials, Question, Prepare, Triggered, Ends
<1>2. \A f \in ToWorker :
       /\ f[1] = "credentials.provide" => f = Credentials
       /\ f[1] = "answer" => f = Answer
       /\ f[1] = "otp.ready" => f[2] \in Challenge /\ f = Ready(f[2])
       /\ f[1] \in {"otp.provide", "otp.error", "otp.expired"} => f[2] \in Challenge /\ f[3] \in Nat
       /\ f[1] \in {"credentials.provide", "answer", "control.cancel", "otp.ready", "otp.provide",
                    "otp.error", "otp.expired"}
  BY DEF ToWorker, Answers, Replies, Codes, Credentials, Answer, Ready
<1>3. \A r \in Results : r[1] \in {"code", "otp.error", "otp.expired"} /\ r[2] \in Challenge /\ r[3] \in Nat
  BY Zenon DEF Results
<1> QED
  BY Zenon, <1>1, <1>2, <1>3

-----------------------------------------------------------------------------
(***************************************************************************)
(* Steps that only take frames, results and goroutines away.               *)
(***************************************************************************)
Shrinking ==
  /\ toEngine' \in Seq(ToEngine) /\ Suffix(toEngine', toEngine)
  /\ toWorker' \in Seq(ToWorker) /\ Suffix(toWorker', toWorker)
  /\ async' \in Seq(Results) /\ Suffix(async', async) /\ polling' \subseteq polling

\* What was quiet stays so.
LEMMA QuietStays ==
  ASSUME Types, NEW c,
         async' \in Seq(Results), Suffix(async', async), polling' \subseteq polling,
         toWorker' \in Seq(ToWorker), Suffix(toWorker', toWorker)
  PROVE  Quiet(c) => Quiet(c)'
<1>0. Kept(async', async) /\ Kept(toWorker', toWorker)
  BY Zenon, SuffixKept DEF Types
<1>1. \A i \in 1 .. Len(async') : \E k \in 1 .. Len(async) : async'[i] = async[k]
  BY Zenon, <1>0 DEF Kept
<1>2. \A i \in 1 .. Len(toWorker') : \E k \in 1 .. Len(toWorker) : toWorker'[i] = toWorker[k]
  BY Zenon, <1>0 DEF Kept
<1> SUFFICES ASSUME Quiet(c) PROVE Quiet(c)'
  BY Zenon
<1>3. c \notin polling'
  BY Zenon DEF Quiet
<1>4. \A i \in 1 .. Len(async') : async'[i][2] # c
  BY Zenon, <1>1 DEF Quiet
<1>5. \A i \in 1 .. Len(toWorker') : ~(toWorker'[i][1] = "otp.provide" /\ toWorker'[i][2] = c)
  BY Zenon, <1>2 DEF Quiet
<1> QED
  BY Zenon, <1>3, <1>4, <1>5 DEF Quiet

\* Nothing that was known of the frames in flight is lost when there are fewer.
LEMMA FlightShrinks ==
  ASSUME Flight, Shrinking, UNCHANGED <<cur, ignored, challenges, armedAt, sent, inbox, used>>,
         py' \in Stopped \cup Signing \cup Between, code' \in Nat, coord' \in {"run", "returned"}
  PROVE  Flight'
<1> USE DEF Flight
<1>0. Kept(toEngine', toEngine) /\ Kept(toWorker', toWorker) /\ Kept(async', async)
  BY Zenon, SuffixKept DEF Types, Shrinking
<1>1. /\ \A i \in 1 .. Len(toEngine') : \E k \in 1 .. Len(toEngine) : toEngine'[i] = toEngine[k]
      /\ \A i, j \in 1 .. Len(toEngine') : \E k, m \in 1 .. Len(toEngine) :
           toEngine'[i] = toEngine[k] /\ toEngine'[j] = toEngine[m] /\ (k < m => i < j)
      /\ \A f : In(f, toEngine') => In(f, toEngine)
      /\ \A f : Once(f, toEngine) => Once(f, toEngine')
  BY Zenon, <1>0 DEF Kept
<1>2. /\ \A i \in 1 .. Len(toWorker') : \E k \in 1 .. Len(toWorker) : toWorker'[i] = toWorker[k]
      /\ \A f : In(f, toWorker') => In(f, toWorker)
      /\ \A f : Once(f, toWorker) => Once(f, toWorker')
  BY Zenon, <1>0 DEF Kept
<1>3. \A i \in 1 .. Len(async') : \E k \in 1 .. Len(async) : async'[i] = async[k]
  BY Zenon, <1>0 DEF Kept
<1>4. \A c : Quiet(c) => Quiet(c)'
  BY Zenon, QuietStays DEF Shrinking
<1>5. \A c : Unsent(c)' <=> Unsent(c)
  BY Zenon DEF Unsent
<1>6. Types'
  BY Zenon DEF Types, Shrinking
<1>7. Numbers'
  BY Zenon DEF Numbers
<1>8. Known'
  BY Zenon, <1>1, <1>2, <1>4, <1>5 DEF Known
<1>9. Alone(AskCredentials, Credentials)' /\ Alone(Question, Answer)'
  BY Zenon, <1>1, <1>2 DEF Alone, AskCredentials, Credentials, Question, Answer
<1>10. Prepared'
  BY Zenon, <1>1, <1>2, <1>4, <1>5 DEF Prepared, Alone, Prepare, Ready
<1>11. Armed'
  BY Zenon, <1>2 DEF Armed, Ready
<1>12. Ended'
  <2> SUFFICES ASSUME NEW i \in 1 .. Len(toEngine'), toEngine'[i][1] \in Ends
               PROVE  /\ toEngine'[i][2] \in ignored
                      /\ \A k \in 1 .. Len(toEngine') : toEngine'[k] = Triggered(toEngine'[i][2]) => k < i
    BY Zenon DEF Ended, Triggered, Ends
  <2>1. toEngine'[i][2] \in ignored
    BY Zenon, <1>1 DEF Ended
  <2>2. ASSUME NEW k \in 1 .. Len(toEngine'), toEngine'[k] = Triggered(toEngine'[i][2])
        PROVE  k < i
    <3>1. PICK m, n \in 1 .. Len(toEngine) :
            toEngine'[k] = toEngine[m] /\ toEngine'[i] = toEngine[n] /\ (m < n => k < i)
      BY Zenon, <1>1
    <3> QED
      BY Zenon, <2>2, <3>1 DEF Ended
  <2> QED
    BY Zenon, <2>1, <2>2
<1>13. Triggers'
  BY Zenon, <1>1, <1>2 DEF Triggers, Triggered, Ready
<1>14. Cursors'
  <2>1. \A c \in Challenge : /\ armedAt'[c] <= Len(inbox')
                             /\ \A i \in 1 .. Len(inbox') : inbox'[i] = c => armedAt'[c] < i
    BY Zenon DEF Cursors
  <2>2. \A i \in 1 .. Len(async') : async'[i][1] = "code" => Fits(async'[i][2], async'[i][3])
    BY Zenon, <1>3 DEF Cursors
  <2>3. ASSUME NEW i \in 1 .. Len(toWorker'), toWorker'[i][1] = "otp.provide"
        PROVE  Fits(toWorker'[i][2], toWorker'[i][3])
    <3>1. PICK k \in 1 .. Len(toWorker) : toWorker'[i] = toWorker[k]
      BY Zenon, <1>2
    <3> QED
      BY Zenon, <2>3, <3>1 DEF Cursors
  <2> QED
    BY Zenon, <2>1, <2>2, <2>3 DEF Cursors, Fits
<1>15. Increasing'
  BY Zenon DEF Increasing
<1> QED
  BY Zenon, <1>6, <1>7, <1>8, <1>9, <1>10, <1>11, <1>12, <1>13, <1>14, <1>15

\* A frame in flight of a challenge that is not ignored is of the present one.
LEMMA Present ==
  ASSUME Flight, NEW c \in Challenge,
         In(Prepare(c), toEngine) \/ In(Triggered(c), toEngine) \/ In(Ready(c), toWorker)
  PROVE  c <= cur /\ (c \notin ignored => c = cur)
<1>1. ASSUME NEW i \in 1 .. Len(toEngine), toEngine[i] = Prepare(c) \/ toEngine[i] = Triggered(c)
      PROVE  c <= cur
  <2>1. toEngine[i][2] = c
    BY <1>1 DEF Prepare, Triggered
  <2> QED
    BY Zenon, <2>1 DEF Flight, Known
<1>2. ASSUME NEW i \in 1 .. Len(toWorker), toWorker[i] = Ready(c)
      PROVE  c <= cur
  <2>1. toWorker[i][2] = c
    BY <1>2 DEF Ready
  <2> QED
    BY Zenon, <2>1 DEF Flight, Known
<1>3. c <= cur
  BY Zenon, <1>1, <1>2 DEF In
<1>4. c \notin ignored => ~(c < cur)
  BY Zenon DEF Flight, Numbers
<1> QED
  BY <1>3, <1>4 DEF Flight, Types, Challenge

\* Python goes on with what it does, or stops.
LEMMA PhasesShrink ==
  ASSUME Flight, Phases, Shrinking, UNCHANGED <<cur, ignored, challenges, armedAt, inbox, used>>,
         py' \in Stopped \/ UNCHANGED <<py, code>>
  PROVE  Phases'
<1>0. Kept(toEngine', toEngine) /\ Kept(toWorker', toWorker)
  BY Zenon, SuffixKept DEF Flight, Types, Shrinking
<1>1. /\ \A f : In(f, toEngine') => In(f, toEngine)
      /\ \A f : In(f, toWorker') => In(f, toWorker)
  BY Zenon, <1>0 DEF Kept
<1>2. \A c : Quiet(c) => Quiet(c)'
  BY Zenon, QuietStays DEF Flight, Shrinking
<1>3. CASE py' \in Stopped
  BY Zenon, <1>3 DEF Phases, Stopped, Signing, Between
<1>4. CASE UNCHANGED <<py, code>>
  BY Zenon, <1>1, <1>2, <1>4 DEF Phases, Fits, Prepare, Ready, Triggered, AskCredentials, Credentials, Question, Answer
<1> QED
  BY Zenon, <1>3, <1>4

\* So such a step keeps the invariant.
LEMMA Shrinks ==
  ASSUME Inv, Shrinking, UNCHANGED <<cur, ignored, challenges, armedAt, sent, inbox, used>>,
         code' \in Nat, coord' \in {"run", "returned"}, py' \in Stopped \/ UNCHANGED <<py, code>>
  PROVE  Inv'
BY Zenon, FlightShrinks, PhasesShrink DEF Inv, Flight, Types

-----------------------------------------------------------------------------
(***************************************************************************)
(* Python's steps that write nothing.                                      *)
(***************************************************************************)
\* Python takes the n-th frame (_next): what is left holds it no more often than it
\* was in flight.
LEMMA Taken ==
  ASSUME Types, NEW n \in DOMAIN toWorker, Take(n)
  PROVE  /\ n \in 1 .. Len(toWorker) /\ toWorker[n] \in ToWorker /\ In(toWorker[n], toWorker)
         /\ toWorker' \in Seq(ToWorker) /\ Suffix(toWorker', toWorker)
         /\ Once(toWorker[n], toWorker) => ~In(toWorker[n], toWorker')
<1>1. /\ toWorker \in Seq(ToWorker) /\ Len(toWorker) \in Nat /\ n \in 1 .. Len(toWorker)
      /\ toWorker[n] \in ToWorker
  BY DEF Types
<1>2. toWorker' = SubSeq(toWorker, n + 1, Len(toWorker))
  BY Zenon DEF Take
<1>3. toWorker' \in Seq(ToWorker) /\ Suffix(toWorker', toWorker)
  BY Zenon, <1>1, <1>2, Suffixes
<1>4. \A i \in 1 .. Len(toWorker') : i + n \in 1 .. Len(toWorker) /\ toWorker'[i] = toWorker[i + n] /\ i + n # n
  BY SMTT(30), ZenonT(60), <1>1, <1>2, RestFrames
<1> QED
  BY Zenon, <1>1, <1>3, <1>4 DEF In, Once

\* A step that leaves the queues alone only takes away.
LEMMA Untouched ==
  ASSUME Types, UNCHANGED <<async, polling>>,
         toEngine' = toEngine \/ toEngine' = <<>>,
         toWorker' = toWorker \/ (toWorker' \in Seq(ToWorker) /\ Suffix(toWorker', toWorker))
  PROVE  Shrinking
BY Zenon, Suffixes DEF Types, Shrinking

\* Python writes nothing and goes on inside the part of a run that has no challenge,
\* or stops: check_cancelled, an error, the authenticated page, and the page that asks
\* for the code.
LEMMA MoveSteps ==
  ASSUME Inv,
         \/ CheckCancelled \/ BrowserFails \/ Authenticated \/ Reauthenticate
         \/ py = "triggered" /\ py' = "waiting" /\ PyStep
            /\ UNCHANGED <<login, cur, ignored, code, used, toEngine, toWorker>>
  PROVE  Inv'
<1> DEFINE Rest == <<cur, ignored, code, used, toEngine, toWorker, async, polling, challenges,
                     armedAt, sent, inbox, coord>>
<1>1. /\ UNCHANGED Rest
      /\ \/ py' \in Stopped
         \/ py \in {"auth", "ready"} /\ py' \in {"auth", "ready"}
         \/ py = "triggered" /\ py' = "waiting"
  BY Zenon DEF CheckCancelled, BrowserFails, Authenticated, Reauthenticate, PyStep, phone, engine, Stopped
<1>2. Flight /\ Phases /\ Types
  BY Zenon DEF Inv, Flight
<1>3. Shrinking
  BY Zenon, <1>1, <1>2, Untouched
<1>4. code' \in Nat /\ coord' \in {"run", "returned"} /\ py' \in Stopped \cup Signing \cup Between
  BY Zenon, <1>1, <1>2 DEF Types, Stopped, Signing, Between
<1>5. Flight'
  BY Zenon, <1>1, <1>2, <1>3, <1>4, FlightShrinks
<1>6. CASE py' \in Stopped
  BY Zenon, <1>1, <1>3, <1>4, <1>6, Shrinks
<1>7. CASE py \in {"auth", "ready"} /\ py' \in {"auth", "ready"}
  <2>1. Phases'
    BY Zenon, <1>1, <1>2, <1>7
    DEF Phases, Stopped, Signing, Between, AskCredentials, Credentials, Question, Answer, Prepare, Ready
  <2> QED
    BY Zenon, <1>5, <2>1 DEF Inv
<1>8. CASE py = "triggered" /\ py' = "waiting"
  <2>1. Phases'
    BY Zenon, <1>1, <1>2, <1>8
    DEF Phases, Stopped, Signing, Between, AskCredentials, Credentials, Question, Answer, Prepare, Ready
  <2> QED
    BY <1>5, <2>1 DEF Inv
<1> QED
  BY Zenon, <1>1, <1>6, <1>7, <1>8

\* The frame a blocked receive finds is a cancellation or the answer it expects: an
\* answer in flight is for the present phase, a reply of an older challenge is stale,
\* and before the trigger nobody sends a code.
LEMMA ReceivedIsExpected ==
  ASSUME Inv, NEW n \in DOMAIN toWorker, Take(n), py \in {"creds", "arming", "waiting", "asking"},
         toWorker[n][1] # "control.cancel"
  PROVE  /\ <<toWorker[n][1], toWorker[n][2]>> \in Expected[py]
         /\ toWorker[n][1] = "credentials.provide" => toWorker[n] = Credentials /\ py = "creds"
         /\ toWorker[n][1] = "answer" => toWorker[n] = Answer /\ py = "asking"
         /\ toWorker[n][1] = "otp.ready" => toWorker[n] = Ready(cur) /\ py = "arming"
         /\ toWorker[n][1] = "otp.provide" => toWorker[n][2] = cur /\ py = "waiting"
<1> DEFINE f == toWorker[n]
<1>1. Types /\ Numbers /\ Known /\ Phases
  BY Zenon DEF Inv, Flight
<1>2. n \in 1 .. Len(toWorker) /\ f \in ToWorker /\ In(f, toWorker)
  BY Zenon, <1>1, Taken
<1>3. /\ Expected["creds"] = {<<"credentials.provide", 0>>}
      /\ Expected["asking"] = {<<"answer", 0>>}
      /\ Expected["arming"] = {<<"otp.ready", cur>>, <<"otp.error", cur>>, <<"otp.expired", cur>>}
      /\ Expected["waiting"] = {<<"otp.provide", cur>>, <<"otp.error", cur>>, <<"otp.expired", cur>>}
  BY Zenon DEF Expected
<1>4. CASE f[1] = "credentials.provide"
  <2>1. f = Credentials
    BY Zenon, <1>2, <1>4, FrameForms
  <2>2. py = "creds"
    BY Zenon, <1>1, <1>2, <2>1 DEF Phases, Stopped
  <2> QED
    BY <1>3, <1>4, <2>1, <2>2 DEF Credentials
<1>5. CASE f[1] = "answer"
  <2>1. f = Answer
    BY Zenon, <1>2, <1>5, FrameForms
  <2>2. py = "asking"
    BY Zenon, <1>1, <1>2, <2>1 DEF Phases, Stopped
  <2> QED
    BY <1>3, <1>5, <2>1, <2>2 DEF Answer
<1>6. CASE f[1] \in {"otp.ready", "otp.error", "otp.expired", "otp.provide"}
  <2>1. f[2] \in Challenge
    BY Zenon, <1>2, <1>6, FrameForms
  <2>2. f[2] \notin ignored
    BY Zenon, <1>6 DEF Take, Stale
  <2>3. f[2] = cur
    <3>1. f[2] <= cur /\ ~(f[2] < cur)
      BY Zenon, <1>1, <1>2, <2>1, <2>2 DEF Known, Numbers
    <3> QED
      BY <1>1, <2>1, <3>1 DEF Types, Challenge
  <2>4. py \in {"arming", "waiting"}
    BY SMTT(30), <1>1, <2>1, <2>2, <2>3 DEF Phases, Between, Challenge
  <2>5. f[1] = "otp.ready" => f = Ready(cur) /\ py = "arming"
    BY Zenon, <1>1, <1>2, <2>1, <2>2, <2>3, <2>4, FrameForms DEF Phases, Stopped
  <2>6. f[1] = "otp.provide" => py = "waiting"
    BY Zenon, <1>1, <1>2, <2>3, <2>4 DEF Phases, Quiet
  <2> QED
    BY Zenon, <1>3, <1>6, <2>3, <2>4, <2>5, <2>6
<1> QED
  BY Zenon, <1>2, <1>4, <1>5, <1>6, FrameForms

\* Python reads a frame that ends nothing: credentials, the armed provider, a code or
\* the answer, or the cancellation that stops it.  (An error ends the challenge.)
LEMMA ReadSteps ==
  ASSUME Inv, NEW n \in DOMAIN toWorker,
         \/ ReceiveOther(n) \/ ReceiveCredentials(n) \/ Answered(n)
         \/ Receive(n, "arming", "otp.ready") /\ py' = "armed"
            /\ UNCHANGED <<ignored, login, cur, toEngine, code, used>>
         \/ Receive(n, "waiting", "otp.provide") /\ code' = toWorker[n][3] /\ py' = "filling"
            /\ UNCHANGED <<ignored, login, cur, toEngine, used>>
  PROVE  Inv'
<1>1. /\ Take(n) /\ UNCHANGED <<cur, ignored, used, toEngine, async, polling, challenges, armedAt, sent, inbox, coord>>
      /\ \/ /\ py \in {"creds", "arming", "waiting", "asking"} /\ UNCHANGED code
            /\ <<toWorker[n][1], toWorker[n][2]>> \notin Expected[py]
            /\ py' = IF toWorker[n][1] = "control.cancel" THEN "cancelled" ELSE "protocol_error"
         \/ py = "creds" /\ toWorker[n][1] = "credentials.provide" /\ py' = "phone" /\ UNCHANGED code
         \/ py = "asking" /\ toWorker[n][1] = "answer" /\ py' = "done" /\ UNCHANGED code
         \/ py = "arming" /\ toWorker[n][1] = "otp.ready" /\ py' = "armed" /\ UNCHANGED code
         \/ py = "waiting" /\ toWorker[n][1] = "otp.provide" /\ py' = "filling" /\ code' = toWorker[n][3]
  BY Zenon DEF ReceiveOther, ReceiveCredentials, Answered, Receive, PyStep, phone, engine, Expected
<1>2. Flight /\ Phases /\ Types
  BY ZenonT(30) DEF Inv, Flight
<1>3. /\ toWorker[n] \in ToWorker /\ In(toWorker[n], toWorker) /\ n \in 1 .. Len(toWorker)
      /\ toWorker' \in Seq(ToWorker) /\ Suffix(toWorker', toWorker)
      /\ Once(toWorker[n], toWorker) => ~In(toWorker[n], toWorker')
  BY Zenon, <1>1, <1>2, Taken
<1>4. Shrinking
  BY Zenon, <1>1, <1>2, <1>3, Untouched
<1>5. coord' \in {"run", "returned"} /\ code \in Nat
  BY Zenon, <1>1, <1>2 DEF Types
<1>6. toWorker[n][1] = "otp.provide" => toWorker[n][3] \in Nat
  BY Zenon, <1>3, FrameForms
<1>7. /\ \A f : In(f, toEngine') => In(f, toEngine)
      /\ \A f : In(f, toWorker') => In(f, toWorker)
  BY Zenon, <1>2, <1>4, SuffixFrames DEF Shrinking, Types
<1>8. CASE /\ py \in {"creds", "arming", "waiting", "asking"} /\ UNCHANGED code
           /\ <<toWorker[n][1], toWorker[n][2]>> \notin Expected[py]
           /\ py' = IF toWorker[n][1] = "control.cancel" THEN "cancelled" ELSE "protocol_error"
  <2>1. py' \in Stopped
    BY Zenon, <1>1, <1>8, ReceivedIsExpected DEF Stopped
  <2> QED
    BY Zenon, <1>1, <1>4, <1>5, <1>8, <2>1, Shrinks
<1>9. CASE py = "creds" /\ toWorker[n][1] = "credentials.provide" /\ py' = "phone" /\ UNCHANGED code
  <2>1. toWorker[n] = Credentials
    BY ZenonT(30), <1>1, <1>9, ReceivedIsExpected
  <2>2. ~In(Credentials, toWorker') /\ ~In(AskCredentials, toEngine')
    BY Zenon, <1>1, <1>2, <1>3, <2>1 DEF Flight, Alone
  <2>3. Flight'
    BY Zenon, <1>1, <1>2, <1>4, <1>5, <1>9, FlightShrinks DEF Between
  <2>4. Phases'
    BY Zenon, <1>1, <1>2, <1>7, <1>9, <2>2
    DEF Phases, Stopped, Signing, Between, AskCredentials, Credentials, Question, Answer, Prepare, Ready
  <2> QED
    BY Zenon, <2>3, <2>4 DEF Inv
<1>10. CASE py = "asking" /\ toWorker[n][1] = "answer" /\ py' = "done" /\ UNCHANGED code
  <2>1. toWorker[n] = Answer
    BY ZenonT(30), <1>1, <1>10, ReceivedIsExpected
  <2>2. ~In(Answer, toWorker') /\ ~In(Question, toEngine')
    BY Zenon, <1>1, <1>2, <1>3, <2>1 DEF Flight, Alone
  <2>3. Flight'
    BY Zenon, <1>1, <1>2, <1>4, <1>5, <1>10, FlightShrinks DEF Between
  <2>4. Phases'
    BY Zenon, <1>1, <1>2, <1>7, <1>10, <2>2
    DEF Phases, Stopped, Signing, Between, AskCredentials, Credentials, Question, Answer, Prepare, Ready
  <2> QED
    BY <2>3, <2>4 DEF Inv
<1>11. CASE py = "arming" /\ toWorker[n][1] = "otp.ready" /\ py' = "armed" /\ UNCHANGED code
  <2>1. toWorker[n] = Ready(cur) /\ cur \in Challenge /\ cur \notin ignored
    BY ZenonT(30), <1>1, <1>2, <1>11, ReceivedIsExpected DEF Phases, Signing
  <2>2. ~In(Ready(cur), toWorker') /\ ~In(Prepare(cur), toEngine')
    BY ZenonT(30), <1>1, <1>2, <1>3, <2>1 DEF Flight, Prepared, Alone
  <2>3. challenges[cur] = "armed" /\ \A k \in 1 .. Len(used) : used[k] <= armedAt[cur]
    BY Zenon, <1>2, <1>3, <2>1 DEF Flight, Armed
  <2>4. Flight'
    BY Zenon, <1>1, <1>2, <1>4, <1>5, <1>11, FlightShrinks DEF Signing
  <2>5. \A c \in Challenge \ ignored' : ~In(Prepare(c), toEngine') /\ ~In(Ready(c), toWorker')
    <3> SUFFICES ASSUME NEW c \in Challenge \ ignored', In(Prepare(c), toEngine') \/ In(Ready(c), toWorker')
                 PROVE  FALSE
      BY Zenon
    <3>1. In(Prepare(c), toEngine) \/ In(Ready(c), toWorker)
      BY Zenon, <1>7
    <3>2. c = cur
      BY Zenon, <1>1, <1>2, <3>1, Present
    <3> QED
      BY Zenon, <2>2, <3>2
  <2>6. Quiet(cur)' /\ ~In(Triggered(cur), toEngine')
    BY Zenon, <1>1, <1>2, <1>4, <1>7, <1>11, QuietStays DEF Phases, Shrinking
  <2>7. Phases'
    BY ZenonT(30), <1>1, <1>2, <1>7, <1>11, <2>1, <2>3, <2>5, <2>6
    DEF Phases, Stopped, Signing, Between, AskCredentials, Credentials, Question, Answer, Prepare, Ready, Triggered, Quiet
  <2> QED
    BY <2>4, <2>7 DEF Inv
<1>12. CASE py = "waiting" /\ toWorker[n][1] = "otp.provide" /\ py' = "filling" /\ code' = toWorker[n][3]
  <2>1. toWorker[n][2] = cur
    BY Zenon, <1>1, <1>12, ReceivedIsExpected
  <2>2. Fits(cur, code')
    BY Zenon, <1>2, <1>3, <1>12, <2>1 DEF Flight, Cursors
  <2>3. Flight'
    BY Zenon, <1>1, <1>2, <1>4, <1>5, <1>6, <1>12, FlightShrinks DEF Signing
  <2>4. Phases'
    BY Zenon, <1>1, <1>2, <1>7, <1>12, <2>2
    DEF Phases, Stopped, Signing, Between, AskCredentials, Credentials, Question, Answer, Prepare, Ready, Fits
  <2> QED
    BY <2>3, <2>4 DEF Inv
<1> QED
  BY Zenon, <1>1, <1>8, <1>9, <1>10, <1>11, <1>12

-----------------------------------------------------------------------------
(***************************************************************************)
(* Python's steps that write a frame.                                      *)
(***************************************************************************)
\* What a frame f needs when Python writes it: an exchange begins when none is under
\* way, a challenge is prepared when it is new, triggered once while it is armed, and
\* ended for good.
LEMMA FlightEmits ==
  ASSUME Flight, NEW f \in ToEngine, toEngine' = Append(toEngine, f),
         toWorker' \in Seq(ToWorker), Suffix(toWorker', toWorker),
         UNCHANGED <<async, polling, challenges, armedAt, sent, inbox, coord>>,
         cur' \in 0 .. MaxChallenges, cur <= cur', f[2] <= cur',
         ignored \subseteq ignored', ignored' \subseteq Challenge,
         py' \in Stopped \cup Signing \cup Between, code' \in Nat, used' \in Seq(Nat),
         Numbers', Increasing', Armed',
         f = AskCredentials => ~In(AskCredentials, toEngine) /\ ~In(Credentials, toWorker),
         f = Question => ~In(Question, toEngine) /\ ~In(Answer, toWorker),
         \A c \in Challenge : f = Prepare(c) =>
           /\ ~In(Prepare(c), toEngine) /\ ~In(Ready(c), toWorker)
           /\ challenges[c] = "none" /\ Quiet(c) /\ Unsent(c),
         \A c \in Challenge : f = Triggered(c) =>
           /\ ~In(Triggered(c), toEngine) /\ ~In(Ready(c), toWorker)
           /\ challenges[c] = "armed" /\ c \notin ignored',
         f[1] \in Ends => f[2] \in ignored'
  PROVE  Flight'
<1> USE DEF Flight
<1>1. /\ toEngine' \in Seq(ToEngine) /\ Len(toEngine') = Len(toEngine) + 1 /\ Len(toEngine) \in Nat
      /\ \A i \in 1 .. Len(toEngine') : \/ i \in 1 .. Len(toEngine) /\ toEngine'[i] = toEngine[i]
                                        \/ i = Len(toEngine) + 1 /\ toEngine'[i] = f
      /\ \A g : In(g, toEngine') => In(g, toEngine) \/ g = f
      /\ \A g : Once(g, toEngine) /\ (g = f => ~In(g, toEngine)) => Once(g, toEngine')
  <2>1. toEngine \in Seq(ToEngine)
    BY Zenon DEF Types
  <2>2. toEngine' \in Seq(ToEngine) /\ Added(toEngine', toEngine, f)
    BY Zenon, <2>1, AppendAdded
  <2> QED
    BY Zenon, <2>2 DEF Added
<1>2. /\ \A i \in 1 .. Len(toWorker') : \E k \in 1 .. Len(toWorker) : toWorker'[i] = toWorker[k]
      /\ \A g : In(g, toWorker') => In(g, toWorker)
      /\ \A g : Once(g, toWorker) => Once(g, toWorker')
  <2>1. toWorker \in Seq(ToWorker)
    BY Zenon DEF Types
  <2>2. Kept(toWorker', toWorker)
    BY Zenon, <2>1, SuffixKept
  <2> QED
    BY Zenon, <2>2 DEF Kept
<1>3. \A c : Quiet(c) => Quiet(c)'
  BY Zenon, Suffixes, QuietStays DEF Types
<1>4. \A c : Unsent(c)' <=> Unsent(c)
  BY Zenon DEF Unsent
<1>5. cur \in Nat /\ cur' \in Nat
  BY SMTT(30) DEF Types
<1>6. Types'
  BY Zenon, <1>1 DEF Types
<1>7. Known'
  <2>1. \A i \in 1 .. Len(toEngine') : toEngine'[i][2] <= cur'
    <3> SUFFICES ASSUME NEW i \in 1 .. Len(toEngine') PROVE toEngine'[i][2] <= cur'
      BY Zenon
    <3>1. CASE i \in 1 .. Len(toEngine) /\ toEngine'[i] = toEngine[i]
      <4>1. toEngine[i][2] <= cur /\ toEngine[i] \in ToEngine
        BY SMTT(30), <3>1 DEF Known, Types
      <4>2. toEngine[i][2] \in Nat
        BY SMTT(30), <4>1 DEF ToEngine, Questions, Reports, Challenge
      <4> QED
        BY SMTT(30), <1>5, <3>1, <4>1, <4>2
    <3> QED
      BY Zenon, <1>1, <3>1
  <2>2. \A i \in 1 .. Len(toWorker') : toWorker'[i][2] <= cur'
    <3> SUFFICES ASSUME NEW i \in 1 .. Len(toWorker') PROVE toWorker'[i][2] <= cur'
      BY Zenon
    <3>1. PICK k \in 1 .. Len(toWorker) : toWorker'[i] = toWorker[k]
      BY Zenon, <1>2
    <3>2. toWorker[k][2] <= cur /\ toWorker[k] \in ToWorker
      BY SMTT(30) DEF Known, Types
    <3>3. toWorker[k][2] \in Nat
      BY SMTT(30), <3>2 DEF ToWorker, Answers, Replies, Codes, Challenge
    <3> QED
      BY SMTT(30), <1>5, <3>1, <3>2, <3>3
  <2>3. \A c \in Challenge : c > cur' => c > cur
    BY <1>5 DEF Challenge
  <2>4. \A c \in Challenge : c > cur' => challenges'[c] = "none" /\ Quiet(c)' /\ Unsent(c)'
    BY Zenon, <1>3, <1>4, <2>3 DEF Known
  <2> QED
    BY Zenon, <2>1, <2>2, <2>4 DEF Known
<1>8. Alone(AskCredentials, Credentials)' /\ Alone(Question, Answer)'
  BY Zenon, <1>1, <1>2 DEF Alone, AskCredentials, Credentials, Question, Answer
<1>9. Prepared'
  <2> SUFFICES ASSUME NEW c \in Challenge
               PROVE  /\ Alone(Prepare(c), Ready(c))'
                      /\ In(Prepare(c), toEngine') => challenges'[c] = "none" /\ Quiet(c)' /\ Unsent(c)'
    BY ZenonT(30) DEF Prepared, Prepare
  <2>1. Alone(Prepare(c), Ready(c))'
    BY Zenon, <1>1, <1>2 DEF Prepared, Alone, Prepare, Ready
  <2>2. In(Prepare(c), toEngine') => challenges'[c] = "none" /\ Quiet(c)' /\ Unsent(c)'
    BY Zenon, <1>1, <1>3, <1>4 DEF Prepared
  <2> QED
    BY Zenon, <2>1, <2>2
<1>10. Ended'
  <2> SUFFICES ASSUME NEW i \in 1 .. Len(toEngine'), toEngine'[i][1] \in Ends
               PROVE  /\ toEngine'[i][2] \in ignored'
                      /\ \A k \in 1 .. Len(toEngine') : toEngine'[k] = Triggered(toEngine'[i][2]) => k < i
    BY ZenonT(30) DEF Ended, Triggered, Ends
  <2>1. CASE i \in 1 .. Len(toEngine) /\ toEngine'[i] = toEngine[i]
    <3>1. toEngine'[i][2] \in ignored /\ toEngine'[i][2] \in Challenge
      BY Zenon, <2>1 DEF Ended, Types
    <3>2. ASSUME NEW k \in 1 .. Len(toEngine'), toEngine'[k] = Triggered(toEngine'[i][2])
          PROVE  k < i
      <4>1. k \in 1 .. Len(toEngine) /\ toEngine'[k] = toEngine[k]
        BY ZenonT(30), <1>1, <3>1, <3>2
      <4> QED
        BY Zenon, <2>1, <3>2, <4>1 DEF Ended
    <3> QED
      BY Zenon, <3>1, <3>2
  <2>2. CASE i = Len(toEngine) + 1 /\ toEngine'[i] = f
    <3>1. ASSUME NEW k \in 1 .. Len(toEngine'), toEngine'[k] = Triggered(toEngine'[i][2])
          PROVE  k < i
      <4>1. toEngine'[k][1] # toEngine'[i][1]
        BY SMTT(30), <3>1 DEF Triggered, Ends
      <4>2. k # i
        BY Zenon, <4>1
      <4> QED
        BY SMTT(30), <1>1, <2>2, <4>2
    <3> QED
      BY Zenon, <2>2, <3>1
  <2> QED
    BY Zenon, <1>1, <2>1, <2>2
<1>11. Triggers'
  BY ZenonT(30), <1>1, <1>2 DEF Triggers, Triggered, Ready
<1>12. Cursors'
  <2>1. \A c \in Challenge : /\ armedAt'[c] <= Len(inbox')
                             /\ \A i \in 1 .. Len(inbox') : inbox'[i] = c => armedAt'[c] < i
    BY Zenon DEF Cursors
  <2>2. \A i \in 1 .. Len(async') : async'[i][1] = "code" => Fits(async'[i][2], async'[i][3])
    BY Zenon DEF Cursors
  <2>3. ASSUME NEW i \in 1 .. Len(toWorker'), toWorker'[i][1] = "otp.provide"
        PROVE  Fits(toWorker'[i][2], toWorker'[i][3])
    <3>1. PICK k \in 1 .. Len(toWorker) : toWorker'[i] = toWorker[k]
      BY Zenon, <1>2
    <3> QED
      BY Zenon, <2>3, <3>1 DEF Cursors
  <2> QED
    BY ZenonT(30), <2>1, <2>2, <2>3 DEF Cursors, Fits
<1> QED
  BY Zenon, <1>6, <1>7, <1>8, <1>9, <1>10, <1>11, <1>12

\* Python asks for the credentials or asks its next question: it did neither before.
LEMMA AskSteps ==
  ASSUME Inv, RequestCredentials \/ Ask
  PROVE  Inv'
<1>0. PICK f \in {AskCredentials, Question} : toEngine' = Append(toEngine, f)
        /\ (f = AskCredentials => py = "auth" /\ py' = "creds")
        /\ (f = Question => py = "ready" /\ py' = "asking")
        /\ UNCHANGED <<cur, ignored, code, used, toWorker, async, polling, challenges, armedAt, sent, inbox, coord>>
  BY Zenon DEF RequestCredentials, Ask, AskCredentials, Question, PyStep, phone, engine
<1>1. Flight /\ Phases /\ Types
  BY Zenon DEF Inv, Flight
<1>2. /\ f \in ToEngine /\ f[2] = 0 /\ f[1] \in {"credentials.request", "question"} /\ f[1] \notin Ends
      /\ \A c \in Challenge : f # Prepare(c) /\ f # Triggered(c)
      /\ AskCredentials # Question
  BY DEF ToEngine, Questions, AskCredentials, Question, Ends, Prepare, Triggered
<1>3. toWorker \in Seq(ToWorker) /\ Suffix(toWorker, toWorker)
  BY Zenon, <1>1, Suffixes DEF Types
<1>4. Numbers' /\ Increasing' /\ Armed'
  BY Zenon, <1>0, <1>1 DEF Flight, Numbers, Increasing, Armed, Ready
<1>5. f = AskCredentials => ~In(AskCredentials, toEngine) /\ ~In(Credentials, toWorker)
  BY Zenon, <1>0, <1>1 DEF Phases, Stopped
<1>6. f = Question => ~In(Question, toEngine) /\ ~In(Answer, toWorker)
  BY Zenon, <1>0, <1>1 DEF Phases, Stopped
<1>7. cur' \in 0 .. MaxChallenges /\ cur <= cur' /\ f[2] <= cur' /\ ignored' \subseteq Challenge
      /\ code' \in Nat /\ used' \in Seq(Nat) /\ py' \in Stopped \cup Signing \cup Between
  BY <1>0, <1>1, <1>2 DEF Types, Between
<1>8. Flight'
  BY Zenon, <1>0, <1>1, <1>2, <1>3, <1>4, <1>5, <1>6, <1>7, FlightEmits
<1>9. \A g : In(g, toEngine') => In(g, toEngine) \/ g = f
  BY ZenonT(30), <1>0, <1>1, <1>2, AppendFrames DEF Types
<1>10. Phases'
  BY Zenon, <1>0, <1>1, <1>2, <1>9
  DEF Phases, Stopped, Signing, Between, AskCredentials, Credentials, Question, Answer, Prepare, Ready
<1> QED
  BY Zenon, <1>8, <1>10 DEF Inv

\* Python prepares a new challenge, of which nobody has heard.
LEMMA PrepareSteps ==
  ASSUME Inv, PrepareOtp
  PROVE  Inv'
<1> DEFINE d == cur + 1
           f == Prepare(d)
<1>0. /\ py \in {"phone", "auth"} /\ cur < MaxChallenges /\ cur' = d /\ py' = "arming"
      /\ toEngine' = Append(toEngine, f)
      /\ UNCHANGED <<ignored, code, used, toWorker, async, polling, challenges, armedAt, sent, inbox, coord>>
  BY Zenon DEF PrepareOtp, Prepare, PyStep, phone, engine
<1>1. Flight /\ Phases /\ Types
  BY Zenon DEF Inv, Flight
<1>2. d \in Challenge /\ d > cur /\ cur \in Nat /\ d \in 0 .. MaxChallenges
  BY <1>0, <1>1, ChallengesAssumption DEF Types, Challenge
<1> HIDE DEF d
<1>3. /\ f \in ToEngine /\ f[1] = "otp.prepare" /\ f[2] = d /\ f[1] \notin Ends
      /\ f # AskCredentials /\ f # Question
      /\ \A c \in Challenge : f # Triggered(c) /\ (f = Prepare(c) => c = d)
  BY Zenon, <1>2 DEF ToEngine, Reports, AskCredentials, Question, Ends, Prepare, Triggered
<1> HIDE DEF f
<1>4. toWorker \in Seq(ToWorker) /\ Suffix(toWorker, toWorker)
  BY Zenon, <1>1, Suffixes DEF Types
<1>5. challenges[d] = "none" /\ Quiet(d) /\ Unsent(d) /\ d \notin ignored
  BY <1>1, <1>2 DEF Flight, Known, Numbers
<1>6. ~In(Prepare(d), toEngine) /\ ~In(Ready(d), toWorker) /\ ~In(Triggered(d), toEngine)
  BY SMTT(30), <1>1, <1>2, Present
<1>7. Increasing' /\ Armed'
  BY Zenon, <1>0, <1>1 DEF Flight, Increasing, Armed, Ready
<1>8. Numbers'
  <2>1. cur = 0 \/ cur \in ignored
    BY Zenon, <1>0, <1>1 DEF Phases, Between
  <2> SUFFICES ASSUME NEW c \in Challenge PROVE (c \in ignored => c <= d) /\ (c < d => c \in ignored)
    BY Zenon, <1>0 DEF Numbers
  <2>2. (c \in ignored => c <= cur) /\ (c < cur => c \in ignored)
    BY Zenon, <1>1 DEF Flight, Numbers
  <2>3. c < d => c < cur \/ c = cur
    BY <1>2 DEF Challenge, d
  <2> QED
    BY <1>2, <2>1, <2>2, <2>3 DEF Challenge
<1>9. cur <= cur' /\ f[2] <= cur' /\ ignored' \subseteq Challenge /\ cur' \in 0 .. MaxChallenges
      /\ code' \in Nat /\ used' \in Seq(Nat) /\ py' \in Stopped \cup Signing \cup Between
  BY SMTT(30), <1>0, <1>1, <1>2, <1>3 DEF Types, Signing
<1>10. Flight'
  BY ZenonT(30), <1>0, <1>1, <1>3, <1>4, <1>5, <1>6, <1>7, <1>8, <1>9, FlightEmits
<1>11. \A g : In(g, toEngine') => In(g, toEngine) \/ g = f
  BY ZenonT(30), <1>0, <1>1, <1>3, AppendFrames DEF Types
<1>12. Quiet(cur)' /\ ~In(Triggered(cur)', toEngine')
  BY ZenonT(30), <1>0, <1>2, <1>3, <1>5, <1>6, <1>11 DEF Quiet, Triggered
<1>13. Phases'
  BY Zenon, <1>0, <1>1, <1>2, <1>3, <1>5, <1>11, <1>12
  DEF Phases, Stopped, Signing, Between, AskCredentials, Credentials, Question, Answer, Prepare, Ready, Quiet, Triggered
<1> QED
  BY Zenon, <1>10, <1>13 DEF Inv

\* Python reports the click, once, while the provider is armed.
LEMMA TriggerSteps ==
  ASSUME Inv, OtpTriggered
  PROVE  Inv'
<1> DEFINE f == Triggered(cur)
<1>0. /\ py = "clicked" /\ py' \in {"triggered", "waiting"} /\ toEngine' = Append(toEngine, f)
      /\ UNCHANGED <<cur, ignored, code, used, toWorker, async, polling, challenges, armedAt, sent, inbox, coord>>
  BY Zenon DEF OtpTriggered, Emit, Triggered, PyStep, phone, engine
<1>1. Flight /\ Phases /\ Types
  BY DEF Inv, Flight
<1>2. /\ cur \in Challenge /\ cur \notin ignored /\ challenges[cur] = "armed" /\ ~In(f, toEngine)
      /\ ~In(Ready(cur), toWorker) /\ \A k \in 1 .. Len(used) : used[k] <= armedAt[cur]
  BY Zenon, <1>0, <1>1 DEF Phases, Signing, Stopped
<1>3. /\ f \in ToEngine /\ f[1] = "otp.triggered" /\ f[2] = cur /\ f[1] \notin Ends
      /\ f # AskCredentials /\ f # Question
      /\ \A c \in Challenge : f # Prepare(c) /\ (f = Triggered(c) => c = cur)
  BY Zenon, <1>2 DEF ToEngine, Reports, AskCredentials, Question, Ends, Prepare, Triggered
<1> HIDE DEF f
<1>4. toWorker \in Seq(ToWorker) /\ Suffix(toWorker, toWorker)
  BY <1>1, Suffixes DEF Types
<1>5. Numbers' /\ Increasing' /\ Armed'
  BY Zenon, <1>0, <1>1 DEF Flight, Numbers, Increasing, Armed, Ready
<1>6. cur <= cur' /\ f[2] <= cur' /\ ignored' \subseteq Challenge /\ cur' \in 0 .. MaxChallenges
      /\ code' \in Nat /\ used' \in Seq(Nat) /\ py' \in Stopped \cup Signing \cup Between
  BY <1>0, <1>1, <1>2, <1>3 DEF Types, Signing
<1>7. \A c \in Challenge : f = Triggered(c) =>
        /\ ~In(Triggered(c), toEngine) /\ ~In(Ready(c), toWorker)
        /\ challenges[c] = "armed" /\ c \notin ignored'
  BY Zenon, <1>0, <1>2, <1>3
<1>8. Flight'
  BY Zenon, <1>0, <1>1, <1>3, <1>4, <1>5, <1>6, <1>7, FlightEmits
<1>9. \A g : In(g, toEngine') => In(g, toEngine) \/ g = f
  BY Zenon, <1>0, <1>1, <1>3, AppendFrames DEF Types
<1>10. Phases'
  BY Zenon, <1>0, <1>1, <1>2, <1>3, <1>9
  DEF Phases, Stopped, Signing, Between, AskCredentials, Credentials, Question, Answer, Prepare, Ready
<1> QED
  BY <1>8, <1>10 DEF Inv

\* Python gives its challenge up or submits the code, and ignores the challenge from
\* then on.  A code it submits is newer than all the earlier ones.
LEMMA EndSteps ==
  ASSUME Inv, NEW type \in Ends, NEW next \in {"failed", "auth"}, EndChallenge(type, next),
         py \in Signing, toWorker' \in Seq(ToWorker), Suffix(toWorker', toWorker),
         UNCHANGED <<async, polling, challenges, armedAt, sent, inbox, coord>>, code' \in Nat,
         used' = used \/ (py = "filling" /\ used' = Append(used, code))
  PROVE  Inv'
<1> DEFINE f == <<type, cur>>
<1>0. toEngine' = Append(toEngine, f) /\ ignored' = ignored \cup {cur} /\ py' = next /\ cur' = cur
  BY Zenon DEF EndChallenge, Emit
<1>1. Flight /\ Phases /\ Types
  BY Zenon DEF Inv, Flight
<1>2. cur \in Challenge /\ cur \notin ignored /\ cur \in Nat /\ cur \in 0 .. MaxChallenges
  BY <1>1 DEF Phases, Types, Challenge
<1>3. /\ f \in ToEngine /\ f[1] \in Ends /\ f[2] = cur
      /\ f # AskCredentials /\ f # Question
      /\ \A c \in Challenge : f # Prepare(c) /\ f # Triggered(c)
  BY Zenon, <1>2 DEF ToEngine, Reports, AskCredentials, Question, Ends, Prepare, Triggered
<1> HIDE DEF f
<1>4. /\ \A g : In(g, toWorker') => In(g, toWorker)
      /\ \A g : In(g, toEngine') => In(g, toEngine) \/ g = f
  BY ZenonT(30), <1>0, <1>1, <1>3, SuffixFrames, AppendFrames DEF Types
<1>5. \A c \in Challenge \ ignored' : ~In(Prepare(c), toEngine') /\ ~In(Ready(c), toWorker')
  <2> SUFFICES ASSUME NEW c \in Challenge \ ignored', In(Prepare(c), toEngine') \/ In(Ready(c), toWorker')
               PROVE  FALSE
    BY Zenon
  <2>1. In(Prepare(c), toEngine) \/ In(Ready(c), toWorker)
    BY Zenon, <1>3, <1>4
  <2> QED
    BY Zenon, <1>0, <1>1, <2>1, Present
<1>6. Numbers'
  BY SMTT(30), <1>0, <1>1, <1>2 DEF Flight, Numbers, Challenge
<1>7. Armed'
  BY Zenon, <1>5 DEF Armed, Ready
<1>8. used' \in Seq(Nat) /\ Increasing'
  <2>1. CASE used' = used
    BY Zenon, <1>1, <2>1 DEF Flight, Types, Increasing
  <2>2. CASE py = "filling" /\ used' = Append(used, code)
    <3>1. /\ used \in Seq(Nat) /\ Len(used) \in Nat /\ code \in Nat /\ armedAt[cur] \in Nat /\ Len(inbox) \in Nat
          /\ used' \in Seq(Nat) /\ Len(used') = Len(used) + 1
      BY <1>1, <1>2, <2>2 DEF Types
    <3>2. /\ armedAt[cur] < code /\ code <= Len(inbox)
          /\ \A k \in 1 .. Len(used) : used[k] <= armedAt[cur]
      BY Zenon, <1>1, <2>2 DEF Phases, Fits, Signing
    <3>3. ASSUME NEW k \in 1 .. Len(used) PROVE used[k] \in Nat /\ used[k] < code
      <4>1. used[k] \in Nat /\ used[k] <= armedAt[cur]
        BY Zenon, <3>1, <3>2, Elements
      <4> QED
        BY Zenon, <3>1, <3>2, <4>1, Beneath
    <3>4. \A k \in 1 .. Len(used') : \/ k \in 1 .. Len(used) /\ used'[k] = used[k]
                                     \/ k = Len(used) + 1 /\ used'[k] = code
      BY <2>2, <3>1, AppendFrames
    <3>5. \A k \in 1 .. Len(used') : used'[k] <= Len(inbox')
      BY Zenon, <1>1, <3>2, <3>4 DEF Flight, Increasing
    <3>6. \A k, m \in 1 .. Len(used') : k < m => used'[k] < used'[m]
      <4> SUFFICES ASSUME NEW k \in 1 .. Len(used'), NEW m \in 1 .. Len(used'), k < m
                   PROVE  used'[k] < used'[m]
        BY Zenon
      <4>1. k \in 1 .. Len(used) /\ used'[k] = used[k]
        <5>1. k # Len(used) + 1
          BY <3>1
        <5> QED
          BY Zenon, <3>4, <5>1
      <4>2. CASE m \in 1 .. Len(used) /\ used'[m] = used[m]
        BY Zenon, <1>1, <4>1, <4>2 DEF Flight, Increasing
      <4>3. CASE used'[m] = code
        BY Zenon, <3>3, <4>1, <4>3
      <4> QED
        BY Zenon, <3>4, <4>2, <4>3
    <3> QED
      BY Zenon, <3>1, <3>5, <3>6 DEF Increasing
  <2> QED
    BY Zenon, <2>1, <2>2
<1>9. /\ cur <= cur' /\ f[2] <= cur' /\ cur' \in 0 .. MaxChallenges /\ ignored \subseteq ignored'
      /\ ignored' \subseteq Challenge /\ py' \in Stopped \cup Signing \cup Between /\ f[2] \in ignored'
  BY SMTT(30), <1>0, <1>1, <1>2, <1>3 DEF Types, Stopped, Between
<1>10. Flight'
  BY Zenon, <1>0, <1>1, <1>3, <1>6, <1>7, <1>8, <1>9, FlightEmits
<1>11. Phases'
  BY Zenon, <1>0, <1>1, <1>3, <1>4, <1>5
  DEF Phases, Stopped, Signing, Between, AskCredentials, Credentials, Question, Answer, Prepare, Ready
<1> QED
  BY Zenon, <1>10, <1>11 DEF Inv

\* The click: a code may be on its way from then on, for a challenge that is armed.
LEMMA ClickSteps ==
  ASSUME Inv, Click
  PROVE  Inv'
<1>0. /\ py = "armed" /\ py' = "clicked" /\ sent' \in {sent, sent \cup {cur}}
      /\ UNCHANGED <<cur, ignored, code, used, inbox, async, polling, challenges, armedAt, toEngine, toWorker, coord>>
  BY Zenon DEF Click, engine
<1>1. Flight /\ Phases /\ Types
  BY DEF Inv, Flight
<1>2. cur \in Challenge /\ challenges[cur] = "armed" /\ cur \in Nat
  BY <1>0, <1>1 DEF Phases, Signing, Types
<1>3. \A c : c # cur => (Unsent(c)' <=> Unsent(c))
  BY Zenon, <1>0 DEF Unsent
<1>4. \A c : Quiet(c)' <=> Quiet(c)
  BY Zenon, <1>0 DEF Quiet
<1>5. Types' /\ Numbers'
  BY Zenon, <1>0, <1>1, <1>2 DEF Types, Numbers, Flight, Signing
<1>6. Known'
  <2>1. \A c \in Challenge : c > cur => c # cur
    BY <1>2 DEF Challenge
  <2> QED
    BY Zenon, <1>0, <1>1, <1>3, <1>4, <2>1 DEF Flight, Known
<1>7. Prepared'
  <2>1. ~In(Prepare(cur), toEngine)
    BY Zenon, <1>1, <1>2 DEF Flight, Prepared
  <2>2. \A c \in Challenge : Alone(Prepare(c), Ready(c))'
    BY Zenon, <1>0, <1>1 DEF Flight, Prepared, Alone, Prepare, Ready
  <2>3. \A c \in Challenge : In(Prepare(c), toEngine) => challenges[c] = "none" /\ Quiet(c)' /\ Unsent(c)'
    BY Zenon, <1>1, <1>3, <1>4, <2>1 DEF Flight, Prepared
  <2> QED
    BY Zenon, <1>0, <2>2, <2>3 DEF Prepared, Prepare
<1>8. Alone(AskCredentials, Credentials)' /\ Alone(Question, Answer)' /\ Armed' /\ Ended' /\ Triggers'
  BY ZenonT(30), <1>0, <1>1
  DEF Flight, Alone, Armed, Ended, Triggers, AskCredentials, Credentials, Question, Answer, Ready, Triggered, Ends
<1>9. Cursors' /\ Increasing'
  BY ZenonT(30), <1>0, <1>1 DEF Flight, Cursors, Fits, Increasing
<1>10. Phases'
  BY Zenon, <1>0, <1>1, <1>4
  DEF Phases, Stopped, Signing, Between, AskCredentials, Credentials, Question, Answer, Prepare, Ready, Triggered
<1> QED
  BY Zenon, <1>5, <1>6, <1>7, <1>8, <1>9, <1>10 DEF Inv, Flight

-----------------------------------------------------------------------------
(***************************************************************************)
(* The phone and the provider.                                             *)
(***************************************************************************)
\* A message arrives: it is behind every cursor.
LEMMA DeliverSteps ==
  ASSUME Inv, NEW c \in Challenge, DeliverCode(c)
  PROVE  Inv'
<1>0. /\ c \in sent /\ sent' = sent \ {c} /\ inbox' = Append(inbox, c)
      /\ UNCHANGED <<py, cur, ignored, code, used, async, polling, challenges, armedAt, toEngine, toWorker, coord>>
  BY Zenon DEF DeliverCode, python, engine
<1>1. Flight /\ Phases /\ Types
  BY Zenon DEF Inv, Flight
<1>2. /\ inbox' \in Seq(Challenge) /\ Len(inbox') = Len(inbox) + 1 /\ Len(inbox) \in Nat
      /\ \A i \in 1 .. Len(inbox') : \/ i \in 1 .. Len(inbox) /\ inbox'[i] = inbox[i]
                                     \/ i = Len(inbox) + 1 /\ inbox'[i] = c
  <2>1. inbox' \in Seq(Challenge) /\ Added(inbox', inbox, c)
    BY Zenon, <1>0, <1>1, AppendAdded DEF Types
  <2> QED
    BY Zenon, <2>1 DEF Added
<1>3. \A d : Unsent(d) => Unsent(d)'
  BY Zenon, <1>0, <1>2 DEF Unsent
<1>4. \A d : Quiet(d)' <=> Quiet(d)
  BY Zenon, <1>0 DEF Quiet
<1>5. ASSUME NEW d \in Challenge, NEW i \in Nat, Fits(d, i)
      PROVE  Fits(d, i)'
  <2>1. armedAt'[d] < i /\ i <= Len(inbox)
    BY Zenon, <1>0, <1>5 DEF Fits
  <2>2. i <= Len(inbox')
    BY SMTT(60), <1>2, <2>1
  <2> QED
    BY Zenon, <2>1, <2>2 DEF Fits
<1>6. Types' /\ Numbers'
  BY Zenon, <1>0, <1>1, <1>2 DEF Types, Numbers, Flight
<1>7. Known'
  BY Zenon, <1>0, <1>1, <1>3, <1>4 DEF Flight, Known
<1>8. Prepared'
  <2>1. \A d \in Challenge : Alone(Prepare(d), Ready(d))'
    BY Zenon, <1>0, <1>1 DEF Flight, Prepared, Alone, Prepare, Ready
  <2>2. \A d \in Challenge : In(Prepare(d), toEngine) => challenges[d] = "none" /\ Quiet(d)' /\ Unsent(d)'
    BY Zenon, <1>1, <1>3, <1>4 DEF Flight, Prepared
  <2> QED
    BY Zenon, <1>0, <2>1, <2>2 DEF Prepared, Prepare
<1>9. Alone(AskCredentials, Credentials)' /\ Alone(Question, Answer)' /\ Armed' /\ Ended' /\ Triggers'
  BY Zenon, <1>0, <1>1
  DEF Flight, Alone, Armed, Ended, Triggers, AskCredentials, Credentials, Question, Answer, Ready, Triggered, Ends
<1>10. Cursors'
  <2>1. ASSUME NEW d \in Challenge
        PROVE  /\ armedAt'[d] <= Len(inbox')
               /\ \A i \in 1 .. Len(inbox') : inbox'[i] = d => armedAt'[d] < i
    <3>1. armedAt'[d] = armedAt[d] /\ armedAt[d] \in Nat /\ armedAt[d] <= Len(inbox)
      BY Zenon, <1>0, <1>1 DEF Flight, Cursors, Types
    <3>2. armedAt[d] <= Len(inbox) + 1 /\ armedAt[d] < Len(inbox) + 1
      BY SMTT(30), <1>2, <3>1
    <3>3. \A i \in 1 .. Len(inbox) : inbox[i] = d => armedAt[d] < i
      BY Zenon, <1>1 DEF Flight, Cursors
    <3> QED
      BY Zenon, <1>2, <3>1, <3>2, <3>3
  <2>2. ASSUME NEW i \in 1 .. Len(async), async[i][1] = "code"
        PROVE  Fits(async[i][2], async[i][3])'
    <3>1. async[i][2] \in Challenge /\ async[i][3] \in Nat
      BY SMTT(30), <1>1, FrameForms DEF Types
    <3>2. Fits(async[i][2], async[i][3])
      BY Zenon, <1>1, <2>2 DEF Flight, Cursors
    <3> QED
      BY Zenon, <1>0, <1>5, <3>1, <3>2 DEF Fits
  <2>3. ASSUME NEW i \in 1 .. Len(toWorker), toWorker[i][1] = "otp.provide"
        PROVE  Fits(toWorker[i][2], toWorker[i][3])'
    <3>1. toWorker[i][2] \in Challenge /\ toWorker[i][3] \in Nat
      BY SMTT(30), <1>1, <2>3, FrameForms DEF Types
    <3>2. Fits(toWorker[i][2], toWorker[i][3])
      BY Zenon, <1>1, <2>3 DEF Flight, Cursors
    <3> QED
      BY Zenon, <1>0, <1>5, <3>1, <3>2 DEF Fits
  <2> QED
    BY ZenonT(30), <1>0, <2>1, <2>2, <2>3 DEF Cursors, Fits
<1>11. Increasing'
  <2>1. \A k \in 1 .. Len(used) : used[k] \in Nat /\ used[k] <= Len(inbox)
    BY <1>1 DEF Flight, Types, Increasing
  <2>2. \A k \in 1 .. Len(used) : used[k] <= Len(inbox')
    BY SMTT(30), <1>2, <2>1
  <2> QED
    BY Zenon, <1>0, <1>1, <2>2 DEF Flight, Increasing
<1>12. py = "filling" => Fits(cur, code)'
  BY Zenon, <1>0, <1>1, <1>5 DEF Phases, Signing, Types, Fits
<1>13. Phases'
  BY Zenon, <1>0, <1>1, <1>4, <1>12
  DEF Phases, AskCredentials, Credentials, Question, Answer, Prepare, Ready, Triggered, Quiet, Fits
<1> QED
  BY ZenonT(30), <1>6, <1>7, <1>8, <1>9, <1>10, <1>11, <1>13 DEF Inv, Flight

\* WaitForCode ends: with a message past the cursor, an error, or nothing.
LEMMA WaitSteps ==
  ASSUME Inv, NEW c \in Challenge, WaitForCode(c)
  PROVE  Inv'
<1>0. /\ c \in polling /\ polling' = polling \ {c}
      /\ UNCHANGED <<py, cur, ignored, code, used, inbox, sent, challenges, armedAt, toEngine, toWorker, coord>>
  BY Zenon DEF WaitForCode, python, phone
<1>1. Flight /\ Phases /\ Types
  BY DEF Inv, Flight
<1>2. CASE UNCHANGED async
  <2>1. Shrinking
    BY Zenon, <1>0, <1>1, <1>2, Suffixes DEF Shrinking, Types
  <2> QED
    BY ZenonT(30), <1>0, <1>1, <2>1, Shrinks DEF Types
<1>3. ASSUME NEW r \in Results, async' = Append(async, r), r[2] = c, r[1] = "code" => Fits(c, r[3])
      PROVE  Inv'
  <2>1. /\ async' \in Seq(Results) /\ Len(async') = Len(async) + 1 /\ Len(async) \in Nat
        /\ \A i \in 1 .. Len(async') : \/ i \in 1 .. Len(async) /\ async'[i] = async[i]
                                       \/ i = Len(async) + 1 /\ async'[i] = r
    <3>1. async' \in Seq(Results) /\ Added(async', async, r)
      BY Zenon, <1>1, <1>3, AppendAdded DEF Types
    <3> QED
      BY Zenon, <3>1 DEF Added
  <2>2. ASSUME NEW d, Quiet(d) PROVE Quiet(d)'
    <3>1. d # c /\ d \notin polling'
      BY Zenon, <1>0, <2>2 DEF Quiet
    <3>2. \A i \in 1 .. Len(async') : async'[i][2] # d
      BY Zenon, <1>3, <2>1, <2>2, <3>1 DEF Quiet
    <3> QED
      BY Zenon, <1>0, <2>2, <3>1, <3>2 DEF Quiet
  <2>3. \A d : Unsent(d)' <=> Unsent(d)
    BY Zenon, <1>0 DEF Unsent
  <2>4. Types' /\ Numbers' /\ Increasing'
    BY ZenonT(30), <1>0, <1>1, <2>1 DEF Types, Numbers, Increasing, Flight
  <2>5. Known'
    BY Zenon, <1>0, <1>1, <2>2, <2>3 DEF Flight, Known
  <2>6. Prepared'
    <3>1. \A d \in Challenge : Alone(Prepare(d), Ready(d))'
      BY Zenon, <1>0, <1>1 DEF Flight, Prepared, Alone, Prepare, Ready
    <3>2. \A d \in Challenge : In(Prepare(d), toEngine) => challenges[d] = "none" /\ Quiet(d)' /\ Unsent(d)'
      BY ZenonT(30), <1>1, <2>2, <2>3 DEF Flight, Prepared
    <3> QED
      BY ZenonT(30), <1>0, <3>1, <3>2 DEF Prepared, Prepare
  <2>7. Alone(AskCredentials, Credentials)' /\ Alone(Question, Answer)' /\ Armed' /\ Ended' /\ Triggers'
    BY ZenonT(30), <1>0, <1>1
    DEF Flight, Alone, Armed, Ended, Triggers, AskCredentials, Credentials, Question, Answer, Ready, Triggered, Ends
  <2>8. Cursors'
    <3>1. \A i \in 1 .. Len(async') : async'[i][1] = "code" => Fits(async'[i][2], async'[i][3])
      BY Zenon, <1>1, <1>3, <2>1 DEF Flight, Cursors
    <3> QED
      BY ZenonT(30), <1>0, <1>1, <3>1 DEF Flight, Cursors, Fits
  <2>9. Phases'
    BY Zenon, <1>0, <1>1, <2>2
    DEF Phases, AskCredentials, Credentials, Question, Answer, Prepare, Ready, Triggered, Fits
  <2> QED
    BY ZenonT(30), <2>4, <2>5, <2>6, <2>7, <2>8, <2>9 DEF Inv, Flight
<1>4. CASE \E i \in DOMAIN inbox : i > armedAt[c] /\ Result("code", c, i)
  <2>1. PICK i \in DOMAIN inbox : i > armedAt[c] /\ async' = Append(async, <<"code", c, i>>)
    BY Zenon, <1>4 DEF Result
  <2>2. i \in Nat /\ i <= Len(inbox) /\ armedAt[c] \in Nat
    BY SMTT(30), <1>1 DEF Types
  <2>3. <<"code", c, i>> \in Results /\ Fits(c, i)
    BY Zenon, <2>1, <2>2 DEF Results, Fits
  <2> QED
    BY Zenon, <1>3, <2>1, <2>3
<1>5. CASE \E kind \in {"otp.error", "otp.expired"} : Result(kind, c, 0)
  <2>1. PICK kind \in {"otp.error", "otp.expired"} : async' = Append(async, <<kind, c, 0>>)
    BY Zenon, <1>5 DEF Result
  <2>2. <<kind, c, 0>> \in Results
    BY Zenon DEF Results
  <2> QED
    BY Zenon, <1>3, <2>1, <2>2
<1> QED
  BY Zenon, <1>2, <1>4, <1>5 DEF WaitForCode

-----------------------------------------------------------------------------
(***************************************************************************)
(* The coordinator.                                                        *)
(***************************************************************************)
\* Sending a frame f that arms nothing (Send): a code only for a challenge whose wait
\* was under way, and an answer only to the question it answers.
LEMMA Sends ==
  ASSUME Inv, NEW f \in ToWorker, toWorker' = Append(toWorker, f), f[1] # "otp.ready", f[2] <= cur,
         toEngine' \in Seq(ToEngine), Suffix(toEngine', toEngine),
         async' \in Seq(Results), Suffix(async', async),
         UNCHANGED <<py, cur, ignored, code, used, polling, challenges, armedAt, sent, inbox>>,
         coord' \in {"run", "returned"},
         f[1] = "otp.provide" => Fits(f[2], f[3]) /\ ~Quiet(f[2]),
         f = Credentials => In(AskCredentials, toEngine) /\ ~In(AskCredentials, toEngine'),
         f = Answer => In(Question, toEngine) /\ ~In(Question, toEngine')
  PROVE  Inv'
<1>0. Flight /\ Phases /\ Types
  BY ZenonT(30) DEF Inv, Flight
<1>a. toEngine \in Seq(ToEngine) /\ toWorker \in Seq(ToWorker) /\ async \in Seq(Results)
  BY Zenon, <1>0 DEF Types
<1>b. /\ toWorker' \in Seq(ToWorker) /\ Added(toWorker', toWorker, f)
      /\ Kept(toEngine', toEngine) /\ Kept(async', async)
  BY Zenon, <1>a, AppendAdded, SuffixKept
<1>1. /\ toWorker' \in Seq(ToWorker) /\ Len(toWorker') = Len(toWorker) + 1 /\ Len(toWorker) \in Nat
      /\ \A i \in 1 .. Len(toWorker') : \/ i \in 1 .. Len(toWorker) /\ toWorker'[i] = toWorker[i]
                                        \/ i = Len(toWorker) + 1 /\ toWorker'[i] = f
      /\ \A g : In(g, toWorker') => In(g, toWorker) \/ g = f
      /\ \A g : Once(g, toWorker) /\ (g = f => ~In(g, toWorker)) => Once(g, toWorker')
  BY Zenon, <1>b DEF Added
<1>2. /\ \A i \in 1 .. Len(toEngine') : \E k \in 1 .. Len(toEngine) : toEngine'[i] = toEngine[k]
      /\ \A i, j \in 1 .. Len(toEngine') : \E k, m \in 1 .. Len(toEngine) :
           toEngine'[i] = toEngine[k] /\ toEngine'[j] = toEngine[m] /\ (k < m => i < j)
      /\ \A g : In(g, toEngine') => In(g, toEngine)
      /\ \A g : Once(g, toEngine) => Once(g, toEngine')
  BY Zenon, <1>b DEF Kept
<1>3. \A i \in 1 .. Len(async') : \E k \in 1 .. Len(async) : async'[i] = async[k]
  BY Zenon, <1>b DEF Kept
<1>4. ASSUME NEW c, Quiet(c) PROVE Quiet(c)'
  <2>1. \A i \in 1 .. Len(async') : async'[i][2] # c
    BY ZenonT(30), <1>3, <1>4 DEF Quiet
  <2>2. ~(f[1] = "otp.provide" /\ f[2] = c)
    BY Zenon, <1>4
  <2>3. \A i \in 1 .. Len(toWorker') : ~(toWorker'[i][1] = "otp.provide" /\ toWorker'[i][2] = c)
    BY ZenonT(30), <1>1, <1>4, <2>2 DEF Quiet
  <2> QED
    BY Zenon, <1>4, <2>1, <2>3 DEF Quiet
<1>5. \A c : Unsent(c)' <=> Unsent(c)
  BY ZenonT(30) DEF Unsent
<1>6. \A c : f # Ready(c)
  BY SMTT(30) DEF Ready
<1>7. Types' /\ Numbers' /\ Increasing'
  BY ZenonT(30), <1>0, <1>1 DEF Types, Numbers, Increasing, Flight
<1>8. Known'
  BY ZenonT(30), <1>0, <1>1, <1>2, <1>4, <1>5 DEF Flight, Known
<1>9. Alone(AskCredentials, Credentials)' /\ Alone(Question, Answer)'
  BY ZenonT(30), <1>0, <1>1, <1>2 DEF Flight, Alone, AskCredentials, Credentials, Question, Answer
<1>10. Prepared'
  <2>1. \A c \in Challenge : Alone(Prepare(c), Ready(c))'
    BY ZenonT(30), <1>0, <1>1, <1>2, <1>6 DEF Flight, Prepared, Alone, Prepare, Ready
  <2>2. \A c \in Challenge : In(Prepare(c), toEngine') => challenges[c] = "none" /\ Quiet(c)' /\ Unsent(c)'
    BY ZenonT(30), <1>0, <1>2, <1>4, <1>5 DEF Flight, Prepared
  <2> QED
    BY ZenonT(30), <2>1, <2>2 DEF Prepared, Prepare
<1>11. Armed'
  BY ZenonT(30), <1>0, <1>1, <1>6 DEF Flight, Armed, Ready
<1>12. Ended'
  <2> SUFFICES ASSUME NEW i \in 1 .. Len(toEngine'), toEngine'[i][1] \in Ends
               PROVE  /\ toEngine'[i][2] \in ignored
                      /\ \A k \in 1 .. Len(toEngine') : toEngine'[k] = Triggered(toEngine'[i][2]) => k < i
    BY Zenon DEF Ended, Triggered, Ends
  <2>1. toEngine'[i][2] \in ignored
    BY ZenonT(30), <1>0, <1>2 DEF Flight, Ended
  <2>2. ASSUME NEW k \in 1 .. Len(toEngine'), toEngine'[k] = Triggered(toEngine'[i][2])
        PROVE  k < i
    <3>1. PICK m, n \in 1 .. Len(toEngine) :
            toEngine'[k] = toEngine[m] /\ toEngine'[i] = toEngine[n] /\ (m < n => k < i)
      BY ZenonT(30), <1>2
    <3> QED
      BY ZenonT(30), <1>0, <2>2, <3>1 DEF Flight, Ended
  <2> QED
    BY ZenonT(30), <2>1, <2>2
<1>13. Triggers'
  BY Zenon, <1>0, <1>1, <1>2, <1>6 DEF Flight, Triggers, Triggered, Ready
<1>14. Cursors'
  <2>1. \A i \in 1 .. Len(async') : async'[i][1] = "code" => Fits(async'[i][2], async'[i][3])
    BY ZenonT(30), <1>0, <1>3 DEF Flight, Cursors
  <2>2. \A i \in 1 .. Len(toWorker') : toWorker'[i][1] = "otp.provide" => Fits(toWorker'[i][2], toWorker'[i][3])
    BY ZenonT(30), <1>0, <1>1 DEF Flight, Cursors
  <2> QED
    BY ZenonT(30), <1>0, <2>1, <2>2 DEF Flight, Cursors, Fits
<1>15. Phases'
  BY Zenon, <1>0, <1>1, <1>2, <1>4, <1>6
  DEF Phases, AskCredentials, Credentials, Question, Answer, Prepare, Ready, Triggered, Fits
<1> QED
  BY ZenonT(30), <1>7, <1>8, <1>9, <1>10, <1>11, <1>12, <1>13, <1>14, <1>15 DEF Inv, Flight

\* Python's question is answered, or the coordinator finds that Python is gone.
LEMMA AnswerSteps ==
  ASSUME Inv, HandleCredentials \/ HandleQuestion
  PROVE  Inv'
<1>0. Flight /\ Types
  BY Zenon DEF Inv, Flight
<1>1. PICK f \in {Credentials, Answer} :
        /\ f = Credentials => Head(toEngine)[1] = "credentials.request"
        /\ f = Answer => Head(toEngine)[1] = "question"
        /\ toEngine # <<>> /\ toEngine' = Tail(toEngine) /\ coord = "run"
        /\ UNCHANGED <<py, cur, ignored, code, used, async, polling, challenges, armedAt, sent, inbox>>
        /\ \/ toWorker' = Append(toWorker, f) /\ coord' = coord
           \/ toWorker' = toWorker /\ coord' = "returned"
  <2>1. Credentials # Answer
    BY Zenon DEF Credentials, Answer
  <2> QED
    BY Zenon, <2>1
    DEF HandleCredentials, HandleQuestion, Handle, SendOrFail, Send, Return, Credentials, Answer, python, phone
<1>2. Head(toEngine) \in ToEngine /\ In(Head(toEngine), toEngine)
      /\ (Once(Head(toEngine), toEngine) => ~In(Head(toEngine), toEngine'))
  BY Zenon, <1>0, <1>1, HeadFrames DEF Types
<1>3. /\ toEngine' \in Seq(ToEngine) /\ Suffix(toEngine', toEngine)
      /\ toWorker \in Seq(ToWorker) /\ Suffix(toWorker, toWorker)
      /\ async \in Seq(Results) /\ Suffix(async, async)
  BY Zenon, <1>0, <1>1, Suffixes DEF Types
<1>4. CASE toWorker' = toWorker /\ coord' = "returned"
  BY ZenonT(30), <1>0, <1>1, <1>3, <1>4, Shrinks DEF Shrinking, Types
<1>5. CASE toWorker' = Append(toWorker, f) /\ coord' = coord
  <2>1. f = Credentials => Head(toEngine) = AskCredentials
    BY ZenonT(30), <1>1, <1>2, FrameForms
  <2>2. f = Answer => Head(toEngine) = Question
    BY Zenon, <1>1, <1>2, FrameForms
  <2>3. f = Credentials => In(AskCredentials, toEngine) /\ ~In(AskCredentials, toEngine')
    BY Zenon, <1>0, <1>2, <2>1 DEF Flight, Alone
  <2>4. f = Answer => In(Question, toEngine) /\ ~In(Question, toEngine')
    BY Zenon, <1>0, <1>2, <2>2 DEF Flight, Alone
  <2>5. f \in ToWorker /\ f[1] # "otp.ready" /\ f[1] # "otp.provide" /\ f[2] <= cur
    BY <1>0 DEF ToWorker, Answers, Credentials, Answer, Types
  <2> QED
    BY ZenonT(30), <1>1, <1>3, <1>5, <2>3, <2>4, <2>5, Sends
<1> QED
  BY Zenon, <1>1, <1>4, <1>5

\* The provider is armed for a challenge of which nothing was heard, at the end of the
\* inbox; or it cannot be armed.
LEMMA ArmSteps ==
  ASSUME Inv, HandlePrepare
  PROVE  Inv'
<1> DEFINE c == Head(toEngine)[2]
<1>0. Flight /\ Phases /\ Types
  BY DEF Inv, Flight
<1>1. /\ coord = "run" /\ toEngine # <<>> /\ Head(toEngine)[1] = "otp.prepare" /\ toEngine' = Tail(toEngine)
      /\ UNCHANGED <<py, cur, ignored, code, used, async, polling, sent, inbox>>
  BY Zenon DEF HandlePrepare, Handle, python, phone
<1>2. Head(toEngine) \in ToEngine /\ In(Head(toEngine), toEngine)
      /\ (Once(Head(toEngine), toEngine) => ~In(Head(toEngine), toEngine'))
  BY Zenon, <1>0, <1>1, HeadFrames DEF Types
<1>3. c \in Challenge /\ In(Prepare(c), toEngine)
  BY Zenon, <1>1, <1>2, FrameForms
<1>4. challenges[c] = "none" /\ Quiet(c) /\ Unsent(c) /\ ~In(Ready(c), toWorker) /\ ~In(Prepare(c), toEngine')
  BY Zenon, <1>0, <1>1, <1>2, <1>3, FrameForms DEF Flight, Prepared, Alone
<1>5. c <= cur /\ (c \notin ignored => c = cur)
  BY Zenon, <1>0, <1>3, Present
<1>6. /\ toEngine' \in Seq(ToEngine) /\ Suffix(toEngine', toEngine)
      /\ toWorker \in Seq(ToWorker) /\ Suffix(toWorker, toWorker)
      /\ async \in Seq(Results) /\ Suffix(async, async)
  BY ZenonT(30), <1>0, <1>1, Suffixes DEF Types
<1>7. \/ /\ challenges' = [challenges EXCEPT ![c] = "armed"] /\ armedAt' = [armedAt EXCEPT ![c] = Len(inbox)]
         /\ \/ toWorker' = Append(toWorker, Ready(c)) /\ coord' = coord
            \/ toWorker' = toWorker /\ coord' = "returned"
      \/ toWorker' = Append(toWorker, <<"otp.error", c, 0>>) /\ UNCHANGED <<challenges, armedAt, coord>>
  BY Zenon, <1>4 DEF HandlePrepare, ArmAt, SendOrFail, Send, Return, Ready
<1> HIDE DEF c
<1>8. CASE toWorker' = Append(toWorker, <<"otp.error", c, 0>>) /\ UNCHANGED <<challenges, armedAt, coord>>
  <2> DEFINE f == <<"otp.error", c, 0>>
  <2>1. /\ f \in ToWorker /\ f[1] # "otp.ready" /\ f[1] # "otp.provide" /\ f[2] <= cur
        /\ f # Credentials /\ f # Answer
    BY Zenon, <1>3, <1>5 DEF ToWorker, Replies, Credentials, Answer
  <2> HIDE DEF f
  <2>2. toWorker' = Append(toWorker, f) /\ coord' \in {"run", "returned"}
    BY Zenon, <1>1, <1>8 DEF f
  <2> QED
    BY ZenonT(30), <1>1, <1>6, <1>8, <2>1, <2>2, Sends
<1>9. ASSUME challenges' = [challenges EXCEPT ![c] = "armed"], armedAt' = [armedAt EXCEPT ![c] = Len(inbox)],
             \/ toWorker' = Append(toWorker, Ready(c)) /\ coord' = coord
             \/ toWorker' = toWorker /\ coord' = "returned"
      PROVE  Inv'
  <2>1. /\ challenges' \in [Challenge -> {"none", "armed", "waiting"}] /\ armedAt' \in [Challenge -> Nat]
        /\ challenges'[c] = "armed" /\ armedAt'[c] = Len(inbox) /\ Len(inbox) \in Nat
        /\ \A d \in Challenge : d # c => challenges'[d] = challenges[d] /\ armedAt'[d] = armedAt[d]
    BY <1>0, <1>3, <1>9 DEF Types
  <2>2. Ready(c) \in ToWorker /\ Ready(c)[1] = "otp.ready" /\ Ready(c)[2] = c
    BY Zenon, <1>3 DEF Ready, ToWorker, Replies
  <2>3. /\ toWorker' \in Seq(ToWorker)
        /\ \A i \in 1 .. Len(toWorker') : \/ i \in 1 .. Len(toWorker) /\ toWorker'[i] = toWorker[i]
                                          \/ toWorker'[i] = Ready(c)
        /\ \A g : In(g, toWorker') => In(g, toWorker) \/ g = Ready(c)
        /\ \A g : Once(g, toWorker) /\ (g = Ready(c) => ~In(g, toWorker)) => Once(g, toWorker')
    <3>1. CASE toWorker' = toWorker
      BY Zenon, <1>6, <3>1
    <3>2. CASE toWorker' = Append(toWorker, Ready(c))
      <4> DEFINE q == Append(toWorker, Ready(c))
      <4>1. /\ q \in Seq(ToWorker)
            /\ \A i \in 1 .. Len(q) : \/ i \in 1 .. Len(toWorker) /\ q[i] = toWorker[i]
                                      \/ i = Len(toWorker) + 1 /\ q[i] = Ready(c)
            /\ \A g : In(g, q) => In(g, toWorker) \/ g = Ready(c)
            /\ \A g : Once(g, toWorker) /\ (g = Ready(c) => ~In(g, toWorker)) => Once(g, q)
        BY Zenon, <1>6, <2>2, AppendFrames
      <4>2. toWorker' = q
        BY Zenon, <3>2
      <4> HIDE DEF q
      <4> QED
        BY Zenon, <4>1, <4>2
    <3> QED
      BY Zenon, <1>9, <3>1, <3>2
  <2>4. /\ \A i \in 1 .. Len(toEngine') : \E k \in 1 .. Len(toEngine) : toEngine'[i] = toEngine[k]
        /\ \A i, j \in 1 .. Len(toEngine') : \E k, m \in 1 .. Len(toEngine) :
             toEngine'[i] = toEngine[k] /\ toEngine'[j] = toEngine[m] /\ (k < m => i < j)
        /\ \A g : In(g, toEngine') => In(g, toEngine)
        /\ \A g : Once(g, toEngine) => Once(g, toEngine')
    <3>1. toEngine \in Seq(ToEngine)
      BY Zenon, <1>0 DEF Types
    <3> QED
      BY Zenon, <1>6, <3>1, SuffixFrames
  <2>5. ASSUME NEW d, Quiet(d) PROVE Quiet(d)'
    <3>1. \A i \in 1 .. Len(toWorker') : ~(toWorker'[i][1] = "otp.provide" /\ toWorker'[i][2] = d)
      BY Zenon, <2>2, <2>3, <2>5 DEF Quiet
    <3> QED
      BY ZenonT(30), <1>1, <2>5, <3>1 DEF Quiet
  <2>6. \A d : Unsent(d)' <=> Unsent(d)
    BY Zenon, <1>1 DEF Unsent
  <2>7. \A d \in Challenge : (Ready(d) = Ready(c) => d = c)
    BY Zenon DEF Ready
  <2>8. Types' /\ Numbers' /\ Increasing'
    <3>1. coord' \in {"run", "returned"}
      BY Zenon, <1>1, <1>9
    <3> QED
      BY Zenon, <1>0, <1>1, <1>6, <2>1, <2>3, <3>1 DEF Types, Numbers, Increasing, Flight
  <2>9. Known'
    <3>1. \A d \in Challenge : d > cur => d # c
      BY SMTT(30), <1>0, <1>3, <1>5 DEF Challenge, Types
    <3>2. \A d \in Challenge : d > cur => challenges'[d] = "none" /\ Quiet(d)' /\ Unsent(d)'
      BY ZenonT(30), <1>0, <2>1, <2>5, <2>6, <3>1 DEF Flight, Known
    <3>3. \A i \in 1 .. Len(toWorker') : toWorker'[i][2] <= cur
      BY ZenonT(30), <1>0, <1>5, <2>2, <2>3 DEF Flight, Known
    <3>4. \A i \in 1 .. Len(toEngine') : toEngine'[i][2] <= cur
      BY Zenon, <1>0, <2>4 DEF Flight, Known
    <3> QED
      BY ZenonT(30), <1>1, <3>2, <3>3, <3>4 DEF Known
  <2>10. Alone(AskCredentials, Credentials)' /\ Alone(Question, Answer)'
    <3>1. Ready(c) # Credentials /\ Ready(c) # Answer
      BY <2>2 DEF Credentials, Answer
    <3> QED
      BY Zenon, <1>0, <2>3, <2>4, <3>1 DEF Flight, Alone, AskCredentials, Credentials, Question, Answer
  <2>11. Prepared'
    <3>1. ASSUME NEW d \in Challenge PROVE Alone(Prepare(d), Ready(d))'
      <4>1. Once(Prepare(d), toEngine') /\ Once(Ready(d), toWorker')
        BY ZenonT(30), <1>0, <1>4, <2>3, <2>4, <2>7 DEF Flight, Prepared, Alone
      <4>2. ~(In(Prepare(d), toEngine') /\ In(Ready(d), toWorker'))
        BY ZenonT(30), <1>0, <1>4, <2>3, <2>4, <2>7 DEF Flight, Prepared, Alone
      <4> QED
        BY Zenon, <4>1, <4>2 DEF Alone, Prepare, Ready
    <3>2. \A d \in Challenge : In(Prepare(d), toEngine') => challenges'[d] = "none" /\ Quiet(d)' /\ Unsent(d)'
      BY ZenonT(30), <1>0, <1>4, <2>1, <2>4, <2>5, <2>6 DEF Flight, Prepared
    <3> QED
      BY Zenon, <3>1, <3>2 DEF Prepared, Prepare
  <2>12. Armed'
    <3> SUFFICES ASSUME NEW d \in Challenge, In(Ready(d), toWorker'), d \notin ignored
                 PROVE  challenges'[d] = "armed" /\ \A k \in 1 .. Len(used) : used[k] <= armedAt'[d]
      BY ZenonT(30), <1>1 DEF Armed, Ready
    <3>1. CASE d = c
      BY ZenonT(30), <1>0, <2>1, <3>1 DEF Flight, Increasing
    <3>2. CASE d # c
      BY Zenon, <1>0, <2>1, <2>3, <2>7, <3>2 DEF Flight, Armed
    <3> QED
      BY Zenon, <3>1, <3>2
  <2>13. Ended'
    <3> SUFFICES ASSUME NEW i \in 1 .. Len(toEngine'), toEngine'[i][1] \in Ends
                 PROVE  /\ toEngine'[i][2] \in ignored
                        /\ \A k \in 1 .. Len(toEngine') : toEngine'[k] = Triggered(toEngine'[i][2]) => k < i
      BY Zenon, <1>1 DEF Ended, Triggered, Ends
    <3>1. toEngine'[i][2] \in ignored
      BY ZenonT(30), <1>0, <2>4 DEF Flight, Ended
    <3>2. ASSUME NEW k \in 1 .. Len(toEngine'), toEngine'[k] = Triggered(toEngine'[i][2])
          PROVE  k < i
      <4>1. PICK m, n \in 1 .. Len(toEngine) :
              toEngine'[k] = toEngine[m] /\ toEngine'[i] = toEngine[n] /\ (m < n => k < i)
        BY ZenonT(30), <2>4
      <4> QED
        BY Zenon, <1>0, <3>2, <4>1 DEF Flight, Ended
    <3> QED
      BY ZenonT(30), <3>1, <3>2
  <2>14. Triggers'
    <3>1. ~In(Triggered(c), toEngine)
      BY Zenon, <1>0, <1>3, <1>4 DEF Flight, Triggers
    <3>2. ASSUME NEW d \in Challenge
          PROVE  /\ Once(Triggered(d), toEngine')
                 /\ In(Triggered(d), toEngine') => challenges'[d] = "armed" /\ ~In(Ready(d), toWorker')
      BY Zenon, <1>0, <2>1, <2>3, <2>4, <2>7, <3>1 DEF Flight, Triggers
    <3> QED
      BY Zenon, <3>2 DEF Triggers, Triggered, Ready
  <2>15. Cursors'
    <3>1. ASSUME NEW d \in Challenge
          PROVE  /\ armedAt'[d] <= Len(inbox)
                 /\ \A i \in 1 .. Len(inbox) : inbox[i] = d => armedAt'[d] < i
      <4>1. CASE d = c
        BY <1>4, <2>1, <4>1 DEF Unsent
      <4>2. CASE d # c
        BY Zenon, <1>0, <2>1, <4>2 DEF Flight, Cursors
      <4> QED
        BY Zenon, <4>1, <4>2
    <3>2. ASSUME NEW i \in 1 .. Len(async), async[i][1] = "code"
          PROVE  armedAt'[async[i][2]] < async[i][3] /\ async[i][3] <= Len(inbox)
      <4>1. async[i] \in Results /\ async[i][2] # c
        BY <1>4, <1>6 DEF Quiet
      <4>2. async[i][2] \in Challenge
        BY Zenon, <4>1, FrameForms
      <4> QED
        BY Zenon, <1>0, <2>1, <3>2, <4>1, <4>2 DEF Flight, Cursors, Fits
    <3>3. ASSUME NEW i \in 1 .. Len(toWorker'), toWorker'[i][1] = "otp.provide"
          PROVE  armedAt'[toWorker'[i][2]] < toWorker'[i][3] /\ toWorker'[i][3] <= Len(inbox)
      <4>1. i \in 1 .. Len(toWorker) /\ toWorker'[i] = toWorker[i]
        BY Zenon, <2>2, <2>3, <3>3
      <4>2. toWorker[i] \in ToWorker /\ toWorker[i][1] = "otp.provide" /\ toWorker[i][2] # c
        BY <1>4, <1>6, <3>3, <4>1 DEF Quiet
      <4>3. toWorker[i][2] \in Challenge
        BY Zenon, <4>2, FrameForms
      <4> QED
        BY ZenonT(30), <1>0, <2>1, <3>3, <4>1, <4>2, <4>3 DEF Flight, Cursors, Fits
    <3> QED
      BY ZenonT(30), <1>1, <3>1, <3>2, <3>3 DEF Cursors, Fits
  <2>16. Phases'
    <3>1. cur = c => py \in Stopped \cup {"arming"} \cup Between
      BY Zenon, <1>0, <1>3 DEF Phases, Types
    <3>2. py \in Signing => cur \in Challenge
      BY Zenon, <1>0 DEF Phases
    <3>3. Credentials # Ready(c) /\ Answer # Ready(c)
      BY SMTT(30), <2>2 DEF Credentials, Answer
    <3>4. \A d \in Challenge \ ignored :
            In(Prepare(d), toEngine') \/ In(Ready(d), toWorker') => py \in Stopped \cup {"arming"}
      BY ZenonT(30), <1>0, <1>3, <2>3, <2>4, <2>7 DEF Phases
    <3>5. py \in {"armed", "clicked"} => challenges'[cur] = "armed"
      BY ZenonT(30), <1>0, <2>1, <3>2 DEF Phases, Signing
    <3>6. py \in {"arming", "armed", "clicked"} => Quiet(cur)' /\ ~In(Triggered(cur), toEngine')
      BY ZenonT(30), <1>0, <1>1, <2>4, <2>5 DEF Phases, Quiet
    <3>7. py \in Signing \ {"arming"} => cur # c /\ armedAt'[cur] = armedAt[cur]
      BY Zenon, <2>1, <3>1, <3>2 DEF Stopped, Signing, Between
    <3> QED
      BY Zenon, <1>0, <1>1, <2>3, <2>4, <3>3, <3>4, <3>5, <3>6, <3>7
      DEF Phases, AskCredentials, Credentials, Question, Answer, Prepare, Ready, Triggered, Fits, Signing
  <2> QED
    BY Zenon, <2>8, <2>9, <2>10, <2>11, <2>12, <2>13, <2>14, <2>15, <2>16 DEF Inv, Flight
<1> QED
  BY ZenonT(30), <1>7, <1>8, <1>9

\* The coordinator takes a report on challenge c and changes what it knows of it.
LEMMA Changes ==
  ASSUME Inv, NEW c \in Challenge, NEW v \in {"none", "waiting"},
         toEngine' \in Seq(ToEngine), Suffix(toEngine', toEngine),
         challenges' = [challenges EXCEPT ![c] = v],
         polling' = polling \/ (v = "waiting" /\ polling' = polling \cup {c}),
         UNCHANGED <<py, cur, ignored, code, used, async, armedAt, sent, inbox, toWorker, coord>>,
         c <= cur, v = "waiting" => ~In(Prepare(c), toEngine), ~In(Triggered(c), toEngine'),
         c \in ignored \/ ~In(Ready(c), toWorker),
         py \in {"armed", "clicked"} \/ (v = "waiting" /\ py = "arming") => cur # c
  PROVE  Inv'
<1>0. Flight /\ Phases /\ Types
  BY Zenon DEF Inv, Flight
<1>1. /\ challenges' \in [Challenge -> {"none", "armed", "waiting"}] /\ challenges'[c] = v
      /\ \A d \in Challenge : d # c => challenges'[d] = challenges[d]
      /\ toEngine \in Seq(ToEngine) /\ cur \in Nat
  BY SMTT(30), <1>0 DEF Types
<1>2. /\ \A i \in 1 .. Len(toEngine') : \E k \in 1 .. Len(toEngine) : toEngine'[i] = toEngine[k]
      /\ \A i, j \in 1 .. Len(toEngine') : \E k, m \in 1 .. Len(toEngine) :
           toEngine'[i] = toEngine[k] /\ toEngine'[j] = toEngine[m] /\ (k < m => i < j)
      /\ \A g : In(g, toEngine') => In(g, toEngine)
      /\ \A g : Once(g, toEngine) => Once(g, toEngine')
  BY Zenon, <1>1, SuffixFrames
<1>3. \A d : Quiet(d) /\ (v = "waiting" => d # c) => Quiet(d)'
  BY Zenon DEF Quiet
<1>4. \A d : Unsent(d)' <=> Unsent(d)
  BY Zenon DEF Unsent
<1>5. Types' /\ Numbers' /\ Increasing'
  BY Zenon, <1>0, <1>1 DEF Types, Numbers, Increasing, Flight
<1>6. Known'
  <2>1. \A d \in Challenge : d > cur => d # c
    BY SMTT(30), <1>1 DEF Challenge
  <2>2. \A d \in Challenge : d > cur => challenges'[d] = "none" /\ Quiet(d)' /\ Unsent(d)'
    BY Zenon, <1>0, <1>1, <1>3, <1>4, <2>1 DEF Flight, Known
  <2>3. \A i \in 1 .. Len(toEngine') : toEngine'[i][2] <= cur
    BY ZenonT(30), <1>0, <1>2 DEF Flight, Known
  <2> QED
    BY ZenonT(30), <1>0, <2>2, <2>3 DEF Flight, Known
<1>7. Alone(AskCredentials, Credentials)' /\ Alone(Question, Answer)'
  BY ZenonT(30), <1>0, <1>2 DEF Flight, Alone, AskCredentials, Credentials, Question, Answer
<1>8. Prepared'
  <2>1. \A d \in Challenge : Alone(Prepare(d), Ready(d))'
    BY ZenonT(30), <1>0, <1>2 DEF Flight, Prepared, Alone, Prepare, Ready
  <2>2. ASSUME NEW d \in Challenge, In(Prepare(d), toEngine')
        PROVE  challenges'[d] = "none" /\ Quiet(d)' /\ Unsent(d)'
    <3>1. In(Prepare(d), toEngine) /\ challenges[d] = "none" /\ Quiet(d) /\ Unsent(d)
      BY ZenonT(30), <1>0, <1>2, <2>2 DEF Flight, Prepared
    <3>2. d = c => v = "none"
      BY Zenon, <3>1
    <3> QED
      BY ZenonT(30), <1>1, <1>3, <1>4, <3>1, <3>2
  <2> QED
    BY ZenonT(30), <2>1, <2>2 DEF Prepared, Prepare
<1>9. Armed'
  BY ZenonT(30), <1>0, <1>1 DEF Flight, Armed, Ready
<1>10. Ended'
  <2> SUFFICES ASSUME NEW i \in 1 .. Len(toEngine'), toEngine'[i][1] \in Ends
               PROVE  /\ toEngine'[i][2] \in ignored
                      /\ \A k \in 1 .. Len(toEngine') : toEngine'[k] = Triggered(toEngine'[i][2]) => k < i
    BY Zenon DEF Ended, Triggered, Ends
  <2>1. toEngine'[i][2] \in ignored
    BY ZenonT(30), <1>0, <1>2 DEF Flight, Ended
  <2>2. ASSUME NEW k \in 1 .. Len(toEngine'), toEngine'[k] = Triggered(toEngine'[i][2])
        PROVE  k < i
    <3>1. PICK m, n \in 1 .. Len(toEngine) :
            toEngine'[k] = toEngine[m] /\ toEngine'[i] = toEngine[n] /\ (m < n => k < i)
      BY ZenonT(30), <1>2
    <3> QED
      BY ZenonT(30), <1>0, <2>2, <3>1 DEF Flight, Ended
  <2> QED
    BY ZenonT(30), <2>1, <2>2
<1>11. Triggers'
  <2>1. ASSUME NEW d \in Challenge
        PROVE  /\ Once(Triggered(d), toEngine')
               /\ In(Triggered(d), toEngine') => challenges'[d] = "armed" /\ ~In(Ready(d), toWorker)
    BY ZenonT(30), <1>0, <1>1, <1>2 DEF Flight, Triggers
  <2> QED
    BY ZenonT(30), <2>1 DEF Triggers, Triggered, Ready
<1>12. Cursors'
  BY Zenon, <1>0 DEF Flight, Cursors, Fits
<1>13. Phases'
  <2>1. py \in {"armed", "clicked"} => challenges'[cur] = "armed"
    BY ZenonT(30), <1>0, <1>1 DEF Phases, Signing
  <2>2. py \in {"arming", "armed", "clicked"} => Quiet(cur)' /\ ~In(Triggered(cur), toEngine')
    BY Zenon, <1>0, <1>2, <1>3 DEF Phases, Quiet
  <2> QED
    BY ZenonT(30), <1>0, <1>2, <2>1, <2>2
    DEF Phases, AskCredentials, Credentials, Question, Answer, Prepare, Ready, Triggered, Fits
<1> QED
  BY ZenonT(30), <1>5, <1>6, <1>7, <1>8, <1>9, <1>10, <1>11, <1>12, <1>13 DEF Inv, Flight

\* The trigger starts the wait of a challenge that is armed; the last word on a
\* challenge forgets it, when no trigger of it can follow.
LEMMA ReportSteps ==
  ASSUME Inv, HandleTriggered \/ \E type \in Ends : HandleEnd(type)
  PROVE  Inv'
<1> DEFINE c == Head(toEngine)[2]
<1>0. Flight /\ Phases /\ Types
  BY Zenon DEF Inv, Flight
<1>1. /\ toEngine # <<>> /\ toEngine' = Tail(toEngine) /\ Head(toEngine)[1] \in Ends \cup {"otp.triggered"}
      /\ UNCHANGED <<py, cur, ignored, code, used, async, armedAt, sent, inbox, toWorker>>
  BY ZenonT(30) DEF HandleTriggered, HandleEnd, Handle, python, phone
<1>2. /\ Head(toEngine) \in ToEngine /\ In(Head(toEngine), toEngine)
      /\ 1 \in 1 .. Len(toEngine) /\ Head(toEngine) = toEngine[1]
      /\ (Once(Head(toEngine), toEngine) => ~In(Head(toEngine), toEngine'))
      /\ \A i \in 1 .. Len(toEngine') : i + 1 \in 1 .. Len(toEngine) /\ toEngine'[i] = toEngine[i + 1]
  BY SMTT(30), <1>0, <1>1, HeadFrames DEF Types
<1>3. toEngine' \in Seq(ToEngine) /\ Suffix(toEngine', toEngine)
  BY Zenon, <1>0, <1>1, Suffixes DEF Types
<1>4. c \in Challenge
  BY ZenonT(30), <1>1, <1>2, FrameForms
<1>5. c <= cur
  BY Zenon, <1>0, <1>2 DEF Flight, Known
<1>6. CASE HandleTriggered
  <2>1. Head(toEngine) = Triggered(c) /\ In(Triggered(c), toEngine) /\ ~In(Triggered(c), toEngine')
    <3>1. Head(toEngine)[1] = "otp.triggered"
      BY Zenon, <1>6 DEF HandleTriggered, Handle
    <3>2. Head(toEngine) = Triggered(c)
      BY Zenon, <1>2, <3>1, FrameForms
    <3> QED
      BY Zenon, <1>0, <1>2, <1>4, <3>2 DEF Flight, Triggers
  <2>2. challenges[c] = "armed" /\ ~In(Ready(c), toWorker)
    BY Zenon, <1>0, <1>4, <2>1 DEF Flight, Triggers
  <2>3. challenges' = [challenges EXCEPT ![c] = "waiting"] /\ polling' = polling \cup {c} /\ coord' = coord
    BY Zenon, <1>6, <2>2 DEF HandleTriggered
  <2>4. ~In(Prepare(c), toEngine)
    BY ZenonT(30), <1>0, <1>4, <2>2 DEF Flight, Prepared
  <2>5. py \in {"arming", "armed", "clicked"} => cur # c
    BY Zenon, <1>0, <2>1 DEF Phases
  <2> HIDE DEF c
  <2> QED
    BY ZenonT(30), <1>1, <1>3, <1>4, <1>5, <2>1, <2>2, <2>3, <2>4, <2>5, Changes
<1>7. CASE \E type \in Ends : HandleEnd(type)
  <2>1. /\ challenges' = [challenges EXCEPT ![c] = "none"] /\ polling' = polling /\ coord' = coord
        /\ Head(toEngine)[1] \in Ends
    BY Zenon, <1>7 DEF HandleEnd, Handle
  <2>2. c \in ignored /\ \A k \in 1 .. Len(toEngine) : toEngine[k] = Triggered(c) => k < 1
    BY Zenon, <1>0, <1>2, <2>1 DEF Flight, Ended
  <2>3. ~In(Triggered(c), toEngine')
    <3> SUFFICES ASSUME NEW i \in 1 .. Len(toEngine'), toEngine'[i] = Triggered(c) PROVE FALSE
      BY Zenon DEF In
    <3>1. i + 1 < 1 /\ i \in Nat
      BY SMTT(30), <1>2, <2>2
    <3> QED
      BY <3>1
  <2>4. py \in {"armed", "clicked"} => cur # c
    BY Zenon, <1>0, <2>2 DEF Phases, Signing
  <2> HIDE DEF c
  <2> QED
    BY Zenon, <1>1, <1>3, <1>4, <1>5, <2>1, <2>2, <2>3, <2>4, Changes
<1> QED
  BY Zenon, <1>6, <1>7

\* A result of a wait is handed on while its challenge is in the map.
LEMMA ResultSteps ==
  ASSUME Inv, HandleAsync
  PROVE  Inv'
<1> DEFINE r == Head(async)
<1>0. Flight /\ Phases /\ Types
  BY DEF Inv, Flight
<1>1. /\ async # <<>> /\ async' = Tail(async) /\ coord = "run"
      /\ UNCHANGED <<py, cur, ignored, code, used, sent, inbox, challenges, armedAt, polling, toEngine>>
      /\ \/ toWorker' = toWorker /\ coord' \in {"run", "returned"}
         \/ r[1] # "code" /\ toWorker' = Append(toWorker, <<r[1], r[2], 0>>) /\ coord' = coord
         \/ r[1] = "code" /\ toWorker' = Append(toWorker, <<"otp.provide", r[2], r[3]>>) /\ coord' = coord
  BY Zenon DEF HandleAsync, ReplyError, Send, Return, python, phone
<1>2. r \in Results /\ 1 \in 1 .. Len(async) /\ r = async[1]
  BY ZenonT(30), <1>0, <1>1, HeadFrames DEF Types
<1>3. /\ toEngine \in Seq(ToEngine) /\ Suffix(toEngine, toEngine)
      /\ toWorker \in Seq(ToWorker) /\ Suffix(toWorker, toWorker)
      /\ async' \in Seq(Results) /\ Suffix(async', async)
  BY Zenon, <1>0, <1>1, Suffixes DEF Types
<1>4. /\ r[1] \in {"code", "otp.error", "otp.expired"} /\ r[2] \in Challenge /\ r[3] \in Nat
      /\ ~Quiet(r[2]) /\ (r[1] = "code" => Fits(r[2], r[3]))
  BY ZenonT(30), <1>0, <1>2, FrameForms DEF Flight, Cursors, Quiet
<1> HIDE DEF r
<1>5. r[2] <= cur
  BY SMTT(30), <1>0, <1>4 DEF Flight, Known, Types, Challenge
<1>6. CASE toWorker' = toWorker /\ coord' \in {"run", "returned"}
  BY Zenon, <1>0, <1>1, <1>3, <1>6, Shrinks DEF Shrinking, Types
<1>7. CASE r[1] # "code" /\ toWorker' = Append(toWorker, <<r[1], r[2], 0>>) /\ coord' = coord
  <2> DEFINE f == <<r[1], r[2], 0>>
  <2>1. /\ f \in ToWorker /\ f[1] # "otp.ready" /\ f[1] # "otp.provide" /\ f[2] <= cur
        /\ f # Credentials /\ f # Answer
    BY Zenon, <1>4, <1>5, <1>7 DEF ToWorker, Replies, Credentials, Answer
  <2>2. toWorker' = Append(toWorker, f) /\ coord' \in {"run", "returned"}
    BY Zenon, <1>1, <1>7
  <2> HIDE DEF f
  <2> QED
    BY Zenon, <1>1, <1>3, <2>1, <2>2, Sends
<1>8. CASE r[1] = "code" /\ toWorker' = Append(toWorker, <<"otp.provide", r[2], r[3]>>) /\ coord' = coord
  <2> DEFINE f == <<"otp.provide", r[2], r[3]>>
  <2>1. /\ f \in ToWorker /\ f[1] = "otp.provide" /\ f[2] = r[2] /\ f[3] = r[3]
        /\ f # Credentials /\ f # Answer
    BY Zenon, <1>4 DEF ToWorker, Codes, Credentials, Answer
  <2>2. toWorker' = Append(toWorker, f) /\ coord' \in {"run", "returned"}
    BY Zenon, <1>1, <1>8
  <2> HIDE DEF f
  <2>3. f[1] # "otp.ready" /\ f[2] <= cur /\ Fits(f[2], f[3]) /\ ~Quiet(f[2])
    BY ZenonT(30), <1>4, <1>5, <1>8, <2>1
  <2> QED
    BY ZenonT(30), <1>1, <1>3, <2>1, <2>2, <2>3, Sends
<1> QED
  BY ZenonT(30), <1>1, <1>6, <1>7, <1>8

\* Python is told of the cancellation.
LEMMA CancelSteps ==
  ASSUME Inv, SendCancel
  PROVE  Inv'
<1> DEFINE f == <<"control.cancel", 0, 0>>
<1>0. Types
  BY Zenon DEF Inv, Flight
<1>1. /\ toWorker' = Append(toWorker, f)
      /\ UNCHANGED <<py, cur, ignored, code, used, sent, inbox, challenges, armedAt, polling, async, toEngine, coord>>
  BY Zenon DEF SendCancel, Send, python, phone, engine
<1>2. /\ f \in ToWorker /\ f[1] # "otp.ready" /\ f[1] # "otp.provide" /\ f[2] <= cur
      /\ f # Credentials /\ f # Answer
  BY <1>0 DEF ToWorker, Answers, Credentials, Answer, Types
<1> HIDE DEF f
<1>3. /\ toEngine \in Seq(ToEngine) /\ Suffix(toEngine, toEngine)
      /\ async \in Seq(Results) /\ Suffix(async, async) /\ coord \in {"run", "returned"}
  BY Zenon, <1>0, Suffixes DEF Types
<1> QED
  BY Zenon, <1>1, <1>2, <1>3, Sends

\* The rest: the hub's display and its timers, the end of the run's context, Python's
\* exit, and the end of the coordinator.
LEMMA OtherSteps ==
  ASSUME Inv, (\E c \in Challenge : ExpireOTP(c)) \/ CancelRun \/ HandleDone \/ Exit \/ UNCHANGED otpVars
  PROVE  Inv'
<1>0. Types
  BY Zenon DEF Inv, Flight
<1>1. /\ UNCHANGED <<py, cur, ignored, code, used, sent, inbox, challenges, armedAt, polling, async, toWorker>>
      /\ toEngine' = toEngine \/ toEngine' = <<>>
      /\ coord' = coord \/ coord' = "returned"
  BY Zenon DEF ExpireOTP, CancelRun, HandleDone, Exit, Return, otpVars, python, phone, engine
<1>2. Shrinking
  BY Zenon, <1>0, <1>1, Untouched
<1> QED
  BY Zenon, <1>0, <1>1, <1>2, Shrinks DEF Types

-----------------------------------------------------------------------------
(***************************************************************************)
(* The theorems.                                                           *)
(***************************************************************************)
\* Python's reads, those that end a challenge included.
LEMMA AllReads ==
  ASSUME Inv, Read
  PROVE  Inv'
<1>0. Types /\ Phases
  BY Zenon DEF Inv, Flight
<1>1. PICK n \in DOMAIN toWorker :
        ReceiveOther(n) \/ ReceiveCredentials(n) \/ ReceiveReady(n) \/ WaitForOtp(n) \/ Answered(n)
  BY Zenon DEF Read
<1>2. CASE ReceiveOther(n) \/ ReceiveCredentials(n) \/ Answered(n)
  BY Zenon, <1>2, ReadSteps
<1>3. ASSUME NEW phase \in {"arming", "waiting"}, NEW type, Receive(n, phase, type),
             EndChallenge("otp.failed", "failed"), UNCHANGED <<code, used>>
      PROVE  Inv'
  <2>1. Take(n) /\ py \in Signing /\ UNCHANGED <<async, polling, challenges, armedAt, sent, inbox, coord>>
    BY Zenon, <1>3 DEF Receive, PyStep, phone, engine, Signing
  <2>2. toWorker' \in Seq(ToWorker) /\ Suffix(toWorker', toWorker) /\ code' \in Nat
    BY Zenon, <1>0, <1>3, <2>1, Taken DEF Types
  <2>3. "otp.failed" \in Ends
    BY Zenon DEF Ends
  <2> QED
    BY ZenonT(30), <1>3, <2>1, <2>2, <2>3, EndSteps
<1>4. CASE ReceiveReady(n)
  BY ZenonT(30), <1>3, <1>4, ReadSteps DEF ReceiveReady
<1>5. CASE WaitForOtp(n)
  BY Zenon, <1>3, <1>5, ReadSteps DEF WaitForOtp
<1> QED
  BY Zenon, <1>1, <1>2, <1>4, <1>5

\* Python's other steps that may end a challenge.
LEMMA AllEnds ==
  ASSUME Inv, AfterLogin \/ SubmitOtp \/ ChallengeFails
  PROVE  Inv'
<1>0. Types /\ Phases
  BY Zenon DEF Inv, Flight
<1>1. toWorker' = toWorker /\ PyStep /\ py \in Signing
  BY Zenon DEF AfterLogin, SubmitOtp, ChallengeFails, Signing
<1>2. UNCHANGED <<async, polling, challenges, armedAt, sent, inbox, coord>>
  BY Zenon, <1>1 DEF PyStep, phone, engine
<1>3. toWorker' \in Seq(ToWorker) /\ Suffix(toWorker', toWorker)
  BY Zenon, <1>0, <1>1, Suffixes DEF Types
<1>4. ASSUME NEW type \in Ends, NEW next \in {"failed", "auth"}, EndChallenge(type, next), code' \in Nat,
             used' = used \/ (py = "filling" /\ used' = Append(used, code))
      PROVE  Inv'
  BY Zenon, <1>1, <1>2, <1>3, <1>4, EndSteps
<1>5. code \in Nat /\ 0 \in Nat /\ "otp.failed" \in Ends /\ "otp.submitted" \in Ends /\ "otp.not_required" \in Ends
  BY Zenon, <1>0 DEF Types, Ends
<1>6. CASE AfterLogin
  <2>1. CASE py' = "waiting" /\ UNCHANGED <<login, cur, ignored, toEngine>>
    BY Zenon, <1>6, <2>1, MoveSteps DEF AfterLogin
  <2>2. CASE EndChallenge("otp.not_required", "auth") \/ EndChallenge("otp.failed", "failed")
    <3>1. code' = code /\ used' = used
      BY Zenon, <1>6 DEF AfterLogin
    <3> QED
      BY Zenon, <1>4, <1>5, <2>2, <3>1
  <2> QED
    BY Zenon, <1>6, <2>1, <2>2 DEF AfterLogin
<1>7. CASE SubmitOtp
  <2>1. EndChallenge("otp.submitted", "auth") /\ py = "filling" /\ code' = 0 /\ used' = Append(used, code)
    BY Zenon, <1>7 DEF SubmitOtp
  <2> QED
    BY Zenon, <1>4, <1>5, <2>1
<1>8. CASE ChallengeFails
  <2>1. EndChallenge("otp.failed", "failed") /\ code' = 0 /\ used' = used
    BY Zenon, <1>8 DEF ChallengeFails
  <2> QED
    BY Zenon, <1>4, <1>5, <2>1
<1> QED
  BY Zenon, <1>6, <1>7, <1>8

\* The inductive invariant: what each frame in flight says of its challenge.
THEOREM InvariantHolds == OtpSpec => []Inv
<1>1. OtpInit => Inv
  <2> SUFFICES ASSUME OtpInit PROVE Inv
    BY Zenon
  <2>1. Types
    BY ChallengesAssumption DEF OtpInit, Types, Between
  <2>2. /\ \A f : ~In(f, toEngine) /\ ~In(f, toWorker) /\ Once(f, toEngine) /\ Once(f, toWorker)
        /\ Len(toEngine) = 0 /\ Len(toWorker) = 0 /\ Len(async) = 0 /\ Len(inbox) = 0 /\ Len(used) = 0
    BY DEF OtpInit, In, Once
  <2>3. \A c \in Challenge : Quiet(c) /\ Unsent(c) /\ challenges[c] = "none" /\ armedAt[c] = 0 /\ ~(c < cur)
    BY SMTT(30), <2>2 DEF OtpInit, Quiet, Unsent, Challenge
  <2>4. Numbers /\ Known /\ Alone(AskCredentials, Credentials) /\ Alone(Question, Answer)
    BY SMTT(30), <2>2, <2>3 DEF OtpInit, Numbers, Known, Alone
  <2>5. Prepared /\ Armed
    BY Zenon, <2>2, <2>3 DEF Prepared, Alone, Armed
  <2>8. Triggers
    BY Zenon, <2>2 DEF Triggers
  <2>9. Ended
    BY <2>2 DEF Ended
  <2>6. Cursors /\ Increasing
    BY SMTT(30), <2>2, <2>3 DEF Cursors, Increasing
  <2>7. Phases
    BY Zenon, <2>2 DEF OtpInit, Phases, Between, Signing
  <2> QED
    BY Zenon, <2>1, <2>4, <2>5, <2>6, <2>7, <2>8, <2>9 DEF Inv, Flight
<1>2. Inv /\ [OtpNext]_otpVars => Inv'
  <2> SUFFICES ASSUME Inv, [OtpNext]_otpVars PROVE Inv'
    BY Zenon
  <2>1. CASE CheckCancelled \/ BrowserFails \/ Authenticated \/ Reauthenticate
    BY Zenon, <2>1, MoveSteps
  <2>2. CASE Read
    BY Zenon, <2>2, AllReads
  <2>3. CASE RequestCredentials \/ Ask
    BY Zenon, <2>3, AskSteps
  <2>4. CASE PrepareOtp
    BY <2>4, PrepareSteps
  <2>5. CASE Click
    BY <2>5, ClickSteps
  <2>6. CASE OtpTriggered
    BY <2>6, TriggerSteps
  <2>7. CASE AfterLogin \/ SubmitOtp \/ ChallengeFails
    BY Zenon, <2>7, AllEnds
  <2>8. CASE \E c \in Challenge : DeliverCode(c) \/ WaitForCode(c)
    BY Zenon, <2>8, DeliverSteps, WaitSteps
  <2>9. CASE HandleFrame
    BY Zenon, <2>9, AnswerSteps, ArmSteps, ReportSteps DEF HandleFrame
  <2>10. CASE HandleAsync
    BY <2>10, ResultSteps
  <2>11. CASE SendCancel
    BY <2>11, CancelSteps
  <2>12. CASE (\E c \in Challenge : ExpireOTP(c)) \/ CancelRun \/ HandleDone \/ Exit \/ UNCHANGED otpVars
    BY Zenon, <2>12, OtherSteps
  <2> QED
    BY Zenon, <2>1, <2>2, <2>3, <2>4, <2>5, <2>6, <2>7, <2>8, <2>9, <2>10, <2>11, <2>12 DEF OtpNext
<1> QED
  BY <1>1, <1>2, PTL DEF OtpSpec

\* NoSequenceError, for any number of challenges: no receive of Python's finds a frame
\* it does not expect, and handlePrepare and handleTriggered refuse nothing.
THEOREM FramesComeInSequence == OtpSpec => []NoSequenceError
<1>1. Inv => NoSequenceError
  BY ZenonT(30) DEF Inv, Flight, Types, NoSequenceError, Stopped, Signing, Between
<1> QED
  BY <1>1, InvariantHolds, PTL

\* CursorSeparatesCodes, for any number of challenges: the codes that Python submits
\* are at increasing positions of the inbox, so none is submitted twice.
THEOREM CodesAreKeptApart == OtpSpec => []CursorSeparatesCodes
<1>1. Inv => CursorSeparatesCodes
  <2> SUFFICES ASSUME Types, Cursors, Increasing PROVE CursorSeparatesCodes
    BY Zenon DEF Inv, Flight
  <2>1. \A c \in Challenge, i \in DOMAIN inbox : inbox[i] = c => armedAt[c] < i
    BY DEF Types, Cursors
  <2>2. ASSUME NEW k \in DOMAIN used, NEW m \in DOMAIN used, used[k] = used[m] PROVE k = m
    <3>1. k \in 1 .. Len(used) /\ m \in 1 .. Len(used) /\ used[k] \in Nat /\ used[m] \in Nat
      BY DEF Types
    <3>2. ~(used[k] < used[m]) /\ ~(used[m] < used[k])
      BY <2>2, <3>1
    <3>3. ~(k < m) /\ ~(m < k)
      BY Zenon, <3>1, <3>2 DEF Increasing
    <3> QED
      BY <3>1, <3>3
  <2> QED
    BY Zenon, <2>1, <2>2 DEF CursorSeparatesCodes, IsInjective
<1> QED
  BY <1>1, InvariantHolds, PTL
=============================================================================
