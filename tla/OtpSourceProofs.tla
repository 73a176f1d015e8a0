--------------------------- MODULE OtpSourceProofs --------------------------
(***************************************************************************)
(* Proofs about the source of the one-time codes.  SourcePairing, for any  *)
(* number of editors, jobs and goroutines: a pairing that a run persists   *)
(* was found in the inbox of the server the source names, because no edit  *)
(* may change the server while a job of the source runs, and a goroutine   *)
(* waits only at a waiter of its own job.  BlueBubbles, for every          *)
(* length of the pages, of the window and of the freshness: the provider   *)
(* implements OtpProvider, because the rows above its cursor that were in  *)
(* the inbox when it was armed are of other chats.                         *)
(***************************************************************************)
EXTENDS SourcePairing, BlueBubbles, WellFoundedInduction, TLAPS

-----------------------------------------------------------------------------
(* SourcePairing. *)

Source == [provider : {"bluebubbles", "twilio"}, identity : Server, pairing : Fingerprint \cup {None}]
Input == [pc : {"input"}, form : Form, blank : BOOLEAN, current : Source]
Change == [pc : {"update", "write"}, secret : BOOLEAN, new : Source]

PairingTypes ==
  /\ source \in Source
  /\ jobs \in [JobId -> [status : Pending \cup {"unused", "succeeded", "failed", "cancelled",
                                                "interrupted"}, cancel : BOOLEAN]]
  /\ edit \in [Editor -> {Idle} \cup Input \cup Change]
  /\ server \in [JobId -> Server \cup {None}]
  /\ hub \in [JobId -> Goroutine \cup {None}]
  /\ choice \in [Goroutine -> Fingerprint \cup {None}]
  /\ waits \in [Goroutine -> Goroutine \cup {None}]
  /\ gpc \in [Goroutine -> {"new", "scan", "set", "wait", "persist", "clear", "end"}]

\* A goroutine, a waiter and a choice come after the provider of their job, a choice
\* names a conversation of the provider's inbox, and a goroutine waits at a waiter of its
\* own job, perhaps another goroutine's.
Waiters ==
  /\ \A g \in Goroutine : gpc[g] # "new" => server[g[1]] # None
  /\ \A j \in JobId : hub[j] # None => hub[j][1] = j /\ server[j] # None
  /\ \A g \in Goroutine : choice[g] # None => server[g[1]] # None /\ choice[g].server = server[g[1]]
  /\ \A g \in Goroutine : waits[g] # None => waits[g][1] = g[1]
  /\ \A g \in Goroutine : gpc[g] \in {"wait", "persist"} => waits[g] # None
  /\ \A g \in Goroutine : gpc[g] = "persist" => choice[waits[g]] # None

\* While a job runs, the source names the server its provider was built for.
Served ==
  \A j \in JobId : /\ jobs[j].status = "running" /\ server[j] # None => server[j] = source.identity
                   /\ jobs[j].status \in {"queued", "unused"} => server[j] = None

PairingInv == PairingTypes /\ Waiters /\ Served

\* A goroutine belongs to a job.
LEMMA JobOfGoroutine == \A g \in Goroutine : g[1] \in JobId
  BY Zenon DEF Goroutine

\* A goroutine that persists has received the choice of a waiter of its job.
LEMMA WaiterOfGoroutine ==
  ASSUME PairingTypes, Waiters, NEW g \in Goroutine, gpc[g] = "persist"
  PROVE  waits[g] \in Goroutine /\ waits[g][1] = g[1] /\ choice[waits[g]] # None
<1>1. gpc[g] \in {"wait", "persist"}
  BY Zenon
<1>2. waits[g] # None /\ waits[g][1] = g[1] /\ choice[waits[g]] # None
  BY Zenon, <1>1 DEF Waiters
<1>3. waits[g] \in Goroutine \cup {None}
  BY Zenon DEF PairingTypes
<1> QED
  BY Zenon, <1>2, <1>3

\* A step of an edit changes the requests and, while no job runs, the source.
LEMMA SourceMoves ==
  ASSUME PairingInv, edit' \in [Editor -> {Idle} \cup Input \cup Change], source' \in Source,
         source'.identity # source.identity => NoPendingJob,
         UNCHANGED <<jobs, server, hub, choice, waits, gpc>>
  PROVE  PairingInv'
<1>1. UNCHANGED <<jobs, server, hub, choice, waits, gpc>>
  BY Zenon
<1>2. PairingTypes'
  BY Zenon, <1>1 DEF PairingInv, PairingTypes
<1>3. Waiters'
  BY Zenon, <1>1 DEF PairingInv, Waiters
<1>4. ASSUME NEW j \in JobId, jobs[j].status = "running" PROVE source'.identity = source.identity
  BY Zenon, <1>4 DEF NoPendingJob, Pending
<1>5. Served'
  BY Zenon, <1>1, <1>4 DEF PairingInv, Served
<1> QED
  BY Zenon, <1>2, <1>3, <1>5 DEF PairingInv

\* A job moves on, perhaps without its waiter: what runs now was queued or ran, what
\* waits now waited.
LEMMA JobMoves ==
  ASSUME PairingInv, UNCHANGED <<source, edit, server, choice, waits, gpc>>,
         jobs' \in [JobId -> [status : Pending \cup {"unused", "succeeded", "failed", "cancelled",
                                                     "interrupted"}, cancel : BOOLEAN]],
         hub' \in [JobId -> Goroutine \cup {None}], \A j \in JobId : hub'[j] \in {hub[j], None},
         \A j \in JobId : /\ jobs'[j].status = "running" => jobs[j].status \in Pending
                          /\ jobs'[j].status \in {"queued", "unused"} => jobs[j].status \in {"queued", "unused"}
  PROVE  PairingInv'
<1>1. UNCHANGED <<source, edit, server, choice, waits, gpc>>
  BY Zenon
<1>2. PairingTypes'
  BY Zenon, <1>1 DEF PairingInv, PairingTypes
<1>3. \A j \in JobId : hub'[j] # None => hub'[j][1] = j /\ server[j] # None
  BY Zenon DEF PairingInv, Waiters
<1>4. Waiters'
  BY Zenon, <1>1, <1>3 DEF PairingInv, Waiters
<1>5. ASSUME NEW j \in JobId, jobs'[j].status = "running", server[j] # None
      PROVE  server[j] = source.identity
  BY Zenon, <1>5 DEF PairingInv, Served, Pending
<1>6. Served'
  BY Zenon, <1>1, <1>5 DEF PairingInv, Served
<1> QED
  BY Zenon, <1>2, <1>4, <1>6 DEF PairingInv

\* A goroutine moves on, with or without a waiter of its own, and keeps the waiter it
\* waits at.
LEMMA WaitMoves ==
  ASSUME PairingInv, NEW g \in Goroutine, UNCHANGED <<jobs, edit, server, choice, waits>>,
         NEW step \in {"scan", "set", "persist", "clear", "end"}, Goto(g, step),
         gpc[g] # "new" \/ server[g[1]] # None,
         step = "persist" => waits[g] # None /\ choice[waits[g]] # None,
         hub' = hub \/ hub' = [hub EXCEPT ![g[1]] = None] \/ hub' = [hub EXCEPT ![g[1]] = g],
         source' \in Source, source'.identity = source.identity
  PROVE  PairingInv'
<1>0. UNCHANGED <<jobs, edit, server, choice, waits>> /\ g[1] \in JobId
  BY Zenon, JobOfGoroutine
<1>1. /\ gpc' \in [Goroutine -> {"new", "scan", "set", "wait", "persist", "clear", "end"}]
      /\ gpc'[g] = step /\ \A h \in Goroutine : h # g => gpc'[h] = gpc[h]
  BY Zenon DEF PairingInv, PairingTypes, Goto
<1>2. server[g[1]] # None
  BY Zenon DEF PairingInv, Waiters
<1>3. /\ hub' \in [JobId -> Goroutine \cup {None}]
      /\ \A j \in JobId : hub'[j] = hub[j] \/ hub'[j] = None \/ (hub'[j] = g /\ g[1] = j)
  BY Zenon, <1>0 DEF PairingInv, PairingTypes
<1>4. PairingTypes'
  BY Zenon, <1>0, <1>1, <1>3 DEF PairingInv, PairingTypes
<1>5. \A j \in JobId : hub'[j] # None => hub'[j][1] = j /\ server[j] # None
  BY Zenon, <1>2, <1>3 DEF PairingInv, Waiters
<1>6. step # "wait"
  BY Zenon
<1>7. \A h \in Goroutine : /\ gpc'[h] # "new" => server[h[1]] # None
                           /\ gpc'[h] \in {"wait", "persist"} => waits[h] # None
                           /\ gpc'[h] = "persist" => choice[waits[h]] # None
  BY Zenon, <1>1, <1>2, <1>6 DEF PairingInv, Waiters
<1>8. Waiters'
  BY Zenon, <1>0, <1>5, <1>7 DEF PairingInv, Waiters
<1>9. Served'
  BY Zenon, <1>0 DEF PairingInv, Served
<1> QED
  BY Zenon, <1>4, <1>8, <1>9 DEF PairingInv

\* What an edit writes into its request.
LEMMA EditMoves ==
  ASSUME PairingTypes, NEW e \in Editor, NEW new \in {Idle} \cup Input \cup Change,
         edit' = [edit EXCEPT ![e] = new]
  PROVE  /\ edit' \in [Editor -> {Idle} \cup Input \cup Change] /\ edit'[e] = new
         /\ \A f \in Editor : f # e => edit'[f] = edit[f]
  BY Zenon DEF PairingTypes

\* Where an edit is tells what it holds.
LEMMA EditHolds ==
  ASSUME PairingTypes, NEW e \in Editor
  PROVE  /\ edit[e].pc = "input" => edit[e] \in Input
         /\ edit[e].pc \in {"update", "write"} => edit[e] \in Change
<1>1. edit[e] \in {Idle} \cup Input \cup Change
  BY Zenon DEF PairingTypes
<1>2. /\ edit[e] = Idle => edit[e].pc = "idle"
      /\ edit[e] \in Input => edit[e].pc = "input"
      /\ edit[e] \in Change => edit[e].pc \in {"update", "write"}
  BY DEF Idle, Input, Change
<1> QED
  BY Zenon, <1>1, <1>2

\* sourceInput and UpdateOTPSource hold a row of the table.
LEMMA DraftTypes ==
  ASSUME PairingTypes, NEW e \in Editor
  PROVE  /\ SourceInput(e) => \E new \in {Idle} \cup Change : edit' = [edit EXCEPT ![e] = new]
         /\ ReadExisting(e) => \E new \in {Idle} \cup Change : edit' = [edit EXCEPT ![e] = new]
<1>1. ASSUME SourceInput(e) PROVE \E new \in {Idle} \cup Change : edit' = [edit EXCEPT ![e] = new]
  <2> DEFINE current == edit[e].current
             form == edit[e].form
             same == current.provider = form.provider
             id == IF edit[e].blank /\ same THEN source.identity ELSE form.identity
             kept == IF same THEN current.pairing ELSE None
             draft == [pc |-> "update", secret |-> form.secret,
                       new |-> [provider |-> form.provider, identity |-> id, pairing |-> kept]]
  <2>1. edit[e] \in Input
    BY Zenon, <1>1, EditHolds DEF SourceInput
  <2>2. current \in Source /\ form \in Form /\ source \in Source
    BY Zenon, <2>1 DEF Input, PairingTypes
  <2>3. /\ form.provider \in {"bluebubbles", "twilio"} /\ form.secret \in BOOLEAN
        /\ id \in Server /\ kept \in Fingerprint \cup {None}
    BY Zenon, <2>2 DEF Source, Form
  <2>4. edit' = [edit EXCEPT ![e] = Idle] \/ edit' = [edit EXCEPT ![e] = draft]
    BY Zenon, <1>1 DEF SourceInput
  <2> HIDE DEF id, kept, form
  <2>5. draft \in Change
    BY Zenon, <2>3 DEF Change, Source
  <2> QED
    BY Zenon, <2>4, <2>5
<1>2. ASSUME ReadExisting(e) PROVE \E new \in {Idle} \cup Change : edit' = [edit EXCEPT ![e] = new]
  <2> DEFINE draft == edit[e].new
             changed == /\ source.provider = "bluebubbles" /\ draft.provider = "bluebubbles"
                        /\ source.identity # draft.identity
             kept == IF changed THEN None ELSE draft.pairing
             next == [edit[e] EXCEPT !.pc = "write", !.new.pairing = kept]
  <2>1. edit[e] \in Change
    BY Zenon, <1>2, EditHolds DEF ReadExisting
  <2>2. draft \in Source /\ kept \in Fingerprint \cup {None}
    BY Zenon, <2>1 DEF Change, Source
  <2>3. edit' = [edit EXCEPT ![e] = Idle] \/ edit' = [edit EXCEPT ![e] = next]
    BY Zenon, <1>2 DEF ReadExisting
  <2> HIDE DEF kept
  <2>4. next \in Change
    BY Zenon, <2>1, <2>2 DEF Change, Source
  <2> QED
    BY Zenon, <2>3, <2>4
<1> QED
  BY Zenon, <1>1, <1>2

\* A step of the phone's owner, of a job or of a goroutine, by what it changes.
LEMMA PairingInductive ==
  ASSUME PairingInv, [Next]_vars
  PROVE  PairingInv'
<1>0. PairingTypes /\ Waiters /\ Served /\ source \in Source
  BY Zenon DEF PairingInv, PairingTypes
<1>j. \A j \in JobId : /\ jobs[j].status \in Pending \cup {"unused", "succeeded", "failed", "cancelled", "interrupted"}
                       /\ jobs[j].cancel \in BOOLEAN
  BY Zenon, <1>0 DEF PairingTypes
<1>c. ASSUME NEW j \in JobId, hub' = hub \/ ClearPairing(j)
      PROVE  hub' \in [JobId -> Goroutine \cup {None}] /\ \A i \in JobId : hub'[i] \in {hub[i], None}
  BY Zenon, <1>0, <1>c DEF ClearPairing, PairingTypes
<1>1. ASSUME NEW e \in Editor, NEW new \in {Idle} \cup Input \cup Change, edit' = [edit EXCEPT ![e] = new],
             UNCHANGED <<source, user, jobs, run>>
      PROVE  PairingInv'
  <2>1. UNCHANGED <<jobs, server, hub, choice, waits, gpc>> /\ source' = source
    BY Zenon, <1>1 DEF run
  <2> QED
    BY Zenon, <1>0, <1>1, <2>1, EditMoves, SourceMoves
<1>2. ASSUME NEW e \in Editor, ReadCurrent(e) PROVE PairingInv'
  <2>1. PICK form \in Form, blank \in BOOLEAN :
           edit' = [edit EXCEPT ![e] = [pc |-> "input", form |-> form, blank |-> blank, current |-> source]]
    BY Zenon, <1>2 DEF ReadCurrent
  <2>2. [pc |-> "input", form |-> form, blank |-> blank, current |-> source] \in Input
    BY Zenon, <1>0 DEF Input
  <2> QED
    BY Zenon, <1>1, <1>2, <2>1, <2>2 DEF ReadCurrent
<1>3. ASSUME NEW e \in Editor, SourceInput(e) \/ ReadExisting(e) PROVE PairingInv'
  BY Zenon, <1>0, <1>1, <1>3, DraftTypes DEF SourceInput, ReadExisting
<1>4. ASSUME NEW e \in Editor, UpdateOTPSource(e) PROVE PairingInv'
  <2>1. edit[e].new \in Source
    BY Zenon, <1>0, <1>4, EditHolds DEF UpdateOTPSource, Change
  <2>2. source' = source \/ (source' = edit[e].new /\ NoPendingJob)
    BY Zenon, <1>4 DEF UpdateOTPSource
  <2>3. edit' \in [Editor -> {Idle} \cup Input \cup Change]
    BY Zenon, <1>0, <1>4, EditMoves DEF UpdateOTPSource
  <2>4. UNCHANGED <<jobs, server, hub, choice, waits, gpc>>
    BY Zenon, <1>4 DEF UpdateOTPSource, run
  <2> QED
    BY Zenon, <1>0, <2>1, <2>2, <2>3, <2>4, SourceMoves
<1>5. ASSUME NEW j \in JobId, NEW status \in Pending \cup {"unused", "succeeded", "failed", "cancelled", "interrupted"},
             NEW cancel \in BOOLEAN, jobs' = [jobs EXCEPT ![j] = [status |-> status, cancel |-> cancel]],
             status = "running" => jobs[j].status \in Pending,
             status \in {"queued", "unused"} => jobs[j].status \in {"queued", "unused"},
             UNCHANGED <<source, edit, server, choice, waits, gpc>>, hub' = hub \/ ClearPairing(j)
      PROVE  PairingInv'
  <2> DEFINE new == [status |-> status, cancel |-> cancel]
  <2>1. /\ new \in [status : Pending \cup {"unused", "succeeded", "failed", "cancelled", "interrupted"}, cancel : BOOLEAN]
        /\ new.status = status
    BY Zenon
  <2>2. jobs' = [jobs EXCEPT ![j] = new]
    BY Zenon, <1>5
  <2> HIDE DEF new
  <2>3. /\ jobs' \in [JobId -> [status : Pending \cup {"unused", "succeeded", "failed", "cancelled",
                                                      "interrupted"}, cancel : BOOLEAN]]
        /\ jobs'[j] = new /\ \A i \in JobId : i # j => jobs'[i] = jobs[i]
    BY Zenon, <1>0, <2>1, <2>2 DEF PairingTypes
  <2>4. \A i \in JobId : jobs[i].status = "running" => jobs[i].status \in Pending
    BY Zenon DEF Pending
  <2>5. \A i \in JobId : /\ jobs'[i].status = "running" => jobs[i].status \in Pending
                         /\ jobs'[i].status \in {"queued", "unused"} => jobs[i].status \in {"queued", "unused"}
    BY Zenon, <1>5, <2>1, <2>3, <2>4
  <2>6. hub' \in [JobId -> Goroutine \cup {None}] /\ \A i \in JobId : hub'[i] \in {hub[i], None}
    BY Zenon, <1>c, <1>5
  <2> QED
    BY Zenon, <1>5, <2>3, <2>5, <2>6, JobMoves
<1>6. ASSUME NEW j \in JobId, NEW status \in Pending \cup {"unused", "succeeded", "failed", "cancelled", "interrupted"},
             jobs' = [jobs EXCEPT ![j].status = status],
             status = "running" => jobs[j].status \in Pending,
             status \in {"queued", "unused"} => jobs[j].status \in {"queued", "unused"},
             UNCHANGED <<source, edit, server, hub, choice, waits, gpc>>
      PROVE  PairingInv'
  <2>1. [jobs[j] EXCEPT !.status = status] = [status |-> status, cancel |-> jobs[j].cancel]
    BY <1>0 DEF PairingTypes
  <2> QED
    BY Zenon, <1>j, <1>5, <1>6, <2>1
<1>7. ASSUME NEW j \in JobId, QueuePairing(j) \/ Execute(j) PROVE PairingInv'
  <2>1. UNCHANGED <<source, edit, server, hub, choice, waits, gpc>>
    BY Zenon, <1>7 DEF QueuePairing, Execute, run
  <2> QED
    BY Zenon, <1>6, <1>7, <2>1 DEF QueuePairing, Execute, Pending
<1>8. ASSUME NEW j \in JobId, ProviderForSource(j) PROVE PairingInv'
  <2>1. /\ jobs[j].status = "running" /\ server[j] = None /\ server' = [server EXCEPT ![j] = source.identity]
        /\ UNCHANGED <<source, jobs, edit, hub, choice, waits, gpc>>
    BY Zenon, <1>8 DEF ProviderForSource
  <2>2. source.identity \in Server
    BY Zenon, <1>0 DEF Source
  <2>3. /\ server' \in [JobId -> Server \cup {None}] /\ server'[j] = source.identity
        /\ \A i \in JobId : i # j => server'[i] = server[i]
    BY Zenon, <1>0, <2>1, <2>2 DEF PairingTypes
  <2>4. PairingTypes'
    BY Zenon, <1>0, <2>1, <2>3 DEF PairingTypes
  <2>5. \A g \in Goroutine : server[g[1]] # None => server'[g[1]] = server[g[1]]
    BY Zenon, <2>1, <2>3, JobOfGoroutine
  <2>6. Waiters'
    BY ZenonT(30), <1>0, <2>1, <2>3, <2>5 DEF Waiters
  <2>7. jobs[j].status \notin {"queued", "unused"}
    BY Zenon, <2>1
  <2>8. Served'
    BY Zenon, <1>0, <2>1, <2>3, <2>7 DEF Served
  <2> QED
    BY Zenon, <2>4, <2>6, <2>8 DEF PairingInv
<1>9. ASSUME NEW j \in JobId, Finish(j) PROVE PairingInv'
  <2>1. UNCHANGED <<source, edit, server, hub, choice, waits, gpc>>
    BY Zenon, <1>9 DEF Finish
  <2>2. PICK status \in {"failed", "succeeded"} : jobs' = [jobs EXCEPT ![j].status = status]
    BY Zenon, <1>9 DEF Finish
  <2>3. status # "running" /\ status \notin {"queued", "unused"}
    BY Zenon, <2>2
  <2> QED
    BY Zenon, <1>6, <2>1, <2>2, <2>3
<1>10. ASSUME NEW j \in JobId, CancelJob(j) PROVE PairingInv'
  <2> DEFINE status == IF jobs[j].status = "queued" THEN "cancelled" ELSE jobs[j].status
  <2>1. /\ UNCHANGED <<source, edit, server, choice, waits, gpc>> /\ jobs[j].status \in Pending
        /\ hub' = hub \/ ClearPairing(j)
    BY Zenon, <1>10 DEF CancelJob
  <2>2. jobs' = [jobs EXCEPT ![j] = [status |-> status, cancel |-> TRUE]]
    BY Zenon, <1>10 DEF CancelJob
  <2>3. status \in {"running", "cancelled"}
    BY Zenon, <2>1 DEF Pending
  <2> HIDE DEF status
  <2>4. status \in Pending \cup {"unused", "succeeded", "failed", "cancelled", "interrupted"}
        /\ status \notin {"queued", "unused"}
    BY Zenon, <2>3 DEF Pending
  <2> QED
    BY Zenon, <1>5, <2>1, <2>2, <2>4
<1>11. CASE Disable
  <2>1. UNCHANGED <<source, edit, server, hub, choice, waits, gpc>>
    BY Zenon, <1>11 DEF Disable, run
  <2>2. ASSUME NEW j \in JobId
        PROVE  /\ jobs'[j] \in [status : Pending \cup {"unused", "succeeded", "failed", "cancelled", "interrupted"},
                                cancel : BOOLEAN]
               /\ jobs'[j].status = "running" => jobs[j].status \in Pending
               /\ jobs'[j].status \in {"queued", "unused"} => jobs[j].status \in {"queued", "unused"}
    <3> DEFINE status == IF jobs[j].status = "queued" THEN "cancelled" ELSE jobs[j].status
    <3>1. CASE jobs[j].status \notin Pending
      <4>1. jobs'[j] = jobs[j]
        BY Zenon, <1>11, <3>1 DEF Disable
      <4>2. jobs[j].status # "running"
        BY Zenon, <3>1 DEF Pending
      <4> QED
        BY Zenon, <1>0, <4>1, <4>2 DEF PairingTypes
    <3>2. CASE jobs[j].status \in Pending
      <4>1. jobs'[j] = [status |-> status, cancel |-> TRUE]
        BY Zenon, <1>11, <3>2 DEF Disable
      <4>2. status \in {"running", "cancelled"}
        BY Zenon, <3>2 DEF Pending
      <4> HIDE DEF status
      <4> QED
        BY <3>2, <4>1, <4>2 DEF Pending
    <3> QED
      BY Zenon, <3>1, <3>2
  <2>3. jobs' = [j \in JobId |-> jobs'[j]]
    BY Zenon, <1>11 DEF Disable
  <2>4. jobs' \in [JobId -> [status : Pending \cup {"unused", "succeeded", "failed", "cancelled",
                                                   "interrupted"}, cancel : BOOLEAN]]
    BY Zenon, <2>2, <2>3
  <2> QED
    BY Zenon, <1>0, <2>1, <2>2, <2>4, JobMoves DEF PairingTypes
<1>12. CASE Enable
  <2>1. UNCHANGED <<source, jobs, edit, server, hub, choice, waits, gpc>>
    BY Zenon, <1>12 DEF Enable, run
  <2> QED
    BY Zenon, <1>0, <2>1 DEF PairingInv, PairingTypes, Waiters, Served
<1>13. CASE Crash
  <2>1. UNCHANGED <<source, server, choice, waits>>
    BY Zenon, <1>13 DEF Crash
  <2>2. /\ edit' = [e \in Editor |-> Idle] /\ hub' = [j \in JobId |-> None]
        /\ gpc' = [g \in Goroutine |-> IF gpc[g] = "new" THEN "new" ELSE "end"]
    BY Zenon, <1>13 DEF Crash
  <2>3. ASSUME NEW j \in JobId
        PROVE  /\ jobs'[j] \in [status : Pending \cup {"unused", "succeeded", "failed", "cancelled", "interrupted"},
                                cancel : BOOLEAN]
               /\ jobs'[j].status # "running"
               /\ jobs'[j].status \in {"queued", "unused"} => jobs[j].status \in {"queued", "unused"}
    <3>0. jobs[j] \in [status : Pending \cup {"unused", "succeeded", "failed", "cancelled", "interrupted"},
                       cancel : BOOLEAN]
      BY Zenon, <1>0 DEF PairingTypes
    <3>1. CASE jobs[j].status = "running"
      <4>1. jobs'[j] = [jobs[j] EXCEPT !.status = "interrupted"]
        BY Zenon, <1>13, <3>1 DEF Crash
      <4> QED
        BY Zenon, <3>0, <4>1
    <3>2. CASE jobs[j].status # "running"
      BY Zenon, <1>13, <3>0, <3>2 DEF Crash
    <3> QED
      BY Zenon, <3>1, <3>2
  <2>4. jobs' = [j \in JobId |-> jobs'[j]]
    BY Zenon, <1>13 DEF Crash
  <2>5. jobs' \in [JobId -> [status : Pending \cup {"unused", "succeeded", "failed", "cancelled",
                                                   "interrupted"}, cancel : BOOLEAN]]
    BY Zenon, <2>3, <2>4
  <2>6. PairingTypes'
    BY Zenon, <1>0, <2>1, <2>2, <2>5 DEF PairingTypes
  <2>7. \A g \in Goroutine : gpc'[g] \notin {"wait", "persist"} /\ (gpc'[g] # "new" => gpc[g] # "new")
    BY Zenon, <2>2
  <2>8. Waiters'
    BY Zenon, <1>0, <2>1, <2>2, <2>7 DEF Waiters
  <2>9. Served'
    BY Zenon, <1>0, <2>1, <2>3 DEF Served
  <2> QED
    BY Zenon, <2>6, <2>8, <2>9 DEF PairingInv
<1>14. ASSUME NEW g \in Goroutine, StartChallenge(g) PROVE PairingInv'
  <2>1. Goto(g, "scan") /\ server[g[1]] # None /\ UNCHANGED <<source, jobs, edit, server, hub, choice, waits>>
    BY Zenon, <1>14 DEF StartChallenge, Goto
  <2>2. "scan" \in {"scan", "set", "persist", "clear", "end"} /\ "scan" # "persist"
    BY Zenon
  <2> QED
    BY Zenon, <1>0, <2>1, <2>2, WaitMoves
<1>15. ASSUME NEW g \in Goroutine, ChallengeEnds(g) PROVE PairingInv'
  <2>1. UNCHANGED <<source, jobs, edit, server, hub, choice, waits, gpc>>
    BY Zenon, <1>15 DEF ChallengeEnds
  <2> QED
    BY Zenon, <1>0, <2>1 DEF PairingInv, PairingTypes, Waiters, Served
<1>16. ASSUME NEW g \in Goroutine, NEW step \in {"set", "clear", "end"}, Goto(g, step), gpc[g] # "new",
              UNCHANGED <<jobs, edit, server, choice, waits>>,
              hub' = hub \/ hub' = [hub EXCEPT ![g[1]] = None] \/ hub' = [hub EXCEPT ![g[1]] = g],
              source' \in Source, source'.identity = source.identity
       PROVE  PairingInv'
  <2>1. step \in {"scan", "set", "persist", "clear", "end"} /\ step # "persist"
    BY Zenon, <1>16
  <2> QED
    BY Zenon, <1>16, <2>1, WaitMoves
<1>17. ASSUME NEW g \in Goroutine, SetPairingCandidates(g) PROVE PairingInv'
  <2>1. gpc[g] # "new"
    BY Zenon, <1>17 DEF SetPairingCandidates
  <2> QED
    BY Zenon, <1>0, <1>16, <1>17, <2>1 DEF SetPairingCandidates
<1>18. ASSUME NEW g \in Goroutine, ScanFails(g) PROVE PairingInv'
  <2>1. gpc[g] # "new"
    BY Zenon, <1>18 DEF ScanFails
  <2> QED
    BY Zenon, <1>0, <1>16, <1>18, <2>1 DEF ScanFails
<1>19. ASSUME NEW g \in Goroutine, WaitPairing(g) PROVE PairingInv'
  <2> DEFINE w == hub[g[1]]
             step == IF w = None THEN "clear" ELSE "wait"
  <2>1. /\ gpc[g] = "set" /\ waits' = [waits EXCEPT ![g] = w] /\ gpc' = [gpc EXCEPT ![g] = step]
        /\ UNCHANGED <<source, jobs, edit, server, hub, choice>>
    BY Zenon, <1>19 DEF WaitPairing, Goto
  <2>2. w \in Goroutine \cup {None} /\ (w # None => w[1] = g[1]) /\ server[g[1]] # None
    BY Zenon, <1>0, <2>1, JobOfGoroutine DEF PairingTypes, Waiters
  <2>3. step \in {"clear", "wait"} /\ (step = "wait" => w # None) /\ step # "persist"
    BY Zenon
  <2> HIDE DEF w, step
  <2>4. /\ waits' \in [Goroutine -> Goroutine \cup {None}] /\ waits'[g] = w
        /\ \A h \in Goroutine : h # g => waits'[h] = waits[h]
    BY Zenon, <1>0, <2>1, <2>2 DEF PairingTypes
  <2>5. /\ gpc' \in [Goroutine -> {"new", "scan", "set", "wait", "persist", "clear", "end"}]
        /\ gpc'[g] = step /\ \A h \in Goroutine : h # g => gpc'[h] = gpc[h]
    BY Zenon, <1>0, <2>1, <2>3 DEF PairingTypes
  <2>6. PairingTypes'
    BY Zenon, <1>0, <2>1, <2>4, <2>5 DEF PairingTypes
  <2>7. \A h \in Goroutine : /\ gpc'[h] # "new" => server[h[1]] # None
                             /\ waits'[h] # None => waits'[h][1] = h[1]
    BY Zenon, <1>0, <2>2, <2>4, <2>5 DEF Waiters
  <2>8. \A h \in Goroutine : gpc'[h] \in {"wait", "persist"} => waits'[h] # None
    BY Zenon, <1>0, <2>3, <2>4, <2>5 DEF Waiters
  <2>9. \A h \in Goroutine : gpc'[h] = "persist" => choice[waits'[h]] # None
    BY Zenon, <1>0, <2>3, <2>4, <2>5 DEF Waiters
  <2>10. Waiters' /\ Served'
    BY Zenon, <1>0, <2>1, <2>7, <2>8, <2>9 DEF Waiters, Served
  <2> QED
    BY Zenon, <2>6, <2>10 DEF PairingInv
<1>20. ASSUME NEW j \in JobId, ChoosePairing(j) PROVE PairingInv'
  <2> DEFINE g == hub[j]
  <2>1. g # None /\ choice[g] = None /\ UNCHANGED <<source, jobs, edit, server, hub, waits, gpc>>
    BY Zenon, <1>20 DEF ChoosePairing
  <2>2. PICK c \in Chat : choice' = [choice EXCEPT ![g] = [server |-> server[j], chat |-> c]]
    BY Zenon, <1>20 DEF ChoosePairing
  <2>3. g \in Goroutine /\ g[1] = j /\ server[j] # None /\ server[j] \in Server
    <3>1. g \in Goroutine
      BY Zenon, <1>0, <2>1 DEF PairingTypes
    <3>2. g[1] = j /\ server[j] # None
      BY Zenon, <1>0, <2>1 DEF Waiters
    <3>3. server[j] \in Server
      BY Zenon, <1>0, <3>2 DEF PairingTypes
    <3> QED
      BY Zenon, <3>1, <3>2, <3>3
  <2> DEFINE new == [server |-> server[j], chat |-> c]
  <2>4. new \in Fingerprint /\ new.server = server[j]
    BY Zenon, <2>3 DEF Fingerprint
  <2>5. choice' = [choice EXCEPT ![g] = new]
    BY Zenon, <2>2
  <2> HIDE DEF new, g
  <2>6. /\ choice' \in [Goroutine -> Fingerprint \cup {None}] /\ choice'[g] = new
        /\ \A h \in Goroutine : h # g => choice'[h] = choice[h]
    BY Zenon, <1>0, <2>3, <2>4, <2>5 DEF PairingTypes
  <2>7. PairingTypes'
    BY Zenon, <1>0, <2>1, <2>6 DEF PairingTypes
  <2>8. \A h \in Goroutine : choice'[h] # None => server[h[1]] # None /\ choice'[h].server = server[h[1]]
    BY Zenon, <1>0, <2>3, <2>4, <2>6 DEF Waiters
  <2>9. ASSUME NEW h \in Goroutine, gpc[h] = "persist" PROVE choice'[waits[h]] # None
    <3>1. waits[h] # None /\ choice[waits[h]] # None
      BY Zenon, <1>0, <2>9 DEF Waiters
    <3>2. waits[h] \in Goroutine /\ waits[h] # g
      BY Zenon, <1>0, <2>1, <2>9, <3>1 DEF PairingTypes, g
    <3> QED
      BY Zenon, <2>6, <3>1, <3>2
  <2>10. Waiters' /\ Served'
    BY Zenon, <1>0, <2>1, <2>6, <2>8, <2>9 DEF Waiters, Served
  <2> QED
    BY Zenon, <2>7, <2>10 DEF PairingInv
<1>21. ASSUME NEW g \in Goroutine, WaitEnds(g) PROVE PairingInv'
  <2>1. /\ gpc[g] = "wait" /\ gpc[g] # "new" /\ source' = source /\ hub' = [hub EXCEPT ![g[1]] = None]
        /\ UNCHANGED <<jobs, edit, server, choice, waits>>
    BY Zenon, <1>21 DEF WaitEnds, ClearPairing
  <2>2. waits[g] # None
    BY Zenon, <1>0, <2>1 DEF Waiters
  <2>3. CASE choice[waits[g]] # None /\ Goto(g, "persist")
    BY Zenon, <1>0, <2>1, <2>2, <2>3, WaitMoves
  <2>4. CASE Goto(g, "clear")
    BY Zenon, <1>0, <1>16, <2>1, <2>4
  <2> QED
    BY Zenon, <1>21, <2>3, <2>4 DEF WaitEnds, TakeChoice
<1>22. ASSUME NEW g \in Goroutine, Persist(g) PROVE PairingInv'
  <2>1. /\ gpc[g] = "persist" /\ gpc[g] # "new" /\ Goto(g, "clear") /\ hub' = hub
        /\ UNCHANGED <<jobs, edit, server, choice, waits>>
    BY Zenon, <1>22 DEF Persist
  <2>2. source' = [source EXCEPT !.pairing = choice[waits[g]]] \/ source' = source
    BY Zenon, <1>22 DEF Persist
  <2>3. waits[g] \in Goroutine
    BY Zenon, <1>0, <2>1, WaiterOfGoroutine
  <2>4. choice[waits[g]] \in Fingerprint \cup {None}
    BY Zenon, <1>0, <2>3 DEF PairingTypes
  <2>5. source' \in Source /\ source'.identity = source.identity
    BY Zenon, <1>0, <2>2, <2>4 DEF Source
  <2> QED
    BY Zenon, <1>16, <2>1, <2>5
<1>23. ASSUME NEW g \in Goroutine, DeferredClear(g) PROVE PairingInv'
  <2>1. gpc[g] # "new"
    BY Zenon, <1>23 DEF DeferredClear
  <2> QED
    BY Zenon, <1>0, <1>16, <1>23, <2>1 DEF DeferredClear, ClearPairing
<1>24. CASE UNCHANGED vars
  <2>1. UNCHANGED <<source, jobs, edit, server, hub, choice, waits, gpc>>
    BY Zenon, <1>24 DEF vars, run
  <2> QED
    BY Zenon, <1>0, <2>1 DEF PairingInv, PairingTypes, Waiters, Served
<1>25. ASSUME NEW j \in JobId, EndRun(j) PROVE PairingInv'
  <2>1. UNCHANGED <<source, jobs, edit, server, choice, waits, gpc>> /\ ClearPairing(j)
    BY Zenon, <1>25 DEF EndRun
  <2>2. \A i \in JobId : jobs[i].status = "running" => jobs[i].status \in Pending
    BY Zenon DEF Pending
  <2> QED
    BY Zenon, <1>0, <1>c, <2>1, <2>2, JobMoves DEF PairingTypes
<1> QED
  BY Zenon, <1>2, <1>3, <1>4, <1>7, <1>8, <1>9, <1>10, <1>11, <1>12, <1>13, <1>14, <1>15, <1>17,
     <1>18, <1>19, <1>20, <1>21, <1>22, <1>23, <1>24, <1>25 DEF Next, Edit, Job, Wait, Leaving

\* Nothing has been built, shown or chosen at the start.
LEMMA PairingStarts == Init => PairingInv
<1> SUFFICES ASSUME Init PROVE PairingInv
  BY Zenon
<1>1. source \in Source
  BY Zenon DEF Init, Source
<1>2. PairingTypes
  BY Zenon, <1>1 DEF Init, PairingTypes
<1>3. Waiters
  BY Zenon DEF Init, Waiters
<1>4. Served
  BY Zenon DEF Init, Served
<1> QED
  BY Zenon, <1>2, <1>3, <1>4 DEF PairingInv

\* What Waiters and Served say of jobs, goroutines and the source is true for any number
\* of servers, conversations, edits, jobs and challenges.
THEOREM PairingInvariantHolds == Spec => []PairingInv
  BY PairingStarts, PairingInductive, PTL DEF Spec

\* Outside an edit the pairing changes only to what the operator chose in a run that
\* nothing has overtaken, and a choice once taken is never replaced: a waiter's channel
\* holds one choice, and SystemPersistOTPSourcePairing checks the job and its user.
THEOREM ChoicesAreKept == Spec => OnlyTheChoiceIsKept
<1> DEFINE Kept == /\ source'.pairing # source.pairing /\ edit' = edit =>
                        \E g, w \in Goroutine :
                          /\ source'.pairing = choice[w] /\ w[1] = g[1] /\ gpc[g] = "persist"
                          /\ ~jobs[g[1]].cancel /\ user = "active"
                   /\ \A g \in Goroutine : choice[g] # None => choice'[g] = choice[g]
<1>1. ASSUME PairingInv, [Next]_vars PROVE [Kept]_vars
  <2> SUFFICES ASSUME Next PROVE Kept
    BY Zenon, <1>1
  <2>0. PairingTypes /\ Waiters
    BY Zenon, <1>1 DEF PairingInv
  <2>1. ASSUME source' = source, choice' = choice PROVE Kept
    BY Zenon, <2>1
  <2>2. ASSUME NEW e \in Editor, UpdateOTPSource(e) PROVE Kept
    <3>1. edit' # edit
      <4>1. edit[e].pc = "write" /\ edit'[e] = Idle /\ Idle.pc = "idle"
        BY Zenon, <2>0, <2>2, EditMoves DEF UpdateOTPSource, Idle
      <4> QED
        BY Zenon, <4>1
    <3>2. choice' = choice
      BY Zenon, <2>2 DEF UpdateOTPSource, run
    <3> QED
      BY Zenon, <3>1, <3>2
  <2>3. ASSUME NEW g \in Goroutine, Persist(g) PROVE Kept
    <3>1. gpc[g] = "persist" /\ choice' = choice
      BY Zenon, <2>3 DEF Persist
    <3>2. CASE MayPersist(g[1]) /\ source' = [source EXCEPT !.pairing = choice[waits[g]]]
      <4>1. source'.pairing = choice[waits[g]]
        BY Zenon, <2>0, <3>2 DEF PairingTypes, Source
      <4>2. waits[g] \in Goroutine /\ waits[g][1] = g[1]
        BY Zenon, <2>0, <3>1, WaiterOfGoroutine
      <4> QED
        BY Zenon, <3>1, <3>2, <4>1, <4>2 DEF MayPersist
    <3>3. CASE source' = source
      BY Zenon, <2>1, <3>1, <3>3
    <3> QED
      BY Zenon, <2>3, <3>2, <3>3 DEF Persist
  <2>4. ASSUME NEW j \in JobId, ChoosePairing(j) PROVE Kept
    <3>1. source' = source
      BY Zenon, <2>4 DEF ChoosePairing
    <3>2. ASSUME NEW h \in Goroutine, choice[h] # None PROVE choice'[h] = choice[h]
      BY Zenon, <2>0, <2>4, <3>2 DEF ChoosePairing, PairingTypes
    <3> QED
      BY Zenon, <3>1, <3>2
  <2>5. ASSUME NEW e \in Editor, ReadCurrent(e) \/ SourceInput(e) \/ ReadExisting(e) PROVE Kept
    BY Zenon, <2>1, <2>5 DEF ReadCurrent, SourceInput, ReadExisting, run
  <2>6. ASSUME NEW j \in JobId, QueuePairing(j) \/ Execute(j) \/ ProviderForSource(j) \/ Finish(j) \/ CancelJob(j)
                                  \/ EndRun(j)
        PROVE  Kept
    BY Zenon, <2>1, <2>6 DEF QueuePairing, Execute, ProviderForSource, Finish, CancelJob, EndRun, run
  <2>7. ASSUME NEW g \in Goroutine,
               \/ StartChallenge(g) \/ ChallengeEnds(g) \/ SetPairingCandidates(g) \/ ScanFails(g)
               \/ WaitPairing(g) \/ WaitEnds(g) \/ DeferredClear(g)
        PROVE  Kept
    BY Zenon, <2>1, <2>7 DEF StartChallenge, ChallengeEnds, SetPairingCandidates, ScanFails, WaitPairing, WaitEnds,
       DeferredClear
  <2>8. CASE Disable \/ Enable \/ Crash
    BY Zenon, <2>1, <2>8 DEF Disable, Enable, Crash, run
  <2> HIDE DEF Kept
  <2> QED
    BY Zenon, <2>2, <2>3, <2>4, <2>5, <2>6, <2>7, <2>8 DEF Next, Edit, Job, Wait, Leaving
<1> QED
  BY <1>1, PairingInvariantHolds, PTL DEF Spec, OnlyTheChoiceIsKept

\* The choice a running goroutine may persist names the server of the source.
LEMMA ChoiceBelongs ==
  ASSUME PairingInv, NEW g \in Goroutine, gpc[g] = "persist", MayPersist(g[1])
  PROVE  choice[waits[g]] # None /\ choice[waits[g]].server = source.identity
<1>1. waits[g] \in Goroutine /\ waits[g][1] = g[1] /\ choice[waits[g]] # None
  BY Zenon, WaiterOfGoroutine DEF PairingInv
<1>2. server[g[1]] # None /\ choice[waits[g]].server = server[g[1]]
  BY Zenon, <1>1 DEF PairingInv, Waiters
<1>3. server[g[1]] = source.identity
  BY Zenon, <1>2, JobOfGoroutine DEF PairingInv, Served, MayPersist
<1> QED
  BY Zenon, <1>1, <1>2, <1>3

\* Only an edit and a goroutine's commit change the source.
LEMMA SourceChanges ==
  ASSUME Next, source' # source
  PROVE  \/ \E e \in Editor : UpdateOTPSource(e)
         \/ \E g \in Goroutine : /\ Persist(g) /\ gpc[g] = "persist" /\ MayPersist(g[1]) /\ edit' = edit
                                 /\ source' = [source EXCEPT !.pairing = choice[waits[g]]]
<1>1. ASSUME NEW e \in Editor PROVE ~ReadCurrent(e) /\ ~SourceInput(e) /\ ~ReadExisting(e)
  BY Zenon DEF ReadCurrent, SourceInput, ReadExisting
<1>2. ASSUME NEW j \in JobId
      PROVE  /\ ~QueuePairing(j) /\ ~Execute(j) /\ ~ProviderForSource(j) /\ ~Finish(j)
             /\ ~CancelJob(j) /\ ~EndRun(j) /\ ~ChoosePairing(j)
  BY Zenon DEF QueuePairing, Execute, ProviderForSource, Finish, CancelJob, EndRun, ChoosePairing
<1>3. ASSUME NEW g \in Goroutine
      PROVE  /\ ~StartChallenge(g) /\ ~ChallengeEnds(g) /\ ~SetPairingCandidates(g) /\ ~ScanFails(g)
             /\ ~WaitPairing(g) /\ ~WaitEnds(g) /\ ~DeferredClear(g)
  BY Zenon DEF StartChallenge, ChallengeEnds, SetPairingCandidates, ScanFails, WaitPairing, WaitEnds, DeferredClear
<1>4. ~Disable /\ ~Enable /\ ~Crash
  BY Zenon DEF Disable, Enable, Crash
<1>5. (\E e \in Editor : UpdateOTPSource(e)) \/ (\E g \in Goroutine : Persist(g))
  BY Zenon, <1>1, <1>2, <1>3, <1>4 DEF Next, Edit, Job, Wait, Leaving
<1> QED
  BY Zenon, <1>5 DEF Persist

\* A run stores the pairing of the inbox it searched, and that inbox is still the one of
\* the source: UpdateOTPSource leaves a source with a pending job alone.
THEOREM PersistedPairingsBelong == Spec => PersistedWhereFound
<1>1. ASSUME PairingInv, [Next]_vars
      PROVE  [source'.pairing # source.pairing /\ edit' = edit =>
                source'.pairing # None /\ source'.pairing.server = source'.identity]_vars
  <2> SUFFICES ASSUME Next, source' # source, edit' = edit
               PROVE  source'.pairing # None /\ source'.pairing.server = source'.identity
    BY Zenon, <1>1
  <2>1. ASSUME NEW e \in Editor, UpdateOTPSource(e) PROVE FALSE
    <3>1. edit[e].pc = "write" /\ edit'[e] = Idle /\ Idle.pc = "idle"
      BY Zenon, <1>1, <2>1, EditMoves DEF UpdateOTPSource, Idle, PairingInv
    <3> QED
      BY Zenon, <3>1
  <2>2. PICK g \in Goroutine : /\ gpc[g] = "persist" /\ MayPersist(g[1])
                               /\ source' = [source EXCEPT !.pairing = choice[waits[g]]]
    BY Zenon, <2>1, SourceChanges
  <2>3. source'.pairing = choice[waits[g]] /\ source'.identity = source.identity
    BY Zenon, <1>1, <2>2 DEF PairingInv, PairingTypes, Source
  <2> QED
    BY Zenon, <1>1, <2>2, <2>3, ChoiceBelongs
<1> QED
  BY <1>1, PairingInvariantHolds, PTL DEF Spec, PersistedWhereFound

-----------------------------------------------------------------------------
(* BlueBubbles. *)

BBTypes ==
  /\ rows \in Seq(Row) /\ now \in 1 + Freshness .. MaxTime /\ pairing \in BOOLEAN
  /\ pc \in {"idle", "armed", "fetch", "sleep", "done", "failed"}
  /\ freshAfter \in Nat /\ cursor \in Nat /\ armedLen \in 0 .. Len(rows)

\* After Arm the rows above the cursor that were there already are of other chats; what
\* fetchAfter holds has come since; only the end of the wait has candidates.
Fetched ==
  /\ pc \in {"armed", "fetch", "sleep"} => freshAfter > 0
  /\ \A i \in cursor + 1 .. armedLen : ~(pairing \/ rows[i].own)
  /\ all \subseteq armedLen + 1 .. Len(rows) /\ (pc = "idle" => all = {})
  /\ candidates \subseteq DOMAIN rows /\ (pc # "done" => candidates = {})

BBInv == BBTypes /\ Fetched

\* What OtpProvider sees of the provider: the accepted messages, how far the wait is and
\* the row it answers with.
Wanted == {m \in Row : freshAfter > 0 /\ m.code /\ m.at >= freshAfter /\ (pairing \/ m.own)}
Outcome == IF pc = "done" THEN "code" ELSE IF pc \in {"idle", "failed"} THEN pc ELSE "armed"
Answer == IF candidates = {} THEN 0 ELSE Newest(candidates)

\* A nonempty set of numbers below a bound has a greatest one.
LEMMA HighestExists ==
  ASSUME NEW T \in SUBSET Nat, T # {}, NEW b \in Nat, \A y \in T : y <= b
  PROVE  \E x \in T : \A y \in T : y <= x
<1> DEFINE below == {d \in Nat : \E y \in T : d = b - y}
<1>1. \A y \in T : b - y \in below
  OBVIOUS
<1>2. below \subseteq Nat /\ below # {}
  BY Zenon, <1>1
<1>3. PICK d \in below : \A e \in below : <<e, d>> \notin OpToRel(<, Nat)
  BY Zenon, <1>2, NatLessThanWellFounded, WFMin
<1>4. PICK x \in T : d = b - x
  BY Zenon
<1>5. ASSUME NEW y \in T PROVE y <= x
  <2> DEFINE e == b - y
  <2>1. e \in Nat /\ d \in Nat /\ e \in below
    BY Zenon, <1>1
  <2>2. ~(e < d)
    BY Zenon, <1>3, <2>1 DEF OpToRel
  <2>3. e \in Nat /\ d \in Nat /\ ~(e < d)
    BY Zenon, <2>1, <2>2
  <2> QED
    BY <1>4, <2>3
<1> QED
  BY Zenon, <1>5

\* Highest is the last row of a query, or the cursor it started from.
LEMMA HighestIsLast ==
  ASSUME NEW s \in SUBSET Nat, NEW b \in Nat, \A y \in s : y <= b, NEW floor \in Nat
  PROVE  /\ Highest(s, floor) \in Nat /\ floor <= Highest(s, floor)
         /\ \A i \in s : i <= Highest(s, floor)
<1>1. CASE \E i \in s : i > floor
  <2> DEFINE m == CHOOSE i \in s : \A j \in s : j <= i
  <2>1. m \in s /\ \A j \in s : j <= m
    <3>1. \E i \in s : \A j \in s : j <= i
      BY Zenon, <1>1, HighestExists
    <3> QED
      BY Zenon, <3>1
  <2>2. Highest(s, floor) = m
    BY Zenon, <1>1 DEF Highest
  <2> HIDE DEF m
  <2>3. m \in Nat /\ floor <= m
    BY <1>1, <2>1
  <2> QED
    BY Zenon, <2>1, <2>2, <2>3
<1>2. CASE ~\E i \in s : i > floor
  <2>1. Highest(s, floor) = floor
    BY Zenon, <1>2 DEF Highest
  <2>2. floor <= floor /\ \A i \in s : i <= floor
    BY <1>2
  <2> QED
    BY Zenon, <2>1, <2>2
<1> QED
  BY Zenon, <1>1, <1>2

\* The order of otp.Select among the rows of an inbox.
After(inbox, i, j) == inbox[i].at > inbox[j].at \/ (inbox[i].at = inbox[j].at /\ i > j)
Leads(inbox, c, i) == i \in c /\ \A j \in c \ {i} : After(inbox, i, j)

\* Of some rows, Select puts one first.
LEMMA OneLeads ==
  ASSUME NEW inbox \in Seq(Row), NEW c \in SUBSET DOMAIN inbox, c # {}
  PROVE  \E i \in c : Leads(inbox, c, i)
<1>0. c \subseteq Nat /\ Len(inbox) \in Nat /\ \A i \in c : inbox[i] \in Row /\ i <= Len(inbox)
  OBVIOUS
<1>a. MaxTime \in Nat
  BY Zenon, BlueBubblesAssumption DEF BlueBubblesAssumption
<1>1. \A i \in c : inbox[i].at \in Nat /\ inbox[i].at <= MaxTime
  <2>1. \A i \in c : inbox[i].at \in 1 .. MaxTime
    BY Zenon, <1>0 DEF Row
  <2> QED
    BY <1>a, <2>1
<1> DEFINE times == {t \in Nat : \E i \in c : inbox[i].at = t}
<1>2. times \in SUBSET Nat /\ times # {} /\ \A t \in times : t <= MaxTime
  BY Zenon, <1>1
<1>3. PICK t \in times : \A u \in times : u <= t
  BY Zenon, <1>a, <1>2, HighestExists
<1> DEFINE latest == {i \in c : inbox[i].at = t}
<1>4. latest \in SUBSET Nat /\ latest # {} /\ \A i \in latest : i <= Len(inbox)
  BY Zenon, <1>0
<1>5. PICK i \in latest : \A j \in latest : j <= i
  BY Zenon, <1>0, <1>4, HighestExists
<1>6. ASSUME NEW j \in c, j # i PROVE After(inbox, i, j)
  <2>1. inbox[i].at = t /\ inbox[j].at <= t /\ (inbox[j].at = t => j <= i)
    BY Zenon, <1>1, <1>3, <1>5
  <2>2. i \in Nat /\ j \in Nat /\ t \in Nat /\ inbox[j].at \in Nat
    BY Zenon, <1>0, <1>1, <1>5
  <2> QED
    BY <1>6, <2>1, <2>2 DEF After
<1> QED
  BY Zenon, <1>5, <1>6 DEF Leads

\* Only one can be first.
LEMMA OnlyOneLeads ==
  ASSUME NEW inbox \in Seq(Row), NEW c \in SUBSET DOMAIN inbox, NEW a \in c, NEW b \in c,
         Leads(inbox, c, a), Leads(inbox, c, b)
  PROVE  a = b
<1> SUFFICES ASSUME a # b PROVE FALSE
  BY Zenon
<1>1. After(inbox, a, b) /\ After(inbox, b, a)
  BY Zenon DEF Leads
<1>2. inbox[a] \in Row /\ inbox[b] \in Row /\ a \in Nat /\ b \in Nat
  OBVIOUS
<1>3. inbox[a].at \in 1 .. MaxTime /\ inbox[b].at \in 1 .. MaxTime /\ MaxTime \in Nat
  BY Zenon, <1>2, BlueBubblesAssumption DEF Row, BlueBubblesAssumption
<1> QED
  BY <1>1, <1>2, <1>3 DEF After

\* Newest is the first of Select.
LEMMA NewestLeads ==
  ASSUME rows \in Seq(Row), NEW c \in SUBSET DOMAIN rows, c # {}
  PROVE  Newest(c) \in c /\ Leads(rows, c, Newest(c))
<1>1. \E i \in c : \A j \in c \ {i} : Newer(i, j)
  BY Zenon, OneLeads DEF Leads, After, Newer
<1>2. Newest(c) \in c /\ \A j \in c \ {Newest(c)} : Newer(Newest(c), j)
  BY Zenon, <1>1 DEF Newest
<1> QED
  BY Zenon, <1>2 DEF Leads, After, Newer

\* It stays first when other rows arrive.
LEMMA NewestStays ==
  ASSUME rows \in Seq(Row), rows' \in Seq(Row), NEW c \in SUBSET DOMAIN rows, c # {},
         c \in SUBSET DOMAIN rows', \A i \in c : rows'[i] = rows[i]
  PROVE  Newest(c)' = Newest(c)
<1>1. Newest(c) \in c /\ Leads(rows, c, Newest(c))
  BY Zenon, NewestLeads
<1>2. Newest(c)' \in c /\ Leads(rows', c, Newest(c)')
  <2>1. \E i \in c : \A j \in c \ {i} : Newer(i, j)'
    BY Zenon, OneLeads DEF Leads, After, Newer
  <2> DEFINE b == Newest(c)'
  <2>2. b \in c /\ \A j \in c \ {b} : After(rows', b, j)
    BY Zenon, <2>1 DEF Newest, Newer, After
  <2> QED
    BY Zenon, <2>2 DEF Leads
<1> DEFINE a == Newest(c)
           b == Newest(c)'
<1> HIDE DEF a, b
<1>3. Leads(rows, c, b)
  BY Zenon, <1>2 DEF Leads, After, b
<1> QED
  BY Zenon, <1>1, <1>2, <1>3, OnlyOneLeads DEF a, b

\* The answers to a query are rows of the chat above the cursor.
LEMMA QueryRows ==
  ASSUME BBTypes, NEW min \in Nat
  PROVE  /\ Query(min) \in SUBSET Nat
         /\ \A i \in Query(min) : i \in DOMAIN rows /\ min < i /\ i <= Len(rows) /\ (pairing \/ rows[i].own)
         /\ \A i \in DOMAIN rows : min < i /\ (pairing \/ rows[i].own) => i \in Query(min)
<1>1. rows \in Seq(Row)
  BY Zenon DEF BBTypes
<1> QED
  BY <1>1 DEF Query

\* What a page adds to what fetchAfter has came after Arm.
LEMMA PageRows ==
  ASSUME BBInv, pc = "fetch", NEW offset
  PROVE  all \cup PageOf(Query(cursor), offset) \subseteq armedLen + 1 .. Len(rows)
<1>1. cursor \in Nat /\ armedLen \in Nat /\ Len(rows) \in Nat /\ BBTypes
  BY DEF BBInv, BBTypes
<1>2. ASSUME NEW i \in Query(cursor) PROVE i \in armedLen + 1 .. Len(rows)
  <2>1. i \in Nat /\ cursor < i /\ i <= Len(rows) /\ (pairing \/ rows[i].own)
    BY Zenon, <1>1, <1>2, QueryRows
  <2>2. i \notin cursor + 1 .. armedLen
    BY Zenon, <2>1 DEF BBInv, Fetched
  <2> QED
    BY <1>1, <2>1, <2>2
<1>3. PageOf(Query(cursor), offset) \subseteq Query(cursor)
  BY Zenon DEF PageOf
<1> QED
  BY Zenon, <1>2, <1>3 DEF BBInv, Fetched

\* A position holds a row.
LEMMA RowsAreRows == \A s \in Seq(Row) : \A i \in DOMAIN s : s[i] \in Row
  OBVIOUS

\* Fewer rows lie above a higher cursor.
LEMMA LaterRows == \A a, b, n \in Nat : a <= b => b + 1 .. n \subseteq a + 1 .. n
  OBVIOUS

\* A row is appended with a date the inbox can show.
LEMMA RowArrives ==
  ASSUME BBInv, Deliver
  PROVE  /\ \E m \in Row : rows' = Append(rows, m)
         /\ rows' \in Seq(Row) /\ Len(rows') = Len(rows) + 1 /\ Len(rows) \in Nat
         /\ DOMAIN rows \subseteq DOMAIN rows' /\ \A i \in DOMAIN rows : rows'[i] = rows[i]
<1>1. PICK own \in BOOLEAN, code \in BOOLEAN, lag \in Lags :
         lag < now /\ rows' = Append(rows, [own |-> own, code |-> code, at |-> now - lag])
  BY Zenon DEF Deliver
<1>2. /\ Freshness \in Nat /\ MaxTime \in Nat /\ now \in 1 + Freshness .. MaxTime
      /\ lag \in Nat /\ lag < now
  BY Zenon, <1>1, BlueBubblesAssumption DEF BlueBubblesAssumption, BBInv, BBTypes
<1>3. now - lag \in 1 .. MaxTime
  BY <1>2
<1> DEFINE m == [own |-> own, code |-> code, at |-> now - lag]
<1>4. m \in Row
  BY Zenon, <1>3 DEF Row
<1>5. rows \in Seq(Row) /\ rows' = Append(rows, m)
  BY Zenon, <1>1 DEF BBInv, BBTypes
<1> HIDE DEF m
<1>6. /\ rows' \in Seq(Row) /\ Len(rows') = Len(rows) + 1 /\ Len(rows) \in Nat
      /\ DOMAIN rows \subseteq DOMAIN rows' /\ \A i \in DOMAIN rows : rows'[i] = rows[i]
  BY <1>4, <1>5
<1> QED
  BY Zenon, <1>4, <1>5, <1>6

\* Every step keeps the invariant.
LEMMA BBInductive ==
  ASSUME BBInv, [BBNext]_bbVars
  PROVE  BBInv'
<1>0. /\ BBTypes /\ Fetched /\ rows \in Seq(Row) /\ now \in 1 + Freshness .. MaxTime /\ pairing \in BOOLEAN
      /\ freshAfter \in Nat /\ cursor \in Nat /\ armedLen \in 0 .. Len(rows)
      /\ pc \in {"idle", "armed", "fetch", "sleep", "done", "failed"}
  BY Zenon DEF BBInv, BBTypes
<1>1. Freshness \in Nat /\ MaxTime \in Nat /\ Len(rows) \in Nat
  BY <1>0, BlueBubblesAssumption DEF BlueBubblesAssumption
<1>2. CASE Deliver
  <2>1. UNCHANGED <<now, pairing, pc, freshAfter, cursor, page, all, seen, candidates, armedLen>>
    BY Zenon, <1>2 DEF Deliver, wait
  <2>2. /\ rows' \in Seq(Row) /\ Len(rows') = Len(rows) + 1 /\ DOMAIN rows \subseteq DOMAIN rows'
        /\ \A i \in DOMAIN rows : rows'[i] = rows[i]
    BY Zenon, <1>2, RowArrives
  <2>3. armedLen \in 0 .. Len(rows') /\ armedLen + 1 .. Len(rows) \subseteq armedLen + 1 .. Len(rows')
    BY <1>0, <1>1, <2>2
  <2>4. \A i \in cursor + 1 .. armedLen : rows'[i] = rows[i]
    BY <1>0, <1>1, <2>2
  <2>5. BBTypes'
    BY Zenon, <1>0, <2>1, <2>2, <2>3 DEF BBTypes
  <2>6. Fetched'
    BY Zenon, <1>0, <2>1, <2>2, <2>3, <2>4 DEF Fetched
  <2> QED
    BY Zenon, <2>5, <2>6 DEF BBInv
<1>3. CASE Tick
  <2>1. UNCHANGED <<rows, pairing, pc, freshAfter, cursor, page, all, seen, candidates, armedLen>>
    BY Zenon, <1>3 DEF Tick, wait
  <2>2. now' \in 1 + Freshness .. MaxTime
    BY <1>0, <1>1, <1>3 DEF Tick
  <2> QED
    BY Zenon, <1>0, <2>1, <2>2 DEF BBInv, BBTypes, Fetched
<1>4. CASE Arm
  <2>1. /\ pc = "idle" /\ pc' = "armed" /\ freshAfter' = now - Freshness /\ cursor' = Highest(Query(0), 0)
        /\ armedLen' = Len(rows) /\ UNCHANGED <<rows, now, pairing, page, all, seen, candidates>>
    BY Zenon, <1>4 DEF Arm, wait
  <2>2. freshAfter' \in Nat /\ freshAfter' > 0 /\ armedLen' \in 0 .. Len(rows)
    BY <1>0, <1>1, <2>1
  <2>3. cursor' \in Nat /\ \A i \in Query(0) : i <= cursor'
    <3>1. 0 \in Nat
      BY Zenon
    <3>2. Query(0) \in SUBSET Nat /\ \A i \in Query(0) : i <= Len(rows)
      BY Zenon, <1>0, <3>1, QueryRows
    <3> QED
      BY Zenon, <1>1, <2>1, <3>1, <3>2, HighestIsLast
  <2>4. ASSUME NEW i \in cursor' + 1 .. armedLen' PROVE ~(pairing \/ rows[i].own)
    <3>1. i \in DOMAIN rows /\ 0 < i /\ ~(i <= cursor')
      BY <1>0, <1>1, <2>1, <2>3, <2>4
    <3>2. i \notin Query(0)
      BY Zenon, <2>3, <3>1
    <3>3. 0 \in Nat
      BY Zenon
    <3> QED
      BY Zenon, <1>0, <3>1, <3>2, <3>3, QueryRows
  <2>5. pc' # "idle" /\ pc' # "done" /\ pc # "done" /\ pc' \in {"idle", "armed", "fetch", "sleep", "done", "failed"}
    BY Zenon, <2>1
  <2>6. all' = {} /\ candidates' = {}
    BY Zenon, <1>0, <2>1, <2>5 DEF Fetched
  <2>7. BBTypes'
    BY Zenon, <1>0, <2>1, <2>2, <2>3, <2>5 DEF BBTypes
  <2>8. Fetched'
    BY Zenon, <2>1, <2>2, <2>4, <2>5, <2>6 DEF Fetched
  <2> QED
    BY Zenon, <2>7, <2>8 DEF BBInv
<1>5. ASSUME pc # "idle", pc # "done", NEW place \in {"fetch", "sleep", "failed"}, pc' = place,
             pc \in {"armed", "fetch", "sleep"},
             UNCHANGED <<rows, now, pairing, freshAfter, candidates, armedLen>>,
             cursor' \in Nat, cursor <= cursor', all' = {} \/ all' \subseteq armedLen + 1 .. Len(rows)
      PROVE  BBInv'
  <2>1. /\ place \in {"idle", "armed", "fetch", "sleep", "done", "failed"} /\ place # "done" /\ place # "idle"
        /\ freshAfter > 0
    BY Zenon, <1>0, <1>5 DEF Fetched
  <2>2. cursor' + 1 .. armedLen \subseteq cursor + 1 .. armedLen
    <3>1. armedLen \in Nat
      BY <1>0
    <3> QED
      BY Zenon, <1>0, <1>5, <3>1, LaterRows
  <2>3. UNCHANGED <<rows, now, pairing, freshAfter, candidates, armedLen>>
    BY Zenon, <1>5
  <2>4. BBTypes'
    BY Zenon, <1>0, <1>5, <2>1, <2>3 DEF BBTypes
  <2>5. all' \subseteq armedLen + 1 .. Len(rows) /\ candidates = {}
    BY Zenon, <1>0, <1>5 DEF Fetched
  <2>6. \A i \in cursor' + 1 .. armedLen : ~(pairing \/ rows[i].own)
    BY Zenon, <1>0, <2>2 DEF Fetched
  <2>7. pc' # "idle" /\ pc' # "done" /\ {} \subseteq DOMAIN rows
    BY Zenon, <1>5, <2>1
  <2>8. Fetched'
    BY Zenon, <2>1, <2>3, <2>5, <2>6, <2>7 DEF Fetched
  <2> QED
    BY Zenon, <2>4, <2>8 DEF BBInv
<1>6. CASE StartPoll
  <2>1. pc # "idle" /\ pc # "done" /\ pc \in {"armed", "fetch", "sleep"} /\ cursor <= cursor
    BY <1>0, <1>6 DEF StartPoll
  <2> QED
    BY Zenon, <1>0, <1>5, <1>6, <2>1 DEF StartPoll
<1>7. CASE FetchPage
  <2> DEFINE q == Query(cursor)
             got == PageOf(q, page * PageLimit)
  <2>1. /\ pc = "fetch" /\ UNCHANGED <<rows, now, pairing, freshAfter, armedLen>>
        /\ pc # "idle" /\ pc # "done" /\ pc \in {"armed", "fetch", "sleep"} /\ cursor <= cursor
    BY <1>0, <1>7 DEF FetchPage
  <2>2. all \cup got \subseteq armedLen + 1 .. Len(rows) /\ all \subseteq armedLen + 1 .. Len(rows)
    BY Zenon, <1>0, <2>1, PageRows DEF Fetched
  <2>3. \/ pc' = "failed" /\ UNCHANGED <<cursor, wait>>
        \/ Selected(all \cup got) /\ UNCHANGED <<page, all>>
        \/ page' = page + 1 /\ all' = all \cup got /\ UNCHANGED <<pc, cursor, seen, candidates>>
    BY Zenon, <1>7 DEF FetchPage
  <2> HIDE DEF got, q
  <2>4. CASE pc' = "failed" /\ UNCHANGED <<cursor, wait>>
    BY Zenon, <1>0, <1>5, <2>1, <2>2, <2>4 DEF wait
  <2>5. CASE page' = page + 1 /\ all' = all \cup got /\ UNCHANGED <<pc, cursor, seen, candidates>>
    BY Zenon, <1>0, <1>5, <2>1, <2>2, <2>5
  <2>6. CASE Selected(all \cup got) /\ UNCHANGED <<page, all>>
    <3> DEFINE g == all \cup got
               fresh == {i \in g \ seen : Match(i)}
    <3>1. /\ candidates' = fresh /\ cursor' = (IF fresh = {} THEN Highest(g, cursor) ELSE cursor)
          /\ pc' = (IF fresh = {} THEN "sleep" ELSE "done") /\ UNCHANGED all
      BY Zenon, <2>6 DEF Selected
    <3>2. g \in SUBSET Nat /\ (\A i \in g : i <= Len(rows)) /\ g \subseteq DOMAIN rows
      <4>1. g \subseteq armedLen + 1 .. Len(rows)
        BY Zenon, <2>2
      <4> HIDE DEF g
      <4> QED
        BY <1>0, <1>1, <4>1
    <3> HIDE DEF g
    <3>3. Highest(g, cursor) \in Nat /\ cursor <= Highest(g, cursor)
      BY Zenon, <1>0, <1>1, <3>2, HighestIsLast
    <3>4. CASE fresh = {}
      <4>1. pc' = "sleep" /\ cursor' = Highest(g, cursor) /\ candidates' = {} /\ candidates = {}
        BY Zenon, <1>0, <2>1, <3>1, <3>4 DEF Fetched
      <4> QED
        BY Zenon, <1>5, <2>1, <2>2, <3>1, <3>3, <4>1
    <3>5. CASE fresh # {}
      <4>1. pc' = "done" /\ cursor' = cursor /\ candidates' \subseteq DOMAIN rows
        BY Zenon, <3>1, <3>2, <3>5
      <4>2. pc' # "idle" /\ pc' \notin {"armed", "fetch", "sleep"}
            /\ pc' \in {"idle", "armed", "fetch", "sleep", "done", "failed"}
        BY Zenon, <4>1
      <4>3. BBTypes'
        BY Zenon, <1>0, <2>1, <4>1, <4>2 DEF BBTypes
      <4>4. Fetched'
        BY Zenon, <1>0, <2>1, <3>1, <4>1, <4>2 DEF Fetched
      <4> QED
        BY Zenon, <4>3, <4>4 DEF BBInv
    <3> QED
      BY Zenon, <3>4, <3>5
  <2> QED
    BY Zenon, <2>3, <2>4, <2>5, <2>6
<1>8. CASE Fail
  <2>1. /\ pc' = "failed" /\ pc # "done"
        /\ UNCHANGED <<rows, now, pairing, freshAfter, cursor, page, all, seen, candidates, armedLen>>
    BY Zenon, <1>8 DEF Fail, wait
  <2>2. pc' # "done" /\ pc' # "idle" /\ pc' \notin {"armed", "fetch", "sleep"}
        /\ pc' \in {"idle", "armed", "fetch", "sleep", "done", "failed"}
    BY Zenon, <2>1
  <2> QED
    BY Zenon, <1>0, <2>1, <2>2 DEF BBInv, BBTypes, Fetched
<1>9. CASE UNCHANGED bbVars
  <2>1. UNCHANGED <<rows, now, pairing, pc, freshAfter, cursor, page, all, seen, candidates, armedLen>>
    BY Zenon, <1>9 DEF bbVars, wait
  <2> QED
    BY Zenon, <1>0, <2>1 DEF BBInv, BBTypes, Fetched
<1> QED
  BY Zenon, <1>2, <1>3, <1>4, <1>6, <1>7, <1>8, <1>9 DEF BBNext

\* What Fetched says of the cursor, the pages and the candidates is true for every length
\* of the pages, of the window and of the freshness.
THEOREM BBInvariantHolds == BBSpec => []BBInv
<1>1. BBInit => BBInv
  <2> SUFFICES ASSUME BBInit PROVE BBInv
    OBVIOUS
  <2>1. /\ rows = <<>> /\ now = 1 + Freshness /\ pairing \in BOOLEAN /\ pc = "idle" /\ freshAfter = 0
        /\ cursor = 0 /\ all = {} /\ candidates = {} /\ armedLen = 0
    BY Zenon DEF BBInit
  <2>2. rows \in Seq(Row) /\ Len(rows) = 0
    BY <2>1
  <2>3. BBTypes
    BY <2>1, <2>2, BlueBubblesAssumption DEF BlueBubblesAssumption, BBTypes
  <2>4. cursor + 1 .. armedLen = {}
    BY <2>1
  <2>5. pc \notin {"armed", "fetch", "sleep"}
    BY Zenon, <2>1
  <2>6. Fetched
    BY Zenon, <2>1, <2>4, <2>5 DEF Fetched
  <2> QED
    BY Zenon, <2>3, <2>6 DEF BBInv
<1> QED
  BY <1>1, BBInductive, PTL DEF BBSpec

\* The answer stays as long as the candidates and their rows do.
LEMMA AnswerStays ==
  ASSUME BBInv, BBInv', candidates' = candidates, \A i \in DOMAIN rows : rows'[i] = rows[i]
  PROVE  Answer' = Answer
<1>1. CASE candidates = {}
  BY Zenon, <1>1 DEF Answer
<1>2. CASE candidates # {}
  <2>1. PICK c : c = candidates
    BY Zenon
  <2>2. c \in SUBSET DOMAIN rows /\ c \in SUBSET DOMAIN rows' /\ rows \in Seq(Row) /\ rows' \in Seq(Row)
    BY Zenon, <2>1 DEF BBInv, BBTypes, Fetched
  <2>3. Newest(c)' = Newest(c)
    BY Zenon, <1>2, <2>1, <2>2, NewestStays
  <2>4. Newest(candidates)' = Newest(c)'
    BY Zenon, <2>1 DEF Newest, Newer
  <2>5. Newest(candidates) = Newest(c)
    BY Zenon, <2>1
  <2> QED
    BY Zenon, <1>2, <2>1, <2>3, <2>4, <2>5 DEF Answer
<1> QED
  BY Zenon, <1>1, <1>2

\* What a step of the provider is to the coordinator.
ContractStep ==
  \/ (\E m \in Row : rows' = Append(rows, m)) /\ UNCHANGED <<Wanted, armedLen, Outcome, Answer>>
  \/ /\ Outcome = "idle" /\ Outcome' = "armed" /\ armedLen' = Len(rows) /\ Wanted' \in SUBSET Row
     /\ UNCHANGED <<rows, Answer>>
  \/ /\ Outcome = "armed" /\ Outcome' = "code"
     /\ \E i \in armedLen + 1 .. Len(rows) : rows[i] \in Wanted /\ Answer' = i
     /\ UNCHANGED <<rows, Wanted, armedLen>>
  \/ Outcome \in {"idle", "armed"} /\ Outcome' = "failed" /\ UNCHANGED <<rows, Wanted, armedLen, Answer>>
  \/ UNCHANGED <<rows, Wanted, armedLen, Outcome, Answer>>

\* Every step of the provider is one of the contract or none.
LEMMA StepsOfContract ==
  ASSUME BBInv, BBInv', [BBNext]_bbVars
  PROVE  ContractStep
<1>0. /\ pc = "idle" => Outcome = "idle"
      /\ pc \in {"armed", "fetch", "sleep"} => Outcome = "armed"
  BY Zenon DEF Outcome
<1>1. /\ pc' = "armed" \/ pc' = "fetch" \/ pc' = "sleep" => Outcome' = "armed"
      /\ pc' = "done" => Outcome' = "code"
      /\ pc' = "failed" => Outcome' = "failed"
  BY Zenon DEF Outcome
<1>2. ASSUME UNCHANGED <<freshAfter, pairing>> PROVE Wanted' = Wanted
  BY Zenon, <1>2 DEF Wanted
<1>3. ASSUME rows' = rows, candidates' = candidates PROVE Answer' = Answer
  BY Zenon, <1>3, AnswerStays
<1>4. CASE Deliver
  <2>1. UNCHANGED <<pairing, pc, freshAfter, candidates, armedLen>>
    BY Zenon, <1>4 DEF Deliver, wait
  <2>2. Answer' = Answer /\ \E m \in Row : rows' = Append(rows, m)
    BY Zenon, <1>4, <2>1, RowArrives, AnswerStays
  <2>3. Outcome' = Outcome
    BY Zenon, <2>1 DEF Outcome
  <2> QED
    BY Zenon, <1>2, <2>1, <2>2, <2>3 DEF ContractStep
<1>5. ASSUME UNCHANGED <<rows, pairing, freshAfter, candidates, armedLen>>, Outcome' = Outcome PROVE ContractStep
  BY Zenon, <1>2, <1>3, <1>5 DEF ContractStep
<1>6. ASSUME UNCHANGED <<rows, pairing, freshAfter, candidates, armedLen>>, Outcome \in {"idle", "armed"},
             Outcome' = "failed"
      PROVE  ContractStep
  BY Zenon, <1>2, <1>3, <1>6 DEF ContractStep
<1>7. CASE Tick
  BY Zenon, <1>5, <1>7 DEF Tick, wait, Outcome
<1>8. CASE Arm
  <2>1. pc = "idle" /\ pc' = "armed" /\ armedLen' = Len(rows) /\ rows' = rows /\ candidates' = candidates
    BY Zenon, <1>8 DEF Arm, wait
  <2>2. Wanted' \in SUBSET Row
    BY Zenon DEF Wanted, Row
  <2> QED
    BY Zenon, <1>0, <1>1, <1>3, <2>1, <2>2 DEF ContractStep
<1>9. CASE StartPoll
  <2>1. /\ pc \in {"armed", "fetch", "sleep"} /\ pc' = "fetch"
        /\ UNCHANGED <<rows, pairing, freshAfter, candidates, armedLen>>
    BY Zenon, <1>9 DEF StartPoll
  <2> QED
    BY Zenon, <1>0, <1>1, <1>5, <2>1
<1>10. CASE Fail
  <2>1. pc \in {"idle", "armed", "fetch", "sleep"} /\ pc' = "failed"
        /\ UNCHANGED <<rows, pairing, freshAfter, candidates, armedLen>>
    BY Zenon, <1>10 DEF Fail, wait
  <2>2. Outcome \in {"idle", "armed"}
    BY Zenon, <1>0, <2>1
  <2> QED
    BY Zenon, <1>1, <1>6, <2>1, <2>2
<1>11. CASE FetchPage
  <2> DEFINE got == PageOf(Query(cursor), page * PageLimit)
             g == all \cup got
             fresh == {i \in g \ seen : Match(i)}
  <2>1. pc = "fetch" /\ UNCHANGED <<rows, pairing, freshAfter, armedLen>> /\ Outcome = "armed"
    BY Zenon, <1>0, <1>11 DEF FetchPage
  <2>2. g \subseteq armedLen + 1 .. Len(rows)
    BY Zenon, <2>1, PageRows
  <2>3. \/ pc' = "failed" /\ UNCHANGED candidates
        \/ candidates' = fresh /\ pc' = IF fresh = {} THEN "sleep" ELSE "done"
        \/ pc' = pc /\ UNCHANGED candidates
    BY Zenon, <1>11 DEF FetchPage, Selected, wait
  <2> HIDE DEF g, got
  <2>4. CASE pc' = "failed" /\ UNCHANGED candidates
    BY Zenon, <1>1, <1>6, <2>1, <2>4
  <2>5. CASE pc' = pc /\ UNCHANGED candidates
    BY Zenon, <1>1, <1>5, <2>1, <2>5
  <2>6. CASE fresh = {} /\ candidates' = fresh /\ pc' = "sleep"
    <3>1. candidates = {}
      BY Zenon, <2>1 DEF BBInv, Fetched
    <3> QED
      BY Zenon, <1>1, <1>5, <2>1, <2>6, <3>1
  <2>7. CASE fresh # {} /\ candidates' = fresh /\ pc' = "done"
    <3>1. candidates' \subseteq DOMAIN rows' /\ rows' \in Seq(Row) /\ rows' = rows
      BY Zenon, <2>1 DEF BBInv, BBTypes, Fetched
    <3>2. PICK c : c = fresh
      BY Zenon
    <3>3. Newest(c) \in c
      BY Zenon, <2>7, <3>1, <3>2, NewestLeads
    <3>4. Answer' = Newest(c)
      BY Zenon, <2>7, <3>1, <3>2 DEF Answer, Newest, Newer
    <3>5. PICK i : i = Newest(c)
      BY Zenon
    <3>6. i \in armedLen + 1 .. Len(rows) /\ Match(i)
      BY Zenon, <2>2, <3>2, <3>3, <3>5
    <3>7. rows[i] \in Row
      BY Zenon, <2>7, <3>1, <3>2, <3>3, <3>5, RowsAreRows
    <3>8. freshAfter > 0
      BY Zenon, <2>1 DEF BBInv, Fetched
    <3>9. rows[i] \in Wanted
      BY Zenon, <3>6, <3>7, <3>8 DEF Wanted, Match
    <3> QED
      BY Zenon, <1>1, <1>2, <2>1, <2>7, <3>4, <3>5, <3>6, <3>9 DEF ContractStep
  <2> QED
    BY Zenon, <2>3, <2>4, <2>5, <2>6, <2>7
<1>12. CASE UNCHANGED bbVars
  BY Zenon, <1>5, <1>12 DEF bbVars, wait, Outcome
<1> QED
  BY Zenon, <1>4, <1>7, <1>8, <1>9, <1>10, <1>11, <1>12 DEF BBNext

\* The provider implements OtpProvider for every page length, window, freshness and lag:
\* Arm's snapshot separates what was in the inbox from what may answer, and WaitForCode
\* answers with a fresh message of the chat that came after it.
THEOREM ProviderKeepsContract == BBSpec => KeepsContract
<1>1. BBInit => Contract!Init
  <2> SUFFICES ASSUME BBInit PROVE Contract!Init
    OBVIOUS
  <2>1. rows = <<>> /\ freshAfter = 0 /\ candidates = {} /\ armedLen = 0 /\ pc = "idle"
    BY Zenon DEF BBInit
  <2>2. Wanted = {}
    BY <2>1 DEF Wanted
  <2>3. Outcome = "idle" /\ Answer = 0
    BY Zenon, <2>1 DEF Outcome, Answer
  <2> QED
    BY Zenon, <2>1, <2>2, <2>3 DEF Contract!Init, Wanted, Outcome, Answer
<1>2. ContractStep => [Contract!Next]_(Contract!vars)
  BY Zenon DEF ContractStep, Wanted, Outcome, Answer, Contract!Next, Contract!vars, Contract!Deliver, Contract!Arm,
     Contract!WaitForCode, Contract!Fail
<1>3. BBInv /\ BBInv' /\ [BBNext]_bbVars => [Contract!Next]_(Contract!vars)
  BY Zenon, <1>2, StepsOfContract
<1> QED
  BY <1>1, <1>3, BBInvariantHolds, PTL DEF BBSpec, KeepsContract, Contract!Spec
=============================================================================
