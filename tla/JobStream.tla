------------------------------ MODULE JobStream -----------------------------
(***************************************************************************)
(* The event log of one job and the streams that follow it: the engine     *)
(* appends events and publishes hints through the hub (engine.event,       *)
(* finish, Hub.Publish), the log keeps the newest events only, and every   *)
(* open page reads the log over a resumable event stream (web.jobEvents)   *)
(* that checks its session, is admitted within limits, and may break at    *)
(* any point.  Hints are dropped when a page is slow.                      *)
(***************************************************************************)
EXTENDS Integers, FiniteSets, Sequences

CONSTANTS
  Client,          \* open pages; one user owns them all
  MaxEvents,       \* bound: events of the job
  Keep,            \* events job_events keeps of a job (256)
  PageSize,        \* events of one query of a snapshot (100)
  Buffer,          \* capacity of a subscriber's channel (32)
  PollInterval,    \* between two polls of a stream (2 s)
  FinishTimeout,   \* the context of finish, its re-read of the row included (5 s)
  EventTimeout,    \* the time engine.event may take after that (3 s)
  MaxStreamsPerUser, MaxStreams,   \* streams of one user (8), of all (128)
  MaxBreaks        \* bound: times a connection breaks

ASSUME JobStreamAssumption ==
  /\ Keep \in Nat \ {0} /\ PageSize \in Nat \ {0} /\ Buffer \in Nat \ {0}
  /\ MaxStreamsPerUser \in Nat /\ MaxStreams \in Nat /\ MaxEvents \in Nat /\ MaxBreaks \in Nat
  /\ PollInterval \in Nat /\ FinishTimeout \in Nat /\ EventTimeout \in Nat

VARIABLES
  engine,      \* "queued", "run", "publish", "stuck", "reread", "ended", "completed", "done"
  log, last,   \* the rows of job_events, the last identifier given out
  final,       \* the row of the terminal event, once it is written
  spent,       \* time finish has spent on its re-read, then on the event
  webSession,     \* the session of the pages is valid
  users, total,  \* streamAdmission: streams counted for the user, for all
  others,      \* streams of other users
  handler,          \* a stream: "closed", "snapshot", "batch", "select"
  live,        \* its subscription's channel
  done,        \* the snapshot was asked for by a completion hint
  statusRead,         \* the status the snapshot has read: finished or not
  observed,    \* time since terminalObservedAt, or -1
  cursor,      \* afterID of a stream, Last-Event-ID of its page
  received,    \* events the page has
  complete,    \* the page was told that the job is complete
  breaks       \* connections broken so far

counts == <<users, total, others>>
stream == <<counts, handler, live, done, statusRead, observed>>
page   == <<cursor, received, complete>>
streamVars == <<engine, log, last, final, spent, webSession, stream, page, breaks>>

Over == engine \in {"reread", "ended", "completed", "done"}
Open == {c \in Client : handler[c] # "closed"}

StreamInit ==
  /\ engine = "queued" /\ log = {} /\ last = 0 /\ final = {} /\ spent = 0 /\ webSession = TRUE
  /\ users = 0 /\ total = 0 /\ others = 0
  /\ handler = [c \in Client |-> "closed"] /\ live = [c \in Client |-> <<>>]
  /\ done = [c \in Client |-> FALSE] /\ statusRead = [c \in Client |-> "running"]
  /\ observed = [c \in Client |-> -1] /\ cursor = [c \in Client |-> 0]
  /\ received = [c \in Client |-> {}] /\ complete = [c \in Client |-> FALSE] /\ breaks = 0

-----------------------------------------------------------------------------
\* SystemAppendJobEvent with the job_events_per_job_limit trigger.  A failure is
\* logged and the run goes on.
Newest(n, s) == {i \in s : Cardinality({j \in s : j > i}) < n}
Append1 ==
  \/ last' = last + 1 /\ log' = Newest(Keep - 1, log) \cup {last + 1}
  \/ UNCHANGED <<last, log>>

\* Hub.Publish: a full channel drops the hint.
Publish(kind) ==
  live' = [c \in Client |-> IF c \in Open /\ Len(live[c]) < Buffer
                            THEN Append(live[c], kind) ELSE live[c]]

\* The job starts; its event comes without a hint.
Start ==
  /\ engine = "queued" /\ engine' = "run"
  /\ Append1
  /\ UNCHANGED <<final, spent, webSession, stream, page, breaks>>

\* The Event hook: the row, then the hint.
Event ==
  /\ engine = "run" /\ last < MaxEvents - 1 /\ engine' = "publish"
  /\ Append1
  /\ UNCHANGED <<final, spent, webSession, stream, page, breaks>>

PublishEvent ==
  /\ engine = "publish" /\ engine' = "run"
  /\ Publish("event")
  /\ UNCHANGED <<log, last, final, spent, webSession, counts, handler, done, statusRead, observed, page, breaks>>

\* A code or a pairing for the page; nothing durable.
PublishCode ==
  /\ engine = "run" /\ Publish("otp")
  /\ UNCHANGED <<engine, log, last, final, spent, webSession, counts, handler, done, statusRead, observed,
                 page, breaks>>

\* finish: the status is committed and the row read again ...
Commit ==
  /\ \/ engine = "run" /\ engine' = "reread"
     \/ engine = "reread" /\ engine' = "ended"
  /\ spent' = 0 /\ UNCHANGED <<log, last, final, webSession, stream, page, breaks>>

\* ... then the terminal event is written, if it can be ...
AppendFinal ==
  /\ Append1 /\ final' = log' \ log
  /\ spent' = 0 /\ UNCHANGED <<webSession, stream, page, breaks>>

\* ... then the hint is published.
PublishComplete ==
  /\ Publish("complete")
  /\ UNCHANGED <<log, last, final, spent, webSession, counts, handler, done, statusRead, observed, page, breaks>>

\* Mutant: the hint comes before the event.
FinishHintFirst ==
  \/ Commit
  \/ engine = "ended" /\ engine' = "completed" /\ PublishComplete
  \/ engine = "completed" /\ engine' = "done" /\ AppendFinal
Finish ==
  \/ Commit
  \/ engine = "ended" /\ engine' = "completed" /\ AppendFinal
  \/ engine = "completed" /\ engine' = "done" /\ PublishComplete

\* A queued job is cancelled or expires: the row changes, nothing is said.
EndUnstarted ==
  /\ engine = "queued" /\ engine' = "done"
  /\ UNCHANGED <<log, last, final, spent, webSession, stream, page, breaks>>

\* finish whose transition fails leaves the row active until a restart; one whose
\* re-read fails leaves it terminal, without an event or a hint.
FinishFails ==
  /\ \/ engine = "run" /\ engine' = "stuck"
     \/ engine = "reread" /\ engine' = "done"
  /\ spent' = 0 /\ UNCHANGED <<log, last, final, webSession, stream, page, breaks>>

\* Time passes; the re-read and then the event give up at their timeouts.
StreamTick ==
  /\ engine = "reread" => spent < FinishTimeout
  /\ engine = "ended" => spent < EventTimeout
  /\ spent' = IF engine \in {"reread", "ended"} THEN spent + 1 ELSE spent
  /\ observed' = [c \in Client |-> IF observed[c] \in 0 .. 2 * PollInterval - 1
                                   THEN observed[c] + 1 ELSE observed[c]]
  /\ UNCHANGED <<engine, log, last, final, webSession, counts, handler, live, done, statusRead, page, breaks>>

\* The session expires or is revoked.
Revoke ==
  /\ webSession /\ webSession' = FALSE
  /\ UNCHANGED <<engine, log, last, final, spent, stream, page, breaks>>

-----------------------------------------------------------------------------
\* streamAdmission.acquire, then Subscribe, which hands over an active code.
\* The cursor is the newer of the page's own and the Last-Event-ID of the
\* connection before.
Admitted == users < MaxStreamsPerUser /\ total < MaxStreams
Admit == users' = users + 1 /\ total' = total + 1 /\ others' = others

OpenStream(c) ==
  /\ handler[c] = "closed" /\ ~complete[c] /\ webSession /\ Admitted /\ Admit
  /\ handler' = [handler EXCEPT ![c] = "snapshot"]
  /\ \E code \in {<<>>, <<"otp">>} : live' = [live EXCEPT ![c] = code]
  /\ done' = [done EXCEPT ![c] = FALSE] /\ observed' = [observed EXCEPT ![c] = -1]
  /\ UNCHANGED <<engine, log, last, final, spent, webSession, statusRead, page, breaks>>

\* The same for a stream of another user.
OtherStream ==
  /\ \/ total < MaxStreams /\ total' = total + 1 /\ others' = others + 1
     \/ others > 0 /\ total' = total - 1 /\ others' = others - 1
  /\ UNCHANGED <<engine, log, last, final, spent, webSession, users, handler, live, done, statusRead, observed,
                 page, breaks>>

\* The deferred release and unsubscribe.
Close(c) ==
  /\ handler' = [handler EXCEPT ![c] = "closed"] /\ users' = users - 1 /\ total' = total - 1
  /\ others' = others
  /\ live' = [live EXCEPT ![c] = <<>>]

\* Mutant: only the hint is the end.
FinishedByHint(c) == Over /\ done[c]
\* writeSnapshot's finished: told by the hint, or terminal for two polls.
Finished(c) == Over /\ (done[c] \/ observed[c] >= 2 * PollInterval)

\* writeSnapshot checks the session and reads the status ...
Snapshot(c) ==
  /\ handler[c] = "snapshot"
  /\ observed' = [observed EXCEPT ![c] = IF webSession /\ Over /\ @ = -1 THEN 0 ELSE @]
  /\ statusRead' = [statusRead EXCEPT ![c] = IF Finished(c) THEN "finished" ELSE "running"]
  /\ IF webSession THEN handler' = [handler EXCEPT ![c] = "batch"] /\ UNCHANGED <<counts, live>>
                ELSE Close(c)
  /\ UNCHANGED <<engine, log, last, final, spent, webSession, done, page, breaks>>

\* ListJobEvents: the first PageSize rows after the cursor.
Listed(c) ==
  {i \in log : i > cursor[c] /\ Cardinality({j \in log : cursor[c] < j /\ j < i}) < PageSize}

\* The identifier of the last row of a list.
LastOf(events) == IF events = {} THEN 0 ELSE CHOOSE i \in events : \A j \in events : j <= i

Receive(c, events) ==
  /\ received' = [received EXCEPT ![c] = @ \cup events]
  /\ cursor' = [cursor EXCEPT ![c] = IF events = {} THEN @ ELSE LastOf(events)]

\* ... and writes the rows page by page, then the state and the end.
Batch(c) ==
  /\ handler[c] = "batch" /\ Receive(c, Listed(c))
  /\ IF Cardinality(Listed(c)) = PageSize
     THEN UNCHANGED <<complete, handler, counts, live>>
     ELSE /\ complete' = [complete EXCEPT ![c] = statusRead[c] = "finished"]
          /\ IF statusRead[c] = "finished" THEN Close(c)
             ELSE handler' = [handler EXCEPT ![c] = "select"] /\ UNCHANGED <<counts, live>>
  /\ UNCHANGED <<engine, log, last, final, spent, webSession, done, statusRead, observed, breaks>>

\* The loop: a hint asks for a snapshot, a code is passed on as it is.
TakeHint(c) ==
  /\ handler[c] = "select" /\ live[c] # <<>>
  /\ live' = [live EXCEPT ![c] = Tail(@)]
  /\ done' = [done EXCEPT ![c] = Head(live[c]) = "complete"]
  /\ handler' = [handler EXCEPT ![c] = IF Head(live[c]) = "otp" /\ webSession THEN "select" ELSE "snapshot"]
  /\ UNCHANGED <<engine, log, last, final, spent, webSession, counts, statusRead, observed, page, breaks>>

\* The poll ticker, and the keepalive when the session is gone.
Poll(c) ==
  /\ handler[c] = "select"
  /\ done' = [done EXCEPT ![c] = FALSE] /\ handler' = [handler EXCEPT ![c] = "snapshot"]
  /\ UNCHANGED <<engine, log, last, final, spent, webSession, counts, live, statusRead, observed, page, breaks>>

\* The connection breaks, during a batch after some of its rows.
Break(c) ==
  /\ handler[c] # "closed" /\ breaks < MaxBreaks /\ breaks' = breaks + 1
  /\ \E n \in 0 .. PageSize - 1 :
       Receive(c, IF handler[c] # "batch" THEN {}
                  ELSE {i \in Listed(c) : Cardinality({j \in Listed(c) : j < i}) < n})
  /\ Close(c)
  /\ UNCHANGED <<engine, log, last, final, spent, webSession, done, statusRead, observed, complete>>

\* The job page is loaded again: it lists what the log holds.
LoadPage(c) ==
  /\ handler[c] = "closed" /\ webSession /\ breaks < MaxBreaks /\ breaks' = breaks + 1
  /\ received' = [received EXCEPT ![c] = log] /\ complete' = [complete EXCEPT ![c] = FALSE]
  /\ cursor' = [cursor EXCEPT ![c] = LastOf(log)]
  /\ UNCHANGED <<engine, log, last, final, spent, webSession, stream>>

\* The process ends: at the next start recovery ends a job that had started, without
\* an event; a queued one waits on.
StreamCrash ==
  /\ breaks < MaxBreaks /\ breaks' = breaks + 1
  /\ engine' = IF engine = "queued" THEN engine ELSE "done"
  /\ spent' = 0 /\ users' = 0 /\ total' = 0 /\ others' = 0
  /\ handler' = [c \in Client |-> "closed"] /\ live' = [c \in Client |-> <<>>]
  /\ UNCHANGED <<log, last, final, webSession, done, statusRead, observed, page>>

-----------------------------------------------------------------------------
Serve(c) == Snapshot(c) \/ Batch(c) \/ TakeHint(c) \/ Poll(c)

StreamNext ==
  \/ Start \/ Event \/ PublishEvent \/ PublishCode \/ Finish \/ EndUnstarted \/ FinishFails
  \/ StreamTick \/ Revoke \/ StreamCrash
  \/ OtherStream \/ \E c \in Client : OpenStream(c) \/ Serve(c) \/ Break(c) \/ LoadPage(c)

StreamSpec == StreamInit /\ [][StreamNext]_streamVars

\* Handlers run and their tickers fire, time passes, and the engine finishes
\* what it has begun.
StreamFairness ==
  /\ WF_streamVars(StreamTick) /\ WF_streamVars(PublishEvent)
  /\ WF_streamVars(engine # "run" /\ Finish)
  /\ \A c \in Client : WF_streamVars(OpenStream(c)) /\ WF_streamVars(Serve(c))

StreamFairSpec == StreamSpec /\ StreamFairness

-----------------------------------------------------------------------------
StreamTypeOK ==
  /\ engine \in {"queued", "run", "publish", "stuck", "reread", "ended", "completed", "done"}
  /\ last \in 0 .. MaxEvents /\ log \subseteq 1 .. last /\ Cardinality(log) <= Keep
  /\ final \subseteq 1 .. last /\ spent \in Nat /\ webSession \in BOOLEAN
  /\ users \in 0 .. MaxStreamsPerUser /\ total \in 0 .. MaxStreams /\ others \in 0 .. MaxStreams
  /\ handler \in [Client -> {"closed", "snapshot", "batch", "select"}]
  /\ \A c \in Client : live[c] \in Seq({"event", "otp", "complete"}) /\ Len(live[c]) <= Buffer
  /\ done \in [Client -> BOOLEAN] /\ statusRead \in [Client -> {"running", "finished"}]
  /\ observed \in [Client -> -1 .. 2 * PollInterval]
  /\ cursor \in [Client -> 0 .. last] /\ received \in [Client -> SUBSET (1 .. last)]
  /\ complete \in [Client -> BOOLEAN]

\* jobEvents, ListJobEvents and the retention trigger: a page that is past an event
\* has it, unless the log itself has dropped it, across pages of a snapshot, broken
\* connections and restarts.  finish and writeSnapshot (web/jobs.go:272): a page that
\* is told the job is complete has every event of the log but the terminal one,
\* although the status is read before the rows, and the terminal one too when it was
\* told by the completion hint.
PagesMissNothing ==
  \A c \in Client : /\ \A i \in log : i <= cursor[c] => i \in received[c]
                    /\ complete[c] => log \ final \subseteq received[c]
                    /\ complete[c] /\ done[c] => log \subseteq received[c]

\* jobEvents with dropped hints: once the job has ended, every page that keeps
\* its session is told so.
PagesLearnTheEnd ==
  \A c \in Client :
    Over ~> \/ complete[c] \/ ~webSession
            \/ handler[c] = "closed" /\ (users >= MaxStreamsPerUser \/ total >= MaxStreams)
=============================================================================
