----------------------------- MODULE BlueBubbles ----------------------------
(***************************************************************************)
(* The BlueBubbles provider (otp/bluebubbles, with otp.Match and           *)
(* otp.Select): one Arm and the WaitForCode, or WaitForPairingCandidates,  *)
(* that polls the Messages inbox after it.  ROWIDs are the positions of    *)
(* rows, which only grow; a message may be synchronised late, with a       *)
(* dateCreated in the past.  Every HTTP query is a step of its own, so     *)
(* messages arrive between the pages of one poll.                          *)
(***************************************************************************)
EXTENDS Naturals, FiniteSets, Sequences

CONSTANTS
  PageLimit, MaxPages,  \* Config: rows per query, queries per poll
  Freshness,            \* Config.Freshness
  Lags,                 \* how far dateCreated may lie behind the arrival
  MaxRows, MaxTime      \* bounds: rows of the inbox, the clock

ASSUME BlueBubblesAssumption ==
  /\ PageLimit \in Nat \ {0} /\ MaxPages \in Nat \ {0}
  /\ Freshness \in Nat /\ Lags \subseteq Nat /\ MaxRows \in Nat /\ MaxTime \in Nat
  /\ 1 + Freshness <= MaxTime

VARIABLES
  rows,         \* the message table
  now,          \* the clock
  pairing,      \* Filter.Pairing: every chat is scanned
  pc,           \* "idle", "armed", "fetch", "sleep", "done" or "failed"
  freshAfter,   \* Filter.FreshAfter, zero until Arm sets it
  cursor,       \* Armed.Cursor.Position, then wait's cursor
  page, all,    \* fetchAfter: the page it asks for, the rows it has
  seen,         \* wait's Deduper
  candidates,   \* what wait returned
  armedLen      \* history: the length of rows when Arm took its snapshot

wait == <<page, all, seen, candidates>>
bbVars == <<rows, now, pairing, pc, freshAfter, cursor, wait, armedLen>>

\* A row: in the paired chat or another one, carrying a code Match accepts
\* (inbound, from the sender, naming Yodel, four to eight digits) or not.
Row == [own : BOOLEAN, code : BOOLEAN, at : 1 .. MaxTime]

BBInit ==
  /\ rows = <<>> /\ now = 1 + Freshness /\ pairing \in BOOLEAN /\ pc = "idle"
  /\ freshAfter = 0 /\ cursor = 0 /\ page = 0 /\ all = {} /\ seen = {}
  /\ candidates = {} /\ armedLen = 0

-----------------------------------------------------------------------------
\* The phone and the clock.
Deliver ==
  /\ Len(rows) < MaxRows
  /\ \E own, code \in BOOLEAN, lag \in Lags :
       /\ lag < now
       /\ rows' = Append(rows, [own |-> own, code |-> code, at |-> now - lag])
  /\ UNCHANGED <<now, pairing, pc, freshAfter, cursor, wait, armedLen>>

Tick ==
  /\ now < MaxTime /\ now' = now + 1
  /\ UNCHANGED <<rows, pairing, pc, freshAfter, cursor, wait, armedLen>>

-----------------------------------------------------------------------------
\* The server's side of a query: the rows of the chat after a ROWID, and the
\* ones of a page.  The client asks for the order ASC; that the server sorts by
\* ROWID, as the where clause of the query does, is assumed of BlueBubbles.
Query(min) == {i \in min + 1 .. Len(rows) : pairing \/ rows[i].own}
PageOf(q, offset) ==
  {i \in q : Cardinality({j \in q : j <= i}) \in offset + 1 .. offset + PageLimit}

\* Mutant: a message older than the arm is accepted.
MatchStale(i) == rows[i].code /\ (pairing \/ rows[i].own)

\* otp.Match under effectiveFilter: pairing leaves the chat open.
Match(i) == rows[i].code /\ rows[i].at >= freshAfter /\ (pairing \/ rows[i].own)

\* The order of otp.Select: newest first, the ROWID breaks ties.
Newer(i, j) == rows[i].at > rows[j].at \/ (rows[i].at = rows[j].at /\ i > j)
Newest(c) == CHOOSE i \in c : \A j \in c \ {i} : Newer(i, j)

Highest(s, floor) ==
  IF \E i \in s : i > floor THEN CHOOSE i \in s : \A j \in s : j <= i ELSE floor

-----------------------------------------------------------------------------
\* Arm: one query, the last row of the chat.
Arm ==
  /\ pc = "idle" /\ pc' = "armed"
  /\ freshAfter' = now - Freshness
  /\ cursor' = Highest(Query(0), 0)
  /\ armedLen' = Len(rows)
  /\ UNCHANGED <<rows, now, pairing, wait>>

\* Mutant: every poll takes a new position.
StartPollRearms ==
  /\ pc \in {"armed", "sleep"} /\ pc' = "fetch"
  /\ page' = 0 /\ all' = {} /\ cursor' = Highest(Query(cursor), cursor)
  /\ UNCHANGED <<rows, now, pairing, freshAfter, seen, candidates, armedLen>>

\* The coordinator calls WaitForCode once Python asks for the code, and the
\* poll timer ends the pause between two polls: fetchAfter starts over.
StartPoll ==
  /\ pc \in {"armed", "sleep"} /\ pc' = "fetch"
  /\ page' = 0 /\ all' = {}
  /\ UNCHANGED <<rows, now, pairing, freshAfter, cursor, seen, candidates, armedLen>>

\* wait after fetchAfter returned the rows got and their highest ROWID.
Selected(got) ==
  LET fresh == {i \in got \ seen : Match(i)} IN
  /\ seen' = seen \cup got
  /\ candidates' = fresh
  /\ cursor' = IF fresh = {} THEN Highest(got, cursor) ELSE cursor
  /\ pc' = IF fresh = {} THEN "sleep" ELSE "done"

\* One query of fetchAfter.  More rows than the window holds end the wait with
\* ErrPollWindowExceeded, and so does a last page that is not the end; an empty
\* page before the end is malformed.  The page that ends the rows hands them to
\* Select.
FetchPage ==
  /\ pc = "fetch"
  /\ LET q    == Query(cursor)
         got  == PageOf(q, page * PageLimit)
         done == page * PageLimit + Cardinality(got) >= Cardinality(q)
     IN IF Cardinality(q) > PageLimit * MaxPages \/ (~done /\ (got = {} \/ page + 1 = MaxPages))
        THEN pc' = "failed" /\ UNCHANGED <<cursor, wait>>
        ELSE IF done
        THEN Selected(all \cup got) /\ UNCHANGED <<page, all>>
        ELSE page' = page + 1 /\ all' = all \cup got /\ UNCHANGED <<pc, cursor, seen, candidates>>
  /\ UNCHANGED <<rows, now, pairing, freshAfter, armedLen>>

\* A request that fails, answers with the wrong shape, or whose context ends
\* ends the arm or the wait; so does the context between two polls.
Fail ==
  /\ pc \in {"idle", "armed", "fetch", "sleep"} /\ pc' = "failed"
  /\ UNCHANGED <<rows, now, pairing, freshAfter, cursor, wait, armedLen>>

BBNext == Deliver \/ Tick \/ Arm \/ StartPoll \/ FetchPage \/ Fail
BBSpec == BBInit /\ [][BBNext]_bbVars

\* The goroutine runs, every request returns (httpguard's client has a
\* timeout) and the poll timer fires.
BBFairness == WF_bbVars(pc = "sleep" /\ StartPoll) /\ WF_bbVars(FetchPage)

BBFairSpec == BBSpec /\ BBFairness

-----------------------------------------------------------------------------
BBTypeOK ==
  /\ rows \in Seq(Row) /\ now \in 1 .. MaxTime /\ pairing \in BOOLEAN
  /\ pc \in {"idle", "armed", "fetch", "sleep", "done", "failed"}
  /\ freshAfter \in 0 .. MaxTime /\ cursor \in 0 .. Len(rows)
  /\ page \in 0 .. MaxPages - 1 /\ all \subseteq DOMAIN rows
  /\ seen \subseteq DOMAIN rows /\ candidates \subseteq DOMAIN rows
  /\ armedLen \in 0 .. Len(rows)

\* wait: an acceptable message that is in the inbox ends the wait, with the
\* message or with an error, never with polling for ever.
CodeIsFound ==
  (pc \in {"fetch", "sleep"} /\ \E i \in armedLen + 1 .. Len(rows) : Match(i))
    ~> pc \in {"done", "failed"}

\* What the coordinator relies on (module OtpProvider).
Contract == INSTANCE OtpProvider WITH
  Message <- Row, inbox <- rows, armed <- armedLen,
  wanted <- {m \in Row : freshAfter > 0 /\ m.code /\ m.at >= freshAfter /\ (pairing \/ m.own)},
  outcome <- IF pc = "done" THEN "code"
             ELSE IF pc \in {"idle", "failed"} THEN pc ELSE "armed",
  answer <- IF candidates = {} THEN 0 ELSE Newest(candidates)

\* otp.Provider (otp.go:25-32): the provider keeps the promise of OtpProvider,
\* with candidates[0] as WaitForCode's answer.
KeepsContract == Contract!Spec
=============================================================================
