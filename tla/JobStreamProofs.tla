--------------------------- MODULE JobStreamProofs --------------------------
(***************************************************************************)
(* Proofs about JobStream, for any number of pages, events, retained rows  *)
(* and rows of a query: what a page has read is a prefix of the log, no    *)
(* event but the last is written once a page can be told that the job is   *)
(* complete, and none once the hint is published.                          *)
(***************************************************************************)
EXTENDS JobStream, FiniteSetTheorems, WellFoundedInduction, TLAPS

Kinds == {"event", "otp", "complete"}

Types ==
  /\ engine \in {"queued", "run", "publish", "stuck", "reread", "ended", "completed", "done"}
  /\ last \in Nat /\ log \subseteq 1 .. last
  /\ handler \in [Client -> {"closed", "snapshot", "batch", "select"}]
  /\ live \in [Client -> Seq(Kinds)] /\ done \in [Client -> BOOLEAN]
  /\ statusRead \in [Client -> {"running", "finished"}] /\ cursor \in [Client -> Nat]
  /\ received \in [Client -> SUBSET Nat] /\ complete \in [Client -> BOOLEAN]

\* The terminal event is written once.
Once == engine \notin {"completed", "done"} => final = {}

\* A completion hint, read or still in a channel, comes after the engine is done.
Hints ==
  \A c \in Client : /\ done[c] => engine = "done"
                    /\ \A i \in DOMAIN live[c] : live[c][i] = "complete" => engine = "done"

\* What a stream or a page takes for the end is a terminal status; a page that was
\* told has closed its stream.
Ended ==
  \A c \in Client : /\ statusRead[c] = "finished" => Over
                    /\ complete[c] => Over /\ handler[c] = "closed"

Behind == \A c \in Client : cursor[c] <= last

Inv == Types /\ Once /\ Hints /\ Ended /\ Behind /\ PagesMissNothing

-----------------------------------------------------------------------------
(* Finite sets of numbers. *)

\* A nonempty set of naturals has a least element.
LEMMA LeastExists ==
  ASSUME NEW T \in SUBSET Nat, T # {}
  PROVE  \E x \in T : \A y \in T : x <= y
<1>1. PICK x \in T : \A y \in T : <<y, x>> \notin OpToRel(<, Nat)
  BY NatLessThanWellFounded, WFMin, Zenon
<1>2. ASSUME NEW y \in T, y < x PROVE <<y, x>> \in OpToRel(<, Nat)
  BY Zenon, <1>2 DEF OpToRel
<1>3. \A y \in T : ~(y < x)
  BY Zenon, <1>1, <1>2
<1> QED
  BY <1>3

\* A bounded one has a greatest.
LEMMA GreatestExists ==
  ASSUME NEW T \in SUBSET Nat, T # {}, NEW b \in Nat, \A y \in T : y <= b
  PROVE  \E x \in T : \A y \in T : y <= x
<1> DEFINE D == {d \in Nat : \E y \in T : d = b - y}
<1>1. \A y \in T : b - y \in D
  OBVIOUS
<1>2. D \in SUBSET Nat /\ D # {}
  BY Zenon, <1>1
<1>3. PICK d \in D : \A e \in D : d <= e
  BY Zenon, <1>2, LeastExists
<1>4. PICK x \in T : d = b - x
  BY Zenon
<1>5. ASSUME NEW y \in T PROVE y <= x
  <2>1. d <= b - y
    BY Zenon, <1>1, <1>3
  <2> QED
    BY <1>4, <2>1
<1> QED
  BY Zenon, <1>5

\* The identifier of the last row: LastOf.
LEMMA LastIsGreatest ==
  ASSUME NEW T \in SUBSET Nat, T # {}, NEW b \in Nat, \A y \in T : y <= b
  PROVE  LastOf(T) \in T /\ \A y \in T : y <= LastOf(T)
  BY Zenon, GreatestExists DEF LastOf

\* At most n and not less.
LEMMA Squeezed == \A x, n \in Nat : ~(x < n) /\ x <= n => x = n
  OBVIOUS

\* The elements of S with fewer than n below them.
First(S, n) == {i \in S : Cardinality({j \in S : j < i}) < n}

\* The first n elements of a finite set are n, unless they are all: the LIMIT of
\* ListJobEvents.
LEMMA FirstOnes ==
  ASSUME NEW S \in SUBSET Nat, NEW b \in Nat, \A y \in S : y <= b, NEW n \in Nat \ {0},
         NEW L, L = First(S, n), L # S
  PROVE  Cardinality(L) = n
<1> USE DEF First
<1> DEFINE Below(i) == {j \in S : j < i}
<1>0. IsFiniteSet(S)
  BY Zenon, FS_BoundedSetOfNaturals
<1>1. ASSUME NEW i \in Nat PROVE IsFiniteSet(Below(i)) /\ Cardinality(Below(i)) \in Nat
  <2>1. IsFiniteSet(Below(i))
    BY Zenon, <1>0, FS_Subset
  <2> QED
    BY Zenon, <2>1, FS_CardinalityType
<1>2. ASSUME NEW i \in Nat, NEW k \in Nat, i <= k PROVE Cardinality(Below(i)) <= Cardinality(Below(k))
  <2>1. Below(i) \in SUBSET Below(k)
    <3>1. ASSUME NEW j \in S, j < i PROVE j < k
      <4>1. j \in Nat
        BY Zenon
      <4> QED
        BY <1>2, <3>1, <4>1
    <3> QED
      BY Zenon, <3>1
  <2> QED
    BY Zenon, <1>1, <2>1, FS_Subset
<1>3. PICK i \in S \ L : \A j \in S \ L : i <= j
  <2>1. S \ L # {} /\ S \ L \in SUBSET Nat
    BY Zenon
  <2> QED
    BY Zenon, <2>1, LeastExists
<1>4. i \in Nat /\ Cardinality(Below(i)) \in Nat /\ ~(Cardinality(Below(i)) < n)
  BY Zenon, <1>1, <1>3
<1>5. L = Below(i)
  <2>1. ASSUME NEW j \in L PROVE j < i
    <3>1. j \in Nat /\ Cardinality(Below(j)) < n /\ Cardinality(Below(j)) \in Nat
      BY Zenon, <1>1
    <3>2. CASE i <= j
      <4>1. Cardinality(Below(i)) <= Cardinality(Below(j))
        BY Zenon, <1>2, <1>4, <3>1, <3>2
      <4> HIDE DEF Below
      <4> QED
        BY <1>4, <3>1, <4>1
    <3> QED
      BY <1>4, <3>1, <3>2
  <2>2. ASSUME NEW j \in S, j < i PROVE j \in L
    BY <1>3, <1>4, <2>2
  <2> QED
    BY Zenon, <2>1, <2>2
<1>6. L # {}
  <2>1. CASE L = {}
    <3>1. Cardinality(Below(i)) = 0
      BY Zenon, <1>5, <2>1, FS_EmptySet
    <3> QED
      BY <1>4, <3>1
  <2> QED
    BY Zenon, <2>1
<1>7. PICK m \in L : \A j \in L : j <= m
  <2>1. L \in SUBSET Nat /\ \A y \in L : y <= b
    BY Zenon
  <2> QED
    BY Zenon, <1>6, <2>1, GreatestExists
<1>8. Cardinality(L) <= n
  <2>1. m \in Nat /\ Cardinality(Below(m)) < n /\ IsFiniteSet(Below(m)) /\ Cardinality(Below(m)) \in Nat
    BY Zenon, <1>1
  <2>2. L \in SUBSET (Below(m) \cup {m})
    <3>1. ASSUME NEW j \in L, j # m PROVE j < m
      <4>1. j \in Nat /\ m \in Nat /\ j <= m
        BY Zenon, <1>7
      <4> QED
        BY <3>1, <4>1
    <3> QED
      BY Zenon, <3>1
  <2> HIDE DEF Below
  <2>3. /\ IsFiniteSet(Below(m) \cup {m})
        /\ Cardinality(Below(m) \cup {m}) = IF m \in Below(m) THEN Cardinality(Below(m)) ELSE Cardinality(Below(m)) + 1
    BY Zenon, <2>1, FS_AddElement
  <2>4. IsFiniteSet(L) /\ Cardinality(L) <= Cardinality(Below(m) \cup {m})
    BY Zenon, <2>2, <2>3, FS_Subset
  <2>5. Cardinality(L) \in Nat
    BY Zenon, <2>4, FS_CardinalityType
  <2> QED
    BY <2>1, <2>3, <2>4, <2>5
<1>9. Cardinality(L) = Cardinality(Below(i))
  BY Zenon, <1>5
<1> HIDE DEF Below
<1> QED
  BY <1>4, <1>8, <1>9, Squeezed, Zenon

-----------------------------------------------------------------------------
(* Pages of the log. *)

\* Every row of the log up to one of events is one of them, or was read before.
Prefix(c, events) ==
  /\ events \subseteq {i \in log : i > cursor[c]}
  /\ \A i \in log, m \in events : i > cursor[c] /\ i <= m => i \in events

\* The rows of a query are such a prefix; when they are fewer than asked for, they
\* are all there is.
LEMMA ListedIsPrefix ==
  ASSUME Types, NEW c \in Client
  PROVE  /\ Prefix(c, Listed(c))
         /\ Cardinality(Listed(c)) # PageSize => Listed(c) = {i \in log : i > cursor[c]}
<1> DEFINE S == {i \in log : i > cursor[c]}
           Between(i) == {j \in log : cursor[c] < j /\ j < i}
<1>0. /\ last \in Nat /\ log \subseteq 1 .. last /\ cursor[c] \in Nat /\ PageSize \in Nat \ {0}
      /\ log \in SUBSET Nat /\ IsFiniteSet(log) /\ \A y \in log : y <= last
  <2>1. /\ last \in Nat /\ log \subseteq 1 .. last /\ cursor[c] \in Nat
        /\ log \in SUBSET Nat /\ \A y \in log : y <= last
    BY DEF Types
  <2>2. IsFiniteSet(log)
    BY Zenon, <2>1, FS_BoundedSetOfNaturals
  <2> QED
    BY Zenon, <2>1, <2>2, JobStreamAssumption DEF JobStreamAssumption
<1>1. Listed(c) = {i \in S : Cardinality(Between(i)) < PageSize}
  BY Zenon DEF Listed
<1>2. Prefix(c, Listed(c))
  <2>1. ASSUME NEW i \in log, NEW m \in Listed(c), i > cursor[c], i <= m PROVE i \in Listed(c)
    <3>1. i \in Nat /\ m \in Nat /\ m \in log /\ Cardinality(Between(m)) < PageSize
      BY Zenon, <1>0, <1>1
    <3>2. Between(i) \in SUBSET Between(m)
      <4>1. ASSUME NEW j \in log, j < i PROVE j < m
        <5>1. j \in Nat
          BY Zenon, <1>0
        <5> QED
          BY <2>1, <3>1, <4>1, <5>1
      <4> QED
        BY Zenon, <4>1
    <3>3. IsFiniteSet(Between(m)) /\ IsFiniteSet(Between(i))
      BY Zenon, <1>0, FS_Subset
    <3>4. Cardinality(Between(i)) <= Cardinality(Between(m))
      BY ZenonT(30), <3>2, <3>3, FS_Subset
    <3>5. Cardinality(Between(i)) \in Nat /\ Cardinality(Between(m)) \in Nat
      BY Zenon, <3>3, FS_CardinalityType
    <3>6. Cardinality(Between(i)) < PageSize
      <4> HIDE DEF Between
      <4> QED
        BY <1>0, <3>1, <3>4, <3>5
    <3> QED
      BY ZenonT(30), <1>1, <2>1, <3>6
  <2> QED
    BY ZenonT(30), <1>1, <2>1 DEF Prefix
<1>3. ASSUME Listed(c) # S PROVE Cardinality(Listed(c)) = PageSize
  <2>1. ASSUME NEW i \in S PROVE Between(i) = {j \in S : j < i}
    <3>1. ASSUME NEW j \in log PROVE cursor[c] < j <=> j > cursor[c]
      BY Zenon, <1>0
    <3> QED
      BY Zenon, <3>1
  <2>2. Listed(c) = {i \in S : Cardinality({j \in S : j < i}) < PageSize}
    BY Zenon, <1>1, <2>1
  <2>3. S \in SUBSET Nat /\ \A y \in S : y <= last
    BY Zenon, <1>0
  <2> DEFINE L == Listed(c)
  <2>4. L = First(S, PageSize) /\ L # S
    BY Zenon, <1>3, <2>2 DEF First
  <2> HIDE DEF S, L
  <2>5. Cardinality(L) = PageSize
    <3>1. PageSize \in Nat \ {0} /\ last \in Nat
      BY Zenon, <1>0
    <3> QED
      BY <2>3, <2>4, <3>1, FirstOnes, Zenon
  <2> QED
    BY Zenon, <2>5 DEF L
<1> QED
  BY Zenon, <1>2, <1>3

\* What a broken connection delivers of a query is a prefix too.
LEMMA PartIsPrefix ==
  ASSUME Types, NEW c \in Client, NEW n \in Nat
  PROVE  Prefix(c, {i \in Listed(c) : Cardinality({j \in Listed(c) : j < i}) < n})
<1> DEFINE L == Listed(c)
           Before(i) == {j \in L : j < i}
<1>0. log \in SUBSET Nat /\ IsFiniteSet(L) /\ L \in SUBSET log
  <2>1. last \in Nat /\ log \in SUBSET Nat /\ \A y \in log : y <= last
    BY DEF Types
  <2>2. L \in SUBSET log
    BY Zenon, <2>1 DEF Listed
  <2>3. IsFiniteSet(L)
    <3>1. IsFiniteSet(log)
      BY Zenon, <2>1, FS_BoundedSetOfNaturals
    <3> QED
      BY Zenon, <2>2, <3>1, FS_Subset
  <2> HIDE DEF L
  <2> QED
    BY ZenonT(30), <2>1, <2>2, <2>3
<1>1. Prefix(c, L)
  BY Zenon, ListedIsPrefix
<1> HIDE DEF L
<1>2. ASSUME NEW i \in log, NEW m \in L, Cardinality(Before(m)) < n, i > cursor[c], i <= m
      PROVE  i \in L /\ Cardinality(Before(i)) < n
  <2>1. i \in Nat /\ m \in Nat /\ i \in L
    BY Zenon, <1>0, <1>1, <1>2 DEF Prefix
  <2>2. Before(i) \in SUBSET Before(m)
    <3>1. ASSUME NEW j \in L, j < i PROVE j < m
      <4>1. j \in Nat
        BY Zenon, <1>0
      <4> QED
        BY <1>2, <2>1, <3>1, <4>1
    <3> QED
      BY Zenon, <3>1
  <2>3. IsFiniteSet(Before(m)) /\ IsFiniteSet(Before(i))
    BY Zenon, <1>0, FS_Subset
  <2>4. Cardinality(Before(i)) <= Cardinality(Before(m))
    BY ZenonT(30), <2>2, <2>3, FS_Subset
  <2>5. Cardinality(Before(i)) \in Nat /\ Cardinality(Before(m)) \in Nat
    BY Zenon, <2>3, FS_CardinalityType
  <2> HIDE DEF Before
  <2> QED
    BY <1>2, <2>1, <2>4, <2>5
<1> QED
  BY Zenon, <1>1, <1>2 DEF Prefix, L

\* A page that receives a prefix of what it lacks misses nothing before its cursor.
LEMMA ReceivedPrefix ==
  ASSUME Inv, NEW c \in Client, NEW events, Prefix(c, events), Receive(c, events), UNCHANGED log
  PROVE  /\ cursor' \in [Client -> Nat] /\ received' \in [Client -> SUBSET Nat] /\ \A d \in Client : cursor'[d] <= last
         /\ \A d \in Client, i \in log : i <= cursor'[d] => i \in received'[d]
         /\ \A d \in Client : received[d] \subseteq received'[d]
         /\ events \subseteq received'[c]
<1>0. /\ last \in Nat /\ log \in SUBSET Nat /\ \A i \in log : i <= last
      /\ cursor \in [Client -> Nat] /\ received \in [Client -> SUBSET Nat]
  BY DEF Inv, Types
<1>1. /\ received' = [received EXCEPT ![c] = received[c] \cup events]
      /\ cursor' = [cursor EXCEPT ![c] = IF events = {} THEN cursor[c] ELSE LastOf(events)]
  BY Zenon DEF Receive
<1>2. events \in SUBSET Nat /\ \A y \in events : y <= last /\ y \in log
  BY Zenon, <1>0 DEF Prefix
<1>3. events # {} => LastOf(events) \in events /\ \A y \in events : y <= LastOf(events)
  BY Zenon, <1>0, <1>2, LastIsGreatest
<1>4. cursor' \in [Client -> Nat] /\ received' \in [Client -> SUBSET Nat]
  BY Zenon, <1>0, <1>1, <1>2, <1>3
<1>5. ASSUME NEW d \in Client PROVE cursor'[d] <= last /\ received[d] \subseteq received'[d]
  BY Zenon, <1>0, <1>1, <1>2, <1>3 DEF Inv, Behind
<1>6. events \subseteq received'[c]
  BY Zenon, <1>0, <1>1
<1>7. ASSUME NEW d \in Client, NEW i \in log, i <= cursor'[d] PROVE i \in received'[d]
  <2>1. i <= cursor[d] => i \in received[d]
    BY Zenon DEF Inv, PagesMissNothing
  <2>2. CASE d # c \/ events = {}
    BY ZenonT(30), <1>0, <1>1, <1>7, <2>1, <2>2
  <2>3. CASE d = c /\ events # {}
    <3>1. i <= LastOf(events) /\ i \in Nat /\ cursor[c] \in Nat
      BY ZenonT(30), <1>0, <1>1, <1>7, <2>3
    <3>2. i > cursor[c] => i \in events
      BY Zenon, <1>3, <2>3, <3>1 DEF Prefix
    <3> QED
      BY <1>5, <1>6, <2>1, <2>3, <3>1, <3>2
  <2> QED
    BY Zenon, <2>2, <2>3
<1> QED
  BY ZenonT(30), <1>4, <1>5, <1>6, <1>7

-----------------------------------------------------------------------------
(* Steps of the engine. *)

\* An event is added to the log and old ones may go, before a page can be told of
\* the end, or as the terminal event and before the completion hint.
LEMMA Appends ==
  ASSUME Inv, Append1, UNCHANGED <<done, page>>, engine # "done",
         ~Over \/ (final = {} /\ final' = log' \ log)
  PROVE  /\ last' \in Nat /\ log' \subseteq 1 .. last' /\ last <= last'
         /\ Behind' /\ PagesMissNothing'
<1>0. /\ last \in Nat /\ log \subseteq 1 .. last /\ cursor \in [Client -> Nat] /\ last + 1 \in Nat
      /\ UNCHANGED <<cursor, received, complete, done>> /\ \A i \in log : i \in Nat /\ 1 <= i /\ i <= last
  BY DEF Inv, Types, page
<1>1. /\ last' \in Nat /\ last <= last'
      /\ \A i \in log' : i \in log \/ (i = last + 1 /\ last' = last + 1)
  <2>1. CASE UNCHANGED <<last, log>>
    BY <1>0, <2>1
  <2>2. CASE last' = last + 1 /\ log' = Newest(Keep - 1, log) \cup {last + 1}
    BY <1>0, <2>2 DEF Newest
  <2> QED
    BY Zenon, <2>1, <2>2 DEF Append1
<1>2. ASSUME NEW i \in log' PROVE i \in 1 .. last'
  <2>1. CASE i \in log
    <3>1. i \in Nat /\ 1 <= i /\ i <= last
      BY Zenon, <1>0, <2>1
    <3>2. last \in Nat /\ last' \in Nat /\ last <= last'
      BY Zenon, <1>0, <1>1
    <3> QED
      BY <3>1, <3>2
  <2>2. CASE i = last + 1 /\ last' = last + 1
    BY <1>0, <2>2
  <2> QED
    BY Zenon, <1>1, <2>1, <2>2
<1>3. ASSUME NEW c \in Client
      PROVE  cursor'[c] <= last' /\ \A i \in log' : i <= cursor'[c] => i \in received'[c]
  <2>1. cursor[c] \in Nat /\ cursor[c] <= last /\ \A i \in log : i <= cursor[c] => i \in received[c]
    BY Zenon, <1>0 DEF Inv, Behind, PagesMissNothing
  <2>2. ASSUME NEW i \in log', i <= cursor[c] PROVE i \in received[c]
    <3>1. i # last + 1
      BY <1>0, <2>1, <2>2
    <3> QED
      BY Zenon, <1>1, <2>1, <2>2, <3>1
  <2>3. cursor[c] <= last'
    BY <1>0, <1>1, <2>1
  <2> QED
    BY Zenon, <1>0, <2>2, <2>3
<1>4. ASSUME NEW c \in Client
      PROVE  /\ complete'[c] => log' \ final' \subseteq received'[c]
             /\ ~(complete'[c] /\ done'[c])
  <2>1. done[c] => engine = "done"
    BY Zenon DEF Inv, Hints
  <2>2. CASE ~Over
    BY Zenon, <1>0, <2>1, <2>2 DEF Inv, Ended
  <2>3. CASE final = {} /\ final' = log' \ log
    BY Zenon, <1>0, <2>1, <2>3 DEF Inv, PagesMissNothing
  <2> QED
    BY Zenon, <2>2, <2>3
<1> QED
  BY Zenon, <1>1, <1>2, <1>3, <1>4 DEF Behind, PagesMissNothing

\* A hint is published: one of completion only when the engine is done.
LEMMA Publishes ==
  ASSUME Inv, NEW kind \in Kinds, Publish(kind), UNCHANGED done,
         kind = "complete" => engine' = "done", engine = "done" => engine' = "done"
  PROVE  live' \in [Client -> Seq(Kinds)] /\ Hints'
<1>0. live \in [Client -> Seq(Kinds)]
  BY Zenon DEF Inv, Types
<1>1. live' = [c \in Client |-> IF c \in Open /\ Len(live[c]) < Buffer THEN Append(live[c], kind) ELSE live[c]]
  BY Zenon DEF Publish
<1>2. ASSUME NEW c \in Client
      PROVE  /\ live'[c] \in Seq(Kinds)
             /\ \A i \in DOMAIN live'[c] : live'[c][i] = "complete" => engine' = "done"
  <2>1. live[c] \in Seq(Kinds) /\ \A i \in DOMAIN live[c] : live[c][i] = "complete" => engine = "done"
    BY Zenon, <1>0 DEF Inv, Hints
  <2>2. CASE live'[c] = live[c]
    BY Zenon, <2>1, <2>2
  <2>3. CASE live'[c] = Append(live[c], kind)
    <3>1. ASSUME NEW i \in DOMAIN Append(live[c], kind)
          PROVE  (i \in DOMAIN live[c] /\ Append(live[c], kind)[i] = live[c][i]) \/ Append(live[c], kind)[i] = kind
      BY <2>1
    <3>2. Append(live[c], kind) \in Seq(Kinds)
      BY <2>1
    <3> QED
      BY ZenonT(30), <2>1, <2>3, <3>1, <3>2
  <2> QED
    BY Zenon, <1>1, <2>2, <2>3
<1>3. live' \in [Client -> Seq(Kinds)]
  BY Zenon, <1>1, <1>2
<1> QED
  BY Zenon, <1>2, <1>3 DEF Inv, Hints

\* The job starts, reports events and ends; a transition that fails; time.
LEMMA EngineSteps ==
  ASSUME Inv, Start \/ Event \/ PublishEvent \/ PublishCode \/ Finish \/ EndUnstarted \/ FinishFails \/ StreamTick
  PROVE  Inv'
<1>0. Types /\ Once /\ Hints /\ Ended /\ Behind /\ PagesMissNothing
  BY Zenon DEF Inv
<1>1. CASE Start \/ Event \/ (engine = "ended" /\ AppendFinal /\ engine' = "completed")
  <2>1. /\ Append1 /\ UNCHANGED <<stream, page>>
        /\ \/ engine \in {"queued", "run"} /\ engine' \in {"run", "publish"} /\ UNCHANGED final
           \/ engine = "ended" /\ engine' = "completed" /\ final' = log' \ log
    BY Zenon, <1>1 DEF Start, Event, AppendFinal
  <2>2. UNCHANGED <<handler, live, done, statusRead, cursor, received, complete, page>>
    BY Zenon, <2>1 DEF stream, page
  <2>3. engine # "done" /\ (~Over \/ (final = {} /\ final' = log' \ log))
    BY Zenon, <1>0, <2>1 DEF Over, Once
  <2>4. last' \in Nat /\ log' \subseteq 1 .. last' /\ last <= last' /\ Behind' /\ PagesMissNothing'
    BY ZenonT(30), <2>1, <2>2, <2>3, Appends
  <2>5. Types'
    BY ZenonT(30), <1>0, <2>1, <2>2, <2>4 DEF Types
  <2>6. Once' /\ Hints' /\ Ended'
    BY ZenonT(30), <1>0, <2>1, <2>2 DEF Once, Hints, Ended, Over
  <2> QED
    BY ZenonT(30), <2>4, <2>5, <2>6 DEF Inv
<1>2. CASE PublishEvent \/ PublishCode \/ (engine = "completed" /\ PublishComplete /\ engine' = "done")
  <2>1. PICK kind \in Kinds :
          /\ Publish(kind) /\ UNCHANGED <<log, last, final, handler, done, statusRead, cursor, received, complete>>
          /\ kind = "complete" => engine' = "done"
          /\ \/ engine' = "run" /\ engine \in {"run", "publish"}
             \/ engine = "completed" /\ engine' = "done"
    BY Zenon, <1>2 DEF PublishEvent, PublishCode, PublishComplete, Kinds, page
  <2>2. live' \in [Client -> Seq(Kinds)] /\ Hints'
    BY Zenon, <2>1, Publishes
  <2>3. Types'
    BY Zenon, <1>0, <2>1, <2>2 DEF Types
  <2>4. Once' /\ Ended' /\ Behind' /\ PagesMissNothing'
    BY ZenonT(30), <1>0, <2>1 DEF Once, Over, Ended, Behind, PagesMissNothing
  <2> QED
    BY ZenonT(30), <2>2, <2>3, <2>4 DEF Inv
<1>3. CASE EndUnstarted \/ FinishFails \/ Commit \/ StreamTick
  <2>1. /\ UNCHANGED <<log, last, final, handler, live, done, statusRead, cursor, received, complete>>
        /\ \/ UNCHANGED engine
           \/ engine \in {"queued", "run"} /\ engine' \in {"done", "stuck", "reread"}
           \/ engine = "reread" /\ engine' \in {"ended", "done"}
    BY ZenonT(30), <1>3 DEF EndUnstarted, FinishFails, Commit, StreamTick, stream, page
  <2>2. Types'
    BY ZenonT(30), <1>0, <2>1 DEF Types
  <2>3. Once' /\ Hints' /\ Ended'
    BY ZenonT(30), <1>0, <2>1 DEF Once, Hints, Ended, Over
  <2>4. Behind' /\ PagesMissNothing'
    BY Zenon, <1>0, <2>1 DEF Behind, PagesMissNothing
  <2> QED
    BY Zenon, <2>2, <2>3, <2>4 DEF Inv
<1> QED
  BY ZenonT(30), <1>1, <1>2, <1>3 DEF Finish

-----------------------------------------------------------------------------
(* Steps of the streams. *)

\* A stream opens, breaks, is asked for a snapshot or reads the status; the session
\* ends; streams of others; the process ends.
LEMMA StreamSteps ==
  ASSUME Inv,
         \/ Revoke \/ OtherStream \/ StreamCrash
         \/ \E c \in Client : OpenStream(c) \/ Snapshot(c) \/ TakeHint(c) \/ Poll(c)
  PROVE  Inv'
<1>0. Types /\ Once /\ Hints /\ Ended /\ Behind /\ PagesMissNothing
  BY Zenon DEF Inv
<1>e. <<>> \in Seq(Kinds)
  OBVIOUS
<1>1. CASE Revoke \/ OtherStream
  <2>1. UNCHANGED <<engine, log, last, final, handler, live, done, statusRead, cursor, received, complete>>
    BY ZenonT(30), <1>1 DEF Revoke, OtherStream, stream, page
  <2> QED
    BY ZenonT(30), <1>0, <2>1 DEF Inv, Types, Once, Hints, Over, Ended, Behind, PagesMissNothing
<1>2. CASE StreamCrash
  <2>1. /\ engine' = IF engine = "queued" THEN engine ELSE "done"
        /\ handler' = [c \in Client |-> "closed"] /\ live' = [c \in Client |-> <<>>]
        /\ UNCHANGED <<log, last, final, done, statusRead, cursor, received, complete>>
    BY ZenonT(30), <1>2 DEF StreamCrash, page
  <2>2. Types'
    BY <1>0, <2>1 DEF Types
  <2>3. Hints'
    BY <1>0, <2>1 DEF Hints
  <2>4. Once' /\ Ended' /\ Behind' /\ PagesMissNothing'
    BY ZenonT(30), <1>0, <2>1 DEF Once, Over, Ended, Behind, PagesMissNothing
  <2> QED
    BY ZenonT(30), <2>2, <2>3, <2>4 DEF Inv
<1>3. ASSUME NEW c \in Client, OpenStream(c) PROVE Inv'
  <2>1. PICK code \in {<<>>, <<"otp">>} : live' = [live EXCEPT ![c] = code]
    BY Zenon, <1>3 DEF OpenStream
  <2>2. /\ handler' = [handler EXCEPT ![c] = "snapshot"] /\ done' = [done EXCEPT ![c] = FALSE]
        /\ ~complete[c] /\ UNCHANGED <<engine, log, last, final, statusRead, cursor, received, complete>>
    BY ZenonT(30), <1>3 DEF OpenStream, page
  <2>3. code \in Seq(Kinds) /\ \A i \in DOMAIN code : code[i] # "complete"
    <3>1. <<>> \in Seq(Kinds) /\ <<"otp">> \in Seq(Kinds)
      BY DEF Kinds
    <3>2. DOMAIN <<>> = {} /\ DOMAIN <<"otp">> = {1} /\ <<"otp">>[1] = "otp"
      OBVIOUS
    <3>3. CASE code = <<>>
      BY ZenonT(30), <3>1, <3>2, <3>3
    <3>4. CASE code = <<"otp">>
      BY ZenonT(30), <3>1, <3>2, <3>4
    <3> QED
      BY ZenonT(30), <3>3, <3>4
  <2>4. Types'
    BY <1>0, <2>1, <2>2, <2>3 DEF Types
  <2>5. Hints'
    BY ZenonT(30), <1>0, <2>1, <2>2, <2>3 DEF Types, Hints
  <2>6. Once' /\ Behind'
    BY Zenon, <1>0, <2>2 DEF Once, Behind
  <2>7. Ended'
    BY ZenonT(30), <1>0, <2>2 DEF Types, Ended, Over
  <2>8. PagesMissNothing'
    BY ZenonT(30), <1>0, <2>2 DEF Types, PagesMissNothing
  <2> QED
    BY Zenon, <2>4, <2>5, <2>6, <2>7, <2>8 DEF Inv
<1>4. ASSUME NEW c \in Client, Snapshot(c) PROVE Inv'
  <2>1. /\ handler[c] = "snapshot" /\ statusRead' = [statusRead EXCEPT ![c] = IF Finished(c) THEN "finished" ELSE "running"]
        /\ UNCHANGED <<engine, log, last, final, done, cursor, received, complete>>
    BY ZenonT(30), <1>4 DEF Snapshot, page
  <2>2. /\ handler' = [handler EXCEPT ![c] = "batch"] \/ handler' = [handler EXCEPT ![c] = "closed"]
        /\ live' = live \/ live' = [live EXCEPT ![c] = <<>>]
    BY ZenonT(30), <1>4 DEF Snapshot, Close
  <2>3. Finished(c) => Over
    BY Zenon DEF Finished
  <2>4. Types'
    <3>1. live' \in [Client -> Seq(Kinds)]
      BY Zenon, <1>0, <1>e, <2>2 DEF Types
    <3>2. statusRead' \in [Client -> {"running", "finished"}]
      BY Zenon, <1>0, <2>1 DEF Types
    <3>3. handler' \in [Client -> {"closed", "snapshot", "batch", "select"}]
      BY Zenon, <1>0, <2>2 DEF Types
    <3> QED
      BY Zenon, <1>0, <2>1, <3>1, <3>2, <3>3 DEF Types
  <2>5. Hints'
    <3>1. ASSUME NEW d \in Client PROVE live'[d] = live[d] \/ live'[d] = <<>>
      BY ZenonT(30), <1>0, <2>2 DEF Types
    <3> QED
      BY <1>0, <2>1, <3>1 DEF Hints
  <2>6. Once'
    BY Zenon, <1>0, <2>1 DEF Once
  <2>7. Ended'
    <3>1. ASSUME NEW d \in Client
          PROVE  /\ statusRead'[d] = "finished" => statusRead[d] = "finished" \/ Over
                 /\ complete[d] => handler'[d] = "closed"
      <4>1. CASE d = c
        BY ZenonT(30), <1>0, <2>1, <2>3, <4>1 DEF Types, Ended
      <4>2. CASE d # c
        BY ZenonT(30), <1>0, <2>1, <2>2, <4>2 DEF Types, Ended
      <4> QED
        BY Zenon, <4>1, <4>2
    <3> QED
      BY Zenon, <1>0, <2>1, <3>1 DEF Ended, Over
  <2>8. Behind' /\ PagesMissNothing'
    BY Zenon, <1>0, <2>1 DEF Behind, PagesMissNothing
  <2> QED
    BY Zenon, <2>4, <2>5, <2>6, <2>7, <2>8 DEF Inv
<1>5. ASSUME NEW c \in Client, TakeHint(c) \/ Poll(c) PROVE Inv'
  <2>1. /\ UNCHANGED <<engine, log, last, final, statusRead, cursor, received, complete>>
        /\ handler[c] = "select"
        /\ handler' = [handler EXCEPT ![c] = "select"] \/ handler' = [handler EXCEPT ![c] = "snapshot"]
    BY ZenonT(30), <1>5 DEF TakeHint, Poll, page
  <2>2. \/ /\ live[c] # <<>> /\ live' = [live EXCEPT ![c] = Tail(live[c])]
           /\ done' = [done EXCEPT ![c] = (Head(live[c]) = "complete")]
        \/ UNCHANGED live /\ done' = [done EXCEPT ![c] = FALSE]
    BY ZenonT(30), <1>5 DEF TakeHint, Poll
  <2>3. live[c] \in Seq(Kinds) /\ \A i \in DOMAIN live[c] : live[c][i] = "complete" => engine = "done"
    BY ZenonT(30), <1>0 DEF Types, Hints
  <2>4. live[c] # <<>> => /\ Tail(live[c]) \in Seq(Kinds)
                          /\ \A i \in DOMAIN Tail(live[c]) : i + 1 \in DOMAIN live[c] /\ Tail(live[c])[i] = live[c][i + 1]
                          /\ 1 \in DOMAIN live[c] /\ Head(live[c]) = live[c][1]
    BY <2>3
  <2>5. ASSUME NEW rest \in Seq(Kinds), NEW end \in BOOLEAN, end => engine = "done",
               \A i \in DOMAIN rest : rest[i] = "complete" => engine = "done",
               live' = [live EXCEPT ![c] = rest], done' = [done EXCEPT ![c] = end]
        PROVE  Types' /\ Hints'
    <3>1. live' \in [Client -> Seq(Kinds)] /\ done' \in [Client -> BOOLEAN]
      BY ZenonT(30), <1>0, <2>5 DEF Types
    <3>2. handler' \in [Client -> {"closed", "snapshot", "batch", "select"}]
      BY ZenonT(30), <1>0, <2>1 DEF Types
    <3>3. Types'
      BY ZenonT(30), <1>0, <2>1, <3>1, <3>2 DEF Types
    <3>4. ASSUME NEW d \in Client
          PROVE  /\ done'[d] => engine = "done"
                 /\ \A i \in DOMAIN live'[d] : live'[d][i] = "complete" => engine = "done"
      <4>1. CASE d # c
        BY ZenonT(30), <1>0, <2>5, <4>1 DEF Types, Hints
      <4>2. CASE d = c
        BY ZenonT(30), <1>0, <2>5, <4>2 DEF Types
      <4> QED
        BY ZenonT(30), <4>1, <4>2
    <3> QED
      BY ZenonT(30), <2>1, <3>3, <3>4 DEF Hints
  <2>6. Types' /\ Hints'
    <3>1. CASE /\ live[c] # <<>> /\ live' = [live EXCEPT ![c] = Tail(live[c])]
               /\ done' = [done EXCEPT ![c] = (Head(live[c]) = "complete")]
      <4> DEFINE end == Head(live[c]) = "complete"
      <4>1. end \in BOOLEAN /\ (end => engine = "done") /\ done' = [done EXCEPT ![c] = end]
        BY ZenonT(30), <2>3, <2>4, <3>1
      <4> HIDE DEF end
      <4>2. Tail(live[c]) \in Seq(Kinds)
        BY Zenon, <2>4, <3>1
      <4>3. \A i \in DOMAIN Tail(live[c]) : Tail(live[c])[i] = "complete" => engine = "done"
        BY ZenonT(30), <2>3, <2>4, <3>1
      <4> QED
        BY ZenonT(30), <2>5, <3>1, <4>1, <4>2, <4>3
    <3>2. CASE UNCHANGED live /\ done' = [done EXCEPT ![c] = FALSE]
      <4>1. live' = [live EXCEPT ![c] = live[c]]
        BY ZenonT(30), <1>0, <3>2 DEF Types
      <4> QED
        BY ZenonT(30), <2>3, <2>5, <3>2, <4>1
    <3> QED
      BY ZenonT(30), <2>2, <3>1, <3>2
  <2>7. Once' /\ Behind'
    BY Zenon, <1>0, <2>1 DEF Once, Behind
  <2>8. ASSUME NEW d \in Client PROVE complete[d] => handler'[d] = "closed" /\ done'[d] = done[d]
    <3>1. CASE d = c
      BY ZenonT(30), <1>0, <2>1, <3>1 DEF Ended
    <3>2. CASE d # c
      BY ZenonT(30), <1>0, <2>1, <2>2, <3>2 DEF Types, Ended
    <3> QED
      BY Zenon, <3>1, <3>2
  <2>9. Ended' /\ PagesMissNothing'
    BY ZenonT(30), <1>0, <2>1, <2>8 DEF Ended, Over, PagesMissNothing
  <2> QED
    BY ZenonT(30), <2>6, <2>7, <2>9 DEF Inv
<1> QED
  BY Zenon, <1>1, <1>2, <1>3, <1>4, <1>5

\* A page receives rows: a whole query, or what a broken connection let through.  It
\* is told of the end only after the last query, which had them all.
LEMMA PageSteps ==
  ASSUME Inv, NEW c \in Client, Batch(c) \/ Break(c) \/ LoadPage(c)
  PROVE  Inv'
<1>0. Types /\ Once /\ Hints /\ Ended /\ Behind /\ PagesMissNothing
  BY Zenon DEF Inv
<1>1. ASSUME UNCHANGED <<engine, log, last, final, done, statusRead>>,
             cursor' \in [Client -> Nat], received' \in [Client -> SUBSET Nat],
             \A d \in Client : cursor'[d] <= last, complete' \in [Client -> BOOLEAN],
             handler' \in [Client -> {"closed", "snapshot", "batch", "select"}],
             live' = live \/ live' = [live EXCEPT ![c] = <<>>],
             \A d \in Client, i \in log : i <= cursor'[d] => i \in received'[d],
             \A d \in Client : complete'[d] =>
               /\ Over /\ handler'[d] = "closed" /\ log \ final \subseteq received'[d]
               /\ done[d] => log \subseteq received'[d]
      PROVE  Inv'
  <2>0. <<>> \in Seq(Kinds) /\ live \in [Client -> Seq(Kinds)]
    BY <1>0 DEF Types
  <2>1. live' \in [Client -> Seq(Kinds)] /\ \A d \in Client : live'[d] = live[d] \/ live'[d] = <<>>
    BY ZenonT(30), <1>1, <2>0
  <2>2. Types'
    BY Zenon, <1>0, <1>1, <2>1 DEF Types
  <2>3. Hints'
    BY <1>0, <1>1, <2>1 DEF Hints
  <2>4. Once' /\ Behind'
    BY Zenon, <1>0, <1>1 DEF Once, Behind
  <2>5. Ended' /\ PagesMissNothing'
    BY ZenonT(30), <1>0, <1>1 DEF Ended, Over, PagesMissNothing
  <2> QED
    BY ZenonT(30), <2>2, <2>3, <2>4, <2>5 DEF Inv
<1>2. CASE Batch(c)
  <2>1. /\ Receive(c, Listed(c)) /\ UNCHANGED <<engine, log, last, final, done, statusRead>>
        /\ \/ UNCHANGED <<complete, handler, live>>
           \/ /\ Cardinality(Listed(c)) # PageSize /\ complete' = [complete EXCEPT ![c] = statusRead[c] = "finished"]
              /\ \/ handler' = [handler EXCEPT ![c] = "closed"] /\ live' = [live EXCEPT ![c] = <<>>]
                 \/ statusRead[c] # "finished" /\ handler' = [handler EXCEPT ![c] = "select"] /\ UNCHANGED live
    BY ZenonT(30), <1>2 DEF Batch, Close
  <2>2. Prefix(c, Listed(c)) /\ (Cardinality(Listed(c)) # PageSize => Listed(c) = {i \in log : i > cursor[c]})
    BY ZenonT(30), <1>0, ListedIsPrefix
  <2>3. /\ cursor' \in [Client -> Nat] /\ received' \in [Client -> SUBSET Nat] /\ \A d \in Client : cursor'[d] <= last
        /\ \A d \in Client, i \in log : i <= cursor'[d] => i \in received'[d]
        /\ \A d \in Client : received[d] \subseteq received'[d]
        /\ Listed(c) \subseteq received'[c]
    BY ZenonT(30), <2>1, <2>2, ReceivedPrefix
  <2>4. complete' \in [Client -> BOOLEAN] /\ handler' \in [Client -> {"closed", "snapshot", "batch", "select"}]
    BY ZenonT(30), <1>0, <2>1 DEF Types
  <2>5. ASSUME NEW d \in Client, complete'[d]
        PROVE  /\ Over /\ handler'[d] = "closed" /\ log \ final \subseteq received'[d]
               /\ done[d] => log \subseteq received'[d]
    <3>1. CASE complete[d]
      <4>1. handler[c] = "batch" /\ d # c
        BY ZenonT(30), <1>0, <1>2, <3>1 DEF Batch, Ended
      <4>2. handler'[d] = handler[d]
        BY ZenonT(30), <1>0, <2>1, <4>1 DEF Types
      <4> QED
        BY ZenonT(30), <1>0, <2>3, <3>1, <4>2 DEF Ended, PagesMissNothing
    <3>2. CASE d = c /\ Cardinality(Listed(c)) # PageSize /\ statusRead[c] = "finished" /\ handler'[c] = "closed"
      <4>1. ASSUME NEW i \in log PROVE i \in received'[c]
        <5>1. i \in Nat /\ cursor[c] \in Nat /\ (i <= cursor[c] => i \in received[c])
          BY <1>0 DEF Types, PagesMissNothing
        <5>2. i > cursor[c] => i \in Listed(c)
          BY ZenonT(30), <2>2, <3>2
        <5> QED
          BY <2>3, <5>1, <5>2
      <4> QED
        BY ZenonT(30), <1>0, <3>2, <4>1 DEF Ended
    <3>3. ~complete[d] => d = c /\ Cardinality(Listed(c)) # PageSize /\ statusRead[c] = "finished"
      BY SMTT(30), <1>0, <2>1, <2>5 DEF Types
    <3>4. ~complete[d] => handler'[c] = "closed"
      BY ZenonT(30), <1>0, <2>1, <2>5, <3>3 DEF Types
    <3> QED
      BY Zenon, <3>1, <3>2, <3>3, <3>4
  <2>6. live' = live \/ live' = [live EXCEPT ![c] = <<>>]
    BY ZenonT(30), <2>1
  <2> QED
    BY ZenonT(30), <1>1, <2>1, <2>3, <2>4, <2>5, <2>6
<1>3. CASE Break(c)
  <2>1. PICK n \in 0 .. PageSize - 1 :
          Receive(c, IF handler[c] # "batch" THEN {}
                     ELSE {i \in Listed(c) : Cardinality({j \in Listed(c) : j < i}) < n})
    BY Zenon, <1>3 DEF Break
  <2> DEFINE events == IF handler[c] # "batch" THEN {}
                       ELSE {i \in Listed(c) : Cardinality({j \in Listed(c) : j < i}) < n}
  <2>2. Prefix(c, events)
    <3>1. n \in Nat
      BY JobStreamAssumption DEF JobStreamAssumption
    <3>2. Prefix(c, {i \in Listed(c) : Cardinality({j \in Listed(c) : j < i}) < n})
      BY ZenonT(30), <1>0, <3>1, PartIsPrefix
    <3>3. Prefix(c, {})
      BY Zenon DEF Prefix
    <3> QED
      BY ZenonT(30), <3>2, <3>3
  <2>3. Receive(c, events)
    BY ZenonT(30), <2>1
  <2>4. /\ UNCHANGED <<engine, log, last, final, done, statusRead, complete>>
        /\ handler' = [handler EXCEPT ![c] = "closed"] /\ live' = [live EXCEPT ![c] = <<>>]
    BY ZenonT(30), <1>3 DEF Break, Close
  <2> HIDE DEF events
  <2>5. /\ cursor' \in [Client -> Nat] /\ received' \in [Client -> SUBSET Nat] /\ \A d \in Client : cursor'[d] <= last
        /\ \A d \in Client, i \in log : i <= cursor'[d] => i \in received'[d]
        /\ \A d \in Client : received[d] \subseteq received'[d]
    BY ZenonT(30), <2>2, <2>3, <2>4, ReceivedPrefix
  <2>6. complete' \in [Client -> BOOLEAN] /\ handler' \in [Client -> {"closed", "snapshot", "batch", "select"}]
    BY ZenonT(30), <1>0, <2>4 DEF Types
  <2>7. ASSUME NEW d \in Client, complete'[d]
        PROVE  /\ Over /\ handler'[d] = "closed" /\ log \ final \subseteq received'[d]
               /\ done[d] => log \subseteq received'[d]
    <3>1. complete[d] /\ handler'[d] = "closed"
      BY ZenonT(30), <1>0, <2>4, <2>7 DEF Types, Ended
    <3> QED
      BY ZenonT(30), <1>0, <2>5, <3>1 DEF Ended, PagesMissNothing
  <2> QED
    BY ZenonT(30), <1>1, <2>4, <2>5, <2>6, <2>7
<1>4. CASE LoadPage(c)
  <2>1. /\ received' = [received EXCEPT ![c] = log] /\ complete' = [complete EXCEPT ![c] = FALSE]
        /\ cursor' = [cursor EXCEPT ![c] = LastOf(log)]
        /\ UNCHANGED <<engine, log, last, final, handler, live, done, statusRead>>
    BY ZenonT(30), <1>4 DEF LoadPage, stream
  <2>2. /\ last \in Nat /\ log \in SUBSET Nat /\ \A i \in log : i <= last
        /\ cursor \in [Client -> Nat] /\ received \in [Client -> SUBSET Nat] /\ complete \in [Client -> BOOLEAN]
    BY <1>0 DEF Types
  <2>3. LastOf(log) \in Nat /\ LastOf(log) <= last
    <3>1. CASE log = {}
      <4>1. LastOf(log) = 0
        BY Zenon, <3>1 DEF LastOf
      <4> QED
        BY <2>2, <4>1
    <3>2. CASE log # {}
      BY Zenon, <2>2, <3>2, LastIsGreatest
    <3> QED
      BY ZenonT(30), <3>1, <3>2
  <2>4. cursor' \in [Client -> Nat] /\ received' \in [Client -> SUBSET Nat] /\ complete' \in [Client -> BOOLEAN]
    BY ZenonT(30), <2>1, <2>2, <2>3
  <2>5. handler' \in [Client -> {"closed", "snapshot", "batch", "select"}]
    BY ZenonT(30), <1>0, <2>1 DEF Types
  <2>6. ASSUME NEW d \in Client
        PROVE  /\ cursor'[d] <= last /\ \A i \in log : i <= cursor'[d] => i \in received'[d]
               /\ complete'[d] => /\ Over /\ handler'[d] = "closed" /\ log \ final \subseteq received'[d]
                                  /\ done[d] => log \subseteq received'[d]
    <3>1. CASE d = c
      BY ZenonT(30), <2>1, <2>2, <2>3, <3>1
    <3>2. CASE d # c
      BY ZenonT(30), <1>0, <2>1, <2>2, <3>2 DEF Behind, Ended, PagesMissNothing
    <3> QED
      BY ZenonT(30), <3>1, <3>2
  <2> QED
    BY ZenonT(30), <1>1, <2>1, <2>4, <2>5, <2>6
<1> QED
  BY ZenonT(30), <1>2, <1>3, <1>4

\* The invariant holds in every reachable state.
THEOREM InvariantHolds == StreamSpec => []Inv
<1>1. StreamInit => Inv
  <2> SUFFICES ASSUME StreamInit PROVE Inv
    BY Zenon
  <2>1. Types
    BY DEF StreamInit, Types
  <2>2. Once /\ Hints /\ Ended /\ Behind /\ PagesMissNothing
    BY DEF StreamInit, Once, Hints, Ended, Behind, PagesMissNothing
  <2> QED
    BY ZenonT(30), <2>1, <2>2 DEF Inv
<1>2. Inv /\ [StreamNext]_streamVars => Inv'
  <2>1. Inv /\ StreamNext => Inv'
    BY ZenonT(30), EngineSteps, StreamSteps, PageSteps DEF StreamNext, Serve
  <2>2. Inv /\ UNCHANGED streamVars => Inv'
    <3> SUFFICES ASSUME Inv, UNCHANGED streamVars PROVE Inv'
      BY Zenon
    <3>1. UNCHANGED <<engine, log, last, final, handler, live, done, statusRead, cursor, received, complete>>
      BY Zenon DEF streamVars, stream, page
    <3> QED
      BY ZenonT(30), <3>1 DEF Inv, Types, Once, Hints, Over, Ended, Behind, PagesMissNothing
  <2> QED
    BY ZenonT(30), <2>1, <2>2
<1> QED
  BY <1>1, <1>2, PTL DEF StreamSpec

\* jobEvents and its page lose no event of the log, a page that was told of the end
\* has them all but the terminal one, and that one too when the completion hint told
\* it, whatever hints are dropped, connections break and events are trimmed.
THEOREM NoPageMissesAnEvent == StreamSpec => []PagesMissNothing
<1>1. Inv => PagesMissNothing
  BY Zenon DEF Inv
<1> QED
  BY <1>1, InvariantHolds, PTL
=============================================================================
