--------------------------- MODULE AccountsProofs ---------------------------
(***************************************************************************)
(* Proofs about Accounts, for any number of requests, accounts, sessions   *)
(* and passwords.  A request acts on what it read some steps ago; it is    *)
(* safe because the conditional writes compare the hash it checked with    *)
(* the account's own, and because an id never stands for another account.  *)
(* The limits hold because the two locks keep what it read of them true    *)
(* until it records its failure.                                           *)
(***************************************************************************)
EXTENDS Accounts, FiniteSetTheorems, TLAPS

Pcs == {"idle", "touch", "begin", "lookup", "verify", "prehash", "hash", "commit", "issue", "record", "logout"}

UserRow == [role : {"none", "admin", "member"}, name : Names \cup {""},
            status : {"active", "disabled"}, hash : Nat, must : BOOLEAN]
SessionRow == [user : Nat, hash : Nat, expires : Nat, seen : Nat]
Given == Passwords \cup {""}
Form == [pc : Pcs, op : AllOps \cup {"none"}, user : Nat, session : Nat, name : Names \cup {""},
         pass : Given, hash : Nat, new : Given, newHash : Nat,
         must : BOOLEAN, ok : BOOLEAN]

Types ==
  /\ users \in [UserIds -> UserRow] /\ created \in Nat
  /\ sessions \in [SessionIds -> SessionRow] /\ issued \in Nat
  /\ hashes \in Seq(Given) /\ reqs \in [Requests -> Form] /\ now \in Nat

\* Ids are given once, hashes have been computed, and the administrator's password
\* is never a temporary one.
Rows ==
  \A u \in UserIds : /\ users[u].role # "none" => u <= created
                     /\ users[u].hash <= Len(hashes)
                     /\ users[u].role = "admin" => ~users[u].must

\* What a request q that goes on at pc still knows when it writes: the password it
\* checked, and that its target is no administrator.
Writing == {"prehash", "hash", "commit"}
SoundAt(q, pc) ==
  /\ q.hash <= Len(hashes) /\ q.newHash <= Len(hashes)
  /\ q.op = "password" /\ pc \in Writing => q.hash # 0 /\ hashes[q.hash] = q.pass
  /\ q.op \in {"update", "reset", "delete"} /\ pc \in Writing =>
       q.user \in UserIds /\ q.user <= created /\ users[q.user].role # "admin"

Forms == \A r \in Requests : SoundAt(reqs[r], reqs[r].pc)

Inv == Types /\ Rows /\ Forms /\ OnePermanentAdmin /\ SessionsFollowPassword

-----------------------------------------------------------------------------
(* Steps of requests. *)

\* Goto
LEMMA GoesOn ==
  ASSUME reqs \in [Requests -> Form], NEW r \in Requests, NEW q \in Form, NEW pc \in Pcs, Goto(r, q, pc)
  PROVE  /\ reqs' \in [Requests -> Form] /\ \A x \in Requests : x # r => reqs'[x] = reqs[x]
         /\ reqs'[r].pc = pc /\ reqs'[r].op = q.op /\ reqs'[r].user = q.user /\ reqs'[r].pass = q.pass
         /\ reqs'[r].hash = q.hash /\ reqs'[r].newHash = q.newHash
<1>1. [q EXCEPT !.pc = pc] \in Form
  BY Zenon DEF Form
<1>2. reqs' = [reqs EXCEPT ![r] = [q EXCEPT !.pc = pc]]
  BY Zenon DEF Goto
<1>3. reqs'[r] = [q EXCEPT !.pc = pc]
  BY Zenon, <1>2
<1> QED
  BY Zenon, <1>1, <1>2, <1>3 DEF Form

\* A request that waits for nothing is sound.
LEMMA IdleIsSound == Types => Idle \in Form /\ SoundAt(Idle, "idle") /\ Idle.pc = "idle"
<1>1. Idle \in Form
  BY Zenon DEF Idle, Form, Given, Pcs
<1>2. Types => Len(hashes) \in Nat
  BY DEF Types
<1>3. Idle.hash = 0 /\ Idle.newHash = 0 /\ Idle.op = "none" /\ Idle.pc = "idle"
  BY Zenon DEF Idle
<1> QED
  BY <1>1, <1>2, <1>3 DEF SoundAt, Writing

\* Hashes are only added, an account that is no administrator becomes none, and ids
\* are not given back.
Grows ==
  /\ hashes' \in Seq(Given) /\ Len(hashes) <= Len(hashes')
  /\ \A h \in 1 .. Len(hashes) : hashes'[h] = hashes[h]
  /\ created' \in Nat /\ created <= created'
  /\ \A u \in UserIds : u <= created /\ users[u].role # "admin" => users'[u].role # "admin"

\* What requests know outlives the steps of others.
LEMMA SoundKept ==
  ASSUME Types, Grows, NEW q \in Form, NEW pc, SoundAt(q, pc)
  PROVE  SoundAt(q, pc)'
<1>1. q.hash \in Nat /\ q.newHash \in Nat /\ q.user \in Nat
  BY Zenon DEF Form
<1>2. Len(hashes) \in Nat /\ Len(hashes') \in Nat /\ created \in Nat /\ created' \in Nat
  BY DEF Types, Grows
<1> QED
  BY <1>1, <1>2 DEF Grows, SoundAt, UserIds

\* Request r goes on as q, or all requests stay as they are.
LEMMA FormsKept ==
  ASSUME Types, Forms, Grows, NEW r \in Requests, reqs' \in [Requests -> Form],
         \A x \in Requests : x # r => reqs'[x] = reqs[x], SoundAt(reqs[r], reqs[r].pc)'
  PROVE  Forms'
<1> SUFFICES ASSUME NEW x \in Requests PROVE SoundAt(reqs[x], reqs[x].pc)'
  BY Zenon DEF Forms
<1>1. CASE x = r
  BY Zenon, <1>1
<1>2. CASE x # r
  <2>1. SoundAt(reqs[x], reqs[x].pc) /\ reqs[x] \in Form
    BY Zenon DEF Forms, Types
  <2>2. reqs'[x] = reqs[x]
    BY Zenon, <1>2
  <2> QED
    BY Zenon, <2>1, <2>2, SoundKept DEF SoundAt
<1> QED
  BY Zenon, <1>1, <1>2

\* Sessions only go, or are refreshed.
Shrinks ==
  /\ sessions' \in [SessionIds -> SessionRow]
  /\ \A s \in SessionIds : \/ sessions'[s].user = 0
                           \/ sessions'[s].user = sessions[s].user /\ sessions'[s].hash = sessions[s].hash

\* A step that leaves the accounts alone.
LEMMA Quiet ==
  ASSUME Inv, UNCHANGED <<users, created, hashes>>, Shrinks
  PROVE  Rows' /\ OnePermanentAdmin' /\ SessionsFollowPassword' /\ Grows
<1>1. Rows' /\ OnePermanentAdmin'
  BY Zenon DEF Inv, Rows, OnePermanentAdmin, HasUsers, Exists, UserIds
<1>2. SessionsFollowPassword'
  BY ZenonT(30) DEF Inv, Shrinks, SessionsFollowPassword, Active, Exists
<1>3. Grows
  <2>1. created \in Nat /\ hashes \in Seq(Given) /\ Len(hashes) \in Nat
    BY DEF Inv, Types
  <2> QED
    BY <2>1 DEF Grows
<1> QED
  BY Zenon, <1>1, <1>2, <1>3

\* The same for a step of request r that goes on as q at pc.
LEMMA Reads ==
  ASSUME Inv, NEW r \in Requests, NEW q \in Form, NEW pc \in Pcs, Goto(r, q, pc), SoundAt(q, pc),
         UNCHANGED <<users, created, issued, hashes, now>>, Shrinks
  PROVE  Inv'
<1>1. reqs \in [Requests -> Form]
  BY Zenon DEF Inv, Types
<1>2. /\ reqs' \in [Requests -> Form] /\ \A x \in Requests : x # r => reqs'[x] = reqs[x]
      /\ reqs'[r].pc = pc /\ reqs'[r].op = q.op /\ reqs'[r].user = q.user /\ reqs'[r].pass = q.pass
      /\ reqs'[r].hash = q.hash /\ reqs'[r].newHash = q.newHash
  BY Zenon, <1>1, GoesOn
<1>3. SoundAt(reqs[r], reqs[r].pc)'
  BY Zenon, <1>2 DEF SoundAt
<1>4. Rows' /\ OnePermanentAdmin' /\ SessionsFollowPassword' /\ Grows
  BY Zenon, Quiet
<1>5. Types'
  BY Zenon, <1>2 DEF Inv, Types, Shrinks
<1>6. Forms'
  BY Zenon, <1>2, <1>3, <1>4, FormsKept DEF Inv
<1> QED
  BY Zenon, <1>4, <1>5, <1>6 DEF Inv

\* The same for a request that ends.
LEMMA Returns ==
  ASSUME Inv, NEW r \in Requests, reqs' = [reqs EXCEPT ![r] = Idle],
         UNCHANGED <<users, created, issued, hashes, now>>, Shrinks
  PROVE  Inv'
<1>1. Idle \in Form /\ SoundAt(Idle, "idle") /\ Idle.pc = "idle"
  BY Zenon, IdleIsSound DEF Inv
<1>2. reqs' \in [Requests -> Form] /\ reqs'[r] = Idle /\ \A x \in Requests : x # r => reqs'[x] = reqs[x]
  BY Zenon, <1>1 DEF Inv, Types
<1>3. Rows' /\ OnePermanentAdmin' /\ SessionsFollowPassword' /\ Grows
  BY Zenon, Quiet
<1>4. SoundAt(reqs[r], reqs[r].pc)'
  BY Zenon, <1>1, <1>2, <1>3, SoundKept DEF Inv, SoundAt
<1>5. Types'
  BY Zenon, <1>2 DEF Inv, Types, Shrinks
<1>6. Forms'
  BY Zenon, <1>2, <1>3, <1>4, FormsKept DEF Inv
<1> QED
  BY Zenon, <1>3, <1>5, <1>6 DEF Inv

\* Nothing happens to the sessions.
LEMMA NothingGoes ==
  ASSUME Types, UNCHANGED sessions
  PROVE  Shrinks
  BY Zenon DEF Types, Shrinks

\* The sessions of an account are revoked.
LEMMA Revoked ==
  ASSUME Types, NEW u, sessions' = WithoutSessionsOf(u)
  PROVE  Shrinks /\ \A s \in SessionIds : sessions'[s].user = 0 \/ (sessions'[s].user # u /\ sessions'[s] = sessions[s])
  BY Zenon DEF Types, Shrinks, WithoutSessionsOf, NoSession, SessionRow

\* One session is deleted.
LEMMA OneGoes ==
  ASSUME Types, NEW s, DeleteSession(s)
  PROVE  Shrinks
  BY Zenon DEF Types, Shrinks, DeleteSession, NoSession, SessionRow

\* The requests that only look: signing in, the session of a cookie, the limits, the
\* password.
LEMMA LookSteps ==
  ASSUME Inv, NEW r \in Requests,
         \/ Login(r) \/ Setup(r) \/ (\E s \in SessionIds : Authenticate(r, s)) \/ BeginAccountChange(r)
         \/ Lookup(r) \/ Verify(r) \/ BeginHash(r) \/ Record(r)
  PROVE  Inv'
<1> DEFINE q == reqs[r]
<1>0. /\ q \in Form /\ SoundAt(q, q.pc) /\ Types /\ Len(hashes) \in Nat /\ q.hash <= Len(hashes)
      /\ q.newHash <= Len(hashes) /\ Idle \in Form
  BY IdleIsSound DEF Inv, Types, Forms, SoundAt
<1>1. UNCHANGED sessions => Shrinks
  BY Zenon, <1>0, NothingGoes
<1>2. ASSUME Finish(r), UNCHANGED <<tables, hashes, now>> PROVE Inv'
  BY ZenonT(30), <1>1, <1>2, Returns DEF Finish, tables
<1>3. ASSUME NEW f \in Form, NEW pc \in Pcs, Goto(r, f, pc), SoundAt(f, pc), UNCHANGED <<tables, hashes, now>>
      PROVE  Inv'
  BY Zenon, <1>1, <1>3, Reads DEF tables
<1>4. CASE Login(r)
  <2>1. PICK n \in Names, p \in Passwords : Goto(r, [Idle EXCEPT !.op = "login", !.name = n, !.pass = p], "lookup")
    BY Zenon, <1>4 DEF Login
  <2> DEFINE f == [Idle EXCEPT !.op = "login", !.name = n, !.pass = p]
  <2>2. f \in Form
    BY <1>0, Zenon DEF Form, Given, AllOps
  <2>3. f.op = "login" /\ f.hash = 0 /\ f.newHash = 0
    BY Zenon DEF Idle
  <2>4. SoundAt(f, "lookup")
    BY <1>0, <2>3 DEF SoundAt
  <2> QED
    BY Zenon, <1>3, <1>4, <2>1, <2>2, <2>4 DEF Login, Pcs
<1>5. CASE Setup(r)
  <2>1. PICK n \in Names, p \in Passwords :
          Goto(r, [Idle EXCEPT !.op = "setup", !.name = n, !.pass = p, !.new = p], "prehash")
    BY Zenon, <1>5 DEF Setup
  <2> DEFINE f == [Idle EXCEPT !.op = "setup", !.name = n, !.pass = p, !.new = p]
  <2>2. f \in Form
    BY <1>0, Zenon DEF Form, Given, AllOps
  <2>3. f.op = "setup" /\ f.hash = 0 /\ f.newHash = 0
    BY Zenon DEF Idle
  <2>4. SoundAt(f, "prehash")
    BY SMTT(30), <1>0, <2>3 DEF SoundAt
  <2> QED
    BY ZenonT(30), <1>3, <1>5, <2>1, <2>2, <2>4 DEF Setup, Pcs
<1>6. ASSUME NEW s \in SessionIds, Authenticate(r, s) PROVE Inv'
  <2>1. PICK op \in Ops \ {"login", "setup"} :
          Goto(r, [Idle EXCEPT !.op = op, !.session = s, !.user = sessions[s].user,
                               !.must = users[sessions[s].user].must], "touch")
    BY Zenon, <1>6 DEF Authenticate
  <2> DEFINE f == [Idle EXCEPT !.op = op, !.session = s, !.user = sessions[s].user,
                               !.must = users[sessions[s].user].must]
  <2>2. /\ op \in AllOps \cup {"none"} /\ s \in Nat /\ sessions[s].user \in Nat
        /\ users[sessions[s].user].must \in BOOLEAN
    <3>1. op \in AllOps \cup {"none"} /\ s \in Nat
      BY SMTT(30), AccountsAssumption DEF AccountsAssumption, SessionIds
    <3>2. sessions[s] \in SessionRow /\ sessions[s].user \in UserIds
      BY Zenon, <1>0, <1>6 DEF Types, Authenticate, Usable, Active, Exists
    <3>3. users[sessions[s].user] \in UserRow
      BY Zenon, <1>0, <3>2 DEF Types
    <3> QED
      BY Zenon, <3>1, <3>2, <3>3 DEF SessionRow, UserRow
  <2>3. f \in Form
    BY <1>0, <2>2, ZenonT(30) DEF Form, Given
  <2>4. f.hash = 0 /\ f.newHash = 0
    BY Zenon DEF Idle
  <2>5. SoundAt(f, "touch")
    BY <1>0, <2>4 DEF SoundAt, Writing
  <2> QED
    BY ZenonT(30), <1>3, <1>6, <2>1, <2>3, <2>5 DEF Authenticate, Pcs
<1>7. ASSUME NEW pc \in Pcs, Goto(r, q, pc), UNCHANGED <<tables, hashes, now>>,
             \/ pc \notin Writing \/ q.op \notin {"password", "update", "reset", "delete"} \/ q.pc \in Writing
             \/ q.op = "password" /\ Verified(q)
      PROVE  Inv'
  <2>1. SoundAt(q, pc)
    BY Zenon, <1>0, <1>7 DEF SoundAt, Verified
  <2> QED
    BY Zenon, <1>0, <1>3, <1>7, <2>1
<1>8. CASE BeginAccountChange(r)
  BY Zenon, <1>2, <1>7, <1>8 DEF BeginAccountChange, RefuseChange, Pcs, Writing
<1>9. CASE Lookup(r)
  <2>1. CASE Finish(r) \/ Goto(r, q, "record") \/ Goto(r, q, "verify")
    BY ZenonT(30), <1>2, <1>7, <1>9, <2>1 DEF Lookup, Pcs, Writing
  <2>2. CASE \E u \in UserIds : Goto(r, [q EXCEPT !.user = u, !.hash = users[u].hash], "verify")
    <3>1. PICK u \in UserIds : Goto(r, [q EXCEPT !.user = u, !.hash = users[u].hash], "verify")
      BY Zenon, <2>2
    <3> DEFINE f == [q EXCEPT !.user = u, !.hash = users[u].hash]
    <3>2. u \in Nat /\ users[u].hash \in Nat /\ users[u].hash <= Len(hashes)
      <4>1. u \in Nat /\ users[u] \in UserRow
        BY <1>0 DEF Types, UserIds
      <4>2. users[u].hash <= Len(hashes)
        BY Zenon DEF Inv, Rows
      <4> QED
        BY ZenonT(30), <4>1, <4>2 DEF UserRow
    <3>3. f \in Form
      BY <1>0, <3>2, ZenonT(30) DEF Form, Given
    <3>4. f.hash = users[u].hash /\ f.newHash = q.newHash
      BY ZenonT(30), <1>0 DEF Form
    <3>5. SoundAt(f, "verify")
      BY ZenonT(30), <1>0, <3>2, <3>4 DEF SoundAt, Writing
    <3> QED
      BY ZenonT(30), <1>3, <1>9, <3>1, <3>3, <3>5 DEF Lookup, Pcs
  <2> QED
    BY ZenonT(30), <1>9, <2>1, <2>2 DEF Lookup, Named, Exists
<1>10. CASE Verify(r)
  BY ZenonT(30), <1>2, <1>7, <1>10 DEF Verify, Pcs, Writing
<1>11. CASE BeginHash(r)
  BY ZenonT(30), <1>2, <1>7, <1>11 DEF BeginHash, Pcs, Writing, At
<1>12. CASE Record(r)
  BY ZenonT(30), <1>2, <1>12 DEF Record
<1> QED
  BY ZenonT(30), <1>4, <1>5, <1>6, <1>8, <1>9, <1>10, <1>11, <1>12

\* TouchSession and the start of a handler; the end of a session; a failed call.
LEMMA SessionSteps ==
  ASSUME Inv, NEW r \in Requests, Touch(r) \/ Logout(r) \/ Fails(r)
  PROVE  Inv'
<1> DEFINE q == reqs[r]
<1>0. /\ q \in Form /\ SoundAt(q, q.pc) /\ Types /\ Len(hashes) \in Nat /\ q.hash <= Len(hashes)
      /\ q.newHash <= Len(hashes)
  BY DEF Inv, Types, Forms, SoundAt
<1>1. UNCHANGED sessions => Shrinks
  BY Zenon, <1>0, NothingGoes
<1>2. ASSUME Finish(r), UNCHANGED <<users, created, issued, hashes, now>>, Shrinks PROVE Inv'
  BY Zenon, <1>2, Returns DEF Finish
<1>3. ASSUME NEW f \in Form, NEW pc \in Pcs, Goto(r, f, pc), SoundAt(f, pc), Shrinks,
             UNCHANGED <<users, created, issued, hashes, now>>
      PROVE  Inv'
  BY Zenon, <1>3, Reads
<1>4. CASE Touch(r)
  <2>1. UNCHANGED <<users, created, issued, hashes, now>>
    BY Zenon, <1>4 DEF Touch
  <2>2. Shrinks
    <3>1. CASE sessions' = [sessions EXCEPT ![q.session].seen = now]
      BY ZenonT(30), <1>0, <3>1 DEF Types, Shrinks, SessionRow
    <3>2. CASE UNCHANGED sessions
      BY Zenon, <1>1, <3>2
    <3> QED
      BY ZenonT(30), <1>4, <3>1, <3>2 DEF Touch
  <2>3. CASE Finish(r)
    BY Zenon, <1>2, <2>1, <2>2, <2>3
  <2>4. CASE q.op = "logout" /\ Goto(r, q, "logout")
    <3>1. SoundAt(q, "logout")
      BY ZenonT(30), <1>0 DEF SoundAt, Writing
    <3> QED
      BY ZenonT(30), <1>0, <1>3, <2>1, <2>2, <2>4, <3>1 DEF Pcs
  <2>5. ASSUME NEW p \in Passwords, NEW new \in Passwords, Goto(r, [q EXCEPT !.pass = p, !.new = new], "begin")
        PROVE  Inv'
    <3> DEFINE f == [q EXCEPT !.pass = p, !.new = new]
    <3>1. f \in Form
      BY <1>0, Zenon DEF Form, Given
    <3>2. f.hash = q.hash /\ f.newHash = q.newHash
      BY ZenonT(30), <1>0 DEF Form
    <3>3. SoundAt(f, "begin")
      BY ZenonT(30), <1>0, <3>2 DEF SoundAt, Writing
    <3> QED
      BY ZenonT(30), <1>3, <2>1, <2>2, <2>5, <3>1, <3>3 DEF Pcs
  <2>6. ASSUME NEW p \in Passwords, NEW n \in Names, Goto(r, [q EXCEPT !.pass = p, !.name = n], "begin")
        PROVE  Inv'
    <3> DEFINE f == [q EXCEPT !.pass = p, !.name = n]
    <3>1. f \in Form
      BY <1>0, Zenon DEF Form, Given
    <3>2. f.hash = q.hash /\ f.newHash = q.newHash
      BY ZenonT(30), <1>0 DEF Form
    <3>3. SoundAt(f, "begin")
      BY ZenonT(30), <1>0, <3>2 DEF SoundAt, Writing
    <3> QED
      BY ZenonT(30), <1>3, <2>1, <2>2, <2>6, <3>1, <3>3 DEF Pcs
  <2>7. ASSUME NEW p \in Passwords, NEW n \in Names, q.op = "create", Goto(r, [q EXCEPT !.new = p, !.name = n], "prehash")
        PROVE  Inv'
    <3> DEFINE f == [q EXCEPT !.new = p, !.name = n]
    <3>1. f \in Form
      BY <1>0, Zenon DEF Form, Given
    <3>2. f.hash = q.hash /\ f.newHash = q.newHash /\ f.op = "create"
      BY ZenonT(30), <1>0, <2>7 DEF Form
    <3>3. SoundAt(f, "prehash")
      BY ZenonT(30), <1>0, <3>2 DEF SoundAt, Writing
    <3> QED
      BY ZenonT(30), <1>3, <2>1, <2>2, <2>7, <3>1, <3>3 DEF Pcs
  <2>8. ASSUME NEW u \in UserIds, NEW p \in Passwords, NEW pc \in Pcs, q.op \in {"update", "reset", "delete"},
               Exists(u), ~Protected(u), Goto(r, [q EXCEPT !.user = u, !.new = p], pc)
        PROVE  Inv'
    <3> DEFINE f == [q EXCEPT !.user = u, !.new = p]
    <3>1. u \in Nat /\ u <= created /\ users[u].role # "admin"
      BY <2>8 DEF Inv, Rows, Exists, Protected, UserIds
    <3>2. f \in Form
      BY <1>0, <3>1, Zenon DEF Form, Given
    <3>3. f.hash = q.hash /\ f.newHash = q.newHash /\ f.op = q.op /\ f.user = u
      BY ZenonT(30), <1>0, <2>8 DEF Form
    <3>4. SoundAt(f, pc)
      BY ZenonT(30), <1>0, <2>8, <3>1, <3>3 DEF SoundAt, Writing
    <3> QED
      BY ZenonT(30), <1>3, <2>1, <2>2, <2>8, <3>2, <3>4
  <2>9. Finish(r) \/ Start(r, q)
    BY Zenon, <1>4 DEF Touch
  <2> QED
    BY Zenon, <2>3, <2>4, <2>5, <2>6, <2>7, <2>8, <2>9 DEF Start, Pcs
<1>5. CASE Logout(r)
  BY ZenonT(30), <1>0, <1>2, <1>5, OneGoes DEF Logout
<1>6. CASE Fails(r)
  <2>1. UNCHANGED <<users, created, issued, hashes, now>> /\ (Goto(r, q, "record") \/ Finish(r))
    BY ZenonT(30), <1>6 DEF Fails
  <2>2. Shrinks
    BY ZenonT(30), <1>0, <1>1, <1>6, OneGoes DEF Fails
  <2>3. SoundAt(q, "record")
    BY ZenonT(30), <1>0 DEF SoundAt, Writing
  <2> QED
    BY ZenonT(30), <1>0, <1>2, <1>3, <2>1, <2>2, <2>3 DEF Pcs
<1> QED
  BY ZenonT(30), <1>4, <1>5, <1>6

-----------------------------------------------------------------------------
(* Writes. *)

\* The accounts after a step are as they must be.
Settled ==
  /\ users' \in [UserIds -> UserRow] /\ sessions' \in [SessionIds -> SessionRow]
  /\ Grows /\ Rows' /\ OnePermanentAdmin' /\ SessionsFollowPassword'

\* An account is changed, and its sessions are revoked unless it keeps its password
\* and stays active.
LEMMA RowWritten ==
  ASSUME Inv, NEW u \in UserIds, NEW row \in UserRow, users[u].role # "none", row.role = users[u].role,
         row.hash <= Len(hashes'), row.role = "admin" => ~row.must /\ row.status = "active",
         users' = [users EXCEPT ![u] = row], UNCHANGED created,
         hashes' \in Seq(Given), Len(hashes) <= Len(hashes'),
         \A h \in 1 .. Len(hashes) : hashes'[h] = hashes[h],
         \/ sessions' = WithoutSessionsOf(u)
         \/ sessions' = sessions /\ row.hash = users[u].hash /\ row.status = "active"
  PROVE  Settled
<1>0. /\ users \in [UserIds -> UserRow] /\ created \in Nat /\ sessions \in [SessionIds -> SessionRow]
      /\ Types
  BY Zenon DEF Inv, Types
<1>1. /\ users' \in [UserIds -> UserRow] /\ users'[u] = row
      /\ \A x \in UserIds : x # u => users'[x] = users[x]
  BY ZenonT(30), <1>0
<1>2. \A x \in UserIds : users'[x].role = users[x].role
  BY Zenon, <1>1
<1>3. Grows
  BY <1>0, <1>2 DEF Grows
<1>4. Rows'
  <2>1. Len(hashes) \in Nat /\ Len(hashes') \in Nat
    BY <1>0 DEF Types
  <2>2. \A x \in UserIds : users[x].hash \in Nat
    BY Zenon, <1>0 DEF UserRow
  <2> QED
    BY <1>1, <1>2, <2>1, <2>2 DEF Inv, Rows
<1>5. OnePermanentAdmin'
  BY <1>1, <1>2 DEF Inv, OnePermanentAdmin, HasUsers, Exists
<1>6. sessions' \in [SessionIds -> SessionRow]
  BY Zenon, <1>0, Revoked DEF Shrinks
<1>7. SessionsFollowPassword'
  <2>1. CASE sessions' = WithoutSessionsOf(u)
    <3>1. \A s \in SessionIds : sessions'[s].user = 0 \/ (sessions'[s].user # u /\ sessions'[s] = sessions[s])
      BY Zenon, <1>0, <2>1, Revoked
    <3> QED
      BY <1>1, <3>1 DEF Inv, SessionsFollowPassword, Active, Exists
  <2>2. CASE sessions' = sessions /\ row.hash = users[u].hash /\ row.status = "active"
    BY <1>1, <1>2, <2>2 DEF Inv, SessionsFollowPassword, Active, Exists
  <2> QED
    BY Zenon, <2>1, <2>2
<1> QED
  BY ZenonT(30), <1>1, <1>3, <1>4, <1>5, <1>6, <1>7 DEF Settled

\* An account is added: the administrator as the first, or a member.
LEMMA RowAdded ==
  ASSUME Inv, NEW row \in UserRow, created < MaxUsers, created' = created + 1,
         users' = [users EXCEPT ![created + 1] = row], UNCHANGED <<hashes, sessions>>, row.hash <= Len(hashes),
         row.status = "active",
         \/ row.role = "admin" /\ ~row.must /\ ~HasUsers
         \/ row.role = "member" /\ \E a \in UserIds : users[a].role = "admin"
  PROVE  Settled
<1> DEFINE u == created + 1
<1>0. /\ users \in [UserIds -> UserRow] /\ created \in Nat /\ sessions \in [SessionIds -> SessionRow]
      /\ hashes \in Seq(Given) /\ MaxUsers \in Nat
  BY ZenonT(30), AccountsAssumption DEF AccountsAssumption, Inv, Types
<1>1. u \in UserIds /\ u \in Nat /\ created <= u /\ ~(u <= created)
  BY <1>0 DEF UserIds
<1> HIDE DEF u
<1>2. users[u].role = "none"
  BY ZenonT(30), <1>1 DEF Inv, Rows
<1>3. /\ users' \in [UserIds -> UserRow] /\ users'[u] = row /\ created' = u
      /\ \A x \in UserIds : x # u => users'[x] = users[x]
  BY ZenonT(30), <1>0, <1>1 DEF u
<1>4. Len(hashes) \in Nat
  BY <1>0
<1>5. Grows
  BY <1>0, <1>1, <1>3, <1>4 DEF Grows
<1>6. Rows'
  <2>1. \A x \in UserIds : x \in Nat
    BY DEF UserIds
  <2> QED
    BY <1>0, <1>1, <1>3, <2>1 DEF Inv, Rows
<1>7. OnePermanentAdmin'
  <2>1. CASE row.role = "admin" /\ ~HasUsers
    BY <1>1, <1>3, <2>1 DEF OnePermanentAdmin, HasUsers, Exists
  <2>2. CASE row.role = "member" /\ \E a \in UserIds : users[a].role = "admin"
    BY SMTT(30), <1>2, <1>3, <2>2 DEF Inv, OnePermanentAdmin, HasUsers, Exists
  <2> QED
    BY ZenonT(30), <2>1, <2>2
<1>8. SessionsFollowPassword'
  BY <1>2, <1>3 DEF Inv, SessionsFollowPassword, Active, Exists
<1> QED
  BY Zenon, <1>0, <1>3, <1>5, <1>6, <1>7, <1>8 DEF Settled

\* A member is removed with its sessions.
LEMMA RowRemoved ==
  ASSUME Inv, NEW u \in UserIds, ~Protected(u), Remove(u), sessions' = WithoutSessionsOf(u),
         UNCHANGED <<created, hashes>>
  PROVE  Settled
<1>0. /\ users \in [UserIds -> UserRow] /\ created \in Nat /\ hashes \in Seq(Given) /\ Types
  BY ZenonT(30) DEF Inv, Types
<1>a. NoUser \in UserRow /\ NoUser.role = "none" /\ NoUser.hash = 0
  BY ZenonT(30) DEF NoUser, UserRow
<1>1. /\ users' \in [UserIds -> UserRow] /\ users'[u] = NoUser
      /\ \A x \in UserIds : x # u => users'[x] = users[x]
  BY ZenonT(30), <1>0, <1>a DEF Remove
<1>2. Len(hashes) \in Nat
  BY <1>0
<1>3. Grows
  BY SMTT(30), <1>0, <1>a, <1>1, <1>2 DEF Grows
<1>4. Rows'
  BY <1>a, <1>1, <1>2 DEF Inv, Rows
<1>5. OnePermanentAdmin'
  BY <1>a, <1>1 DEF Inv, OnePermanentAdmin, HasUsers, Exists, Protected
<1>6. sessions' \in [SessionIds -> SessionRow]
  BY Zenon, <1>0, Revoked DEF Shrinks
<1>7. SessionsFollowPassword'
  <2>1. \A s \in SessionIds : sessions'[s].user = 0 \/ (sessions'[s].user # u /\ sessions'[s] = sessions[s])
    BY Zenon, <1>0, Revoked
  <2> QED
    BY <1>1, <2>1 DEF Inv, SessionsFollowPassword, Active, Exists
<1> QED
  BY Zenon, <1>1, <1>3, <1>4, <1>5, <1>6, <1>7 DEF Settled

\* A request that has written goes on, or ends.
LEMMA Writes ==
  ASSUME Inv, Settled, NEW r \in Requests, issued' \in Nat, UNCHANGED now,
         \/ reqs' = [reqs EXCEPT ![r] = Idle]
         \/ \E q \in Form, pc \in Pcs \ Writing :
              Goto(r, q, pc) /\ q.hash = reqs[r].hash /\ q.newHash = reqs[r].newHash
  PROVE  Inv'
<1>0. /\ reqs \in [Requests -> Form] /\ Idle \in Form /\ SoundAt(Idle, "idle") /\ Idle.pc = "idle"
      /\ SoundAt(reqs[r], reqs[r].pc) /\ Grows /\ Types
  BY ZenonT(30), IdleIsSound DEF Inv, Types, Forms, Settled
<1>1. CASE reqs' = [reqs EXCEPT ![r] = Idle]
  <2>1. reqs' \in [Requests -> Form] /\ reqs'[r] = Idle /\ \A x \in Requests : x # r => reqs'[x] = reqs[x]
    BY ZenonT(30), <1>0, <1>1
  <2>2. SoundAt(reqs[r], reqs[r].pc)'
    BY <1>0, <2>1, SoundKept DEF SoundAt
  <2>3. Forms'
    BY Zenon, <1>0, <2>1, <2>2, FormsKept DEF Inv
  <2> QED
    BY ZenonT(30), <2>1, <2>3 DEF Inv, Types, Settled, Grows
<1>2. CASE \E q \in Form, pc \in Pcs \ Writing :
             Goto(r, q, pc) /\ q.hash = reqs[r].hash /\ q.newHash = reqs[r].newHash
  <2>1. PICK q \in Form, pc \in Pcs \ Writing :
           Goto(r, q, pc) /\ q.hash = reqs[r].hash /\ q.newHash = reqs[r].newHash
    BY ZenonT(30), <1>2
  <2>2. /\ reqs' \in [Requests -> Form] /\ \A x \in Requests : x # r => reqs'[x] = reqs[x]
        /\ reqs'[r].pc = pc /\ reqs'[r].hash = q.hash /\ reqs'[r].newHash = q.newHash
    BY SMTT(30), <1>0, <2>1, GoesOn
  <2>3. SoundAt(q, pc)
    BY ZenonT(30), <1>0, <2>1 DEF SoundAt
  <2>4. SoundAt(q, pc)'
    BY ZenonT(30), <1>0, <2>3, SoundKept
  <2>5. SoundAt(reqs[r], reqs[r].pc)'
    BY ZenonT(30), <2>1, <2>2, <2>4 DEF SoundAt
  <2>6. Forms'
    BY ZenonT(30), <1>0, <2>2, <2>5, FormsKept DEF Inv
  <2> QED
    BY ZenonT(30), <2>2, <2>6 DEF Inv, Types, Settled, Grows
<1> QED
  BY ZenonT(30), <1>1, <1>2

\* A password is hashed.
LEMMA HashStep ==
  ASSUME Inv, NEW r \in Requests, HashPassword(r)
  PROVE  Inv'
<1> DEFINE q == reqs[r]
           f == [q EXCEPT !.newHash = Len(hashes) + 1]
<1>0. /\ q \in Form /\ SoundAt(q, "hash") /\ Types /\ q.pc = "hash" /\ reqs \in [Requests -> Form]
      /\ q.hash \in Nat /\ q.new \in Given
  BY ZenonT(30) DEF Inv, Types, Forms, HashPassword, At, Form
<1>1. hashes \in Seq(Given) /\ Len(hashes) \in Nat /\ created \in Nat
  BY DEF Inv, Types
<1>2. UNCHANGED <<users, created, sessions, issued, now>> /\ hashes' = Append(hashes, q.new) /\ Goto(r, f, "commit")
  BY Zenon DEF HashPassword, tables
<1>3. /\ hashes' \in Seq(Given) /\ Len(hashes') = Len(hashes) + 1
      /\ \A h \in 1 .. Len(hashes) : hashes'[h] = hashes[h]
  BY <1>0, <1>1, <1>2
<1>4. f \in Form
  <2>1. Len(hashes) + 1 \in Nat
    BY <1>1
  <2> QED
    BY <1>0, <2>1, ZenonT(30) DEF Form, Given
<1>5. f.hash = q.hash /\ f.newHash = Len(hashes) + 1 /\ f.op = q.op /\ f.user = q.user /\ f.pass = q.pass
  BY <1>0 DEF Form
<1> HIDE DEF q, f
<1>6. Grows
  BY SMTT(30), <1>1, <1>2, <1>3 DEF Grows
<1>7. /\ reqs' \in [Requests -> Form] /\ \A x \in Requests : x # r => reqs'[x] = reqs[x]
      /\ reqs'[r].pc = "commit" /\ reqs'[r].op = f.op /\ reqs'[r].user = f.user /\ reqs'[r].pass = f.pass
      /\ reqs'[r].hash = f.hash /\ reqs'[r].newHash = f.newHash
  BY SMTT(30), <1>0, <1>2, <1>4, GoesOn DEF Pcs
<1>8. SoundAt(reqs[r], reqs[r].pc)'
  <2>1. f.hash <= Len(hashes') /\ f.newHash <= Len(hashes')
    BY <1>0, <1>1, <1>3, <1>5 DEF SoundAt
  <2>2. f.op = "password" => f.hash # 0 /\ hashes'[f.hash] = f.pass
    BY SMTT(30), <1>0, <1>1, <1>3, <1>5 DEF SoundAt, Writing
  <2>3. f.op \in {"update", "reset", "delete"} => f.user \in UserIds /\ f.user <= created' /\ users'[f.user].role # "admin"
    BY SMTT(30), <1>0, <1>2, <1>5 DEF SoundAt, Writing
  <2> QED
    BY SMTT(30), <1>7, <2>1, <2>2, <2>3 DEF SoundAt
<1>9. Forms'
  BY SMTT(30), <1>0, <1>6, <1>7, <1>8, FormsKept DEF Inv
<1>10. Types'
  BY SMTT(30), <1>2, <1>3, <1>7 DEF Inv, Types
<1>11. Rows'
  <2>1. \A u \in UserIds : users[u].hash \in Nat
    BY ZenonT(30), <1>0 DEF Types, UserRow
  <2> QED
    BY <1>1, <1>2, <1>3, <2>1 DEF Inv, Rows
<1>12. OnePermanentAdmin' /\ SessionsFollowPassword'
  BY <1>2 DEF Inv, OnePermanentAdmin, SessionsFollowPassword, HasUsers, Active, Exists
<1> QED
  BY <1>9, <1>10, <1>11, <1>12 DEF Inv

\* The conditional writes of the handlers.
LEMMA CommitSteps ==
  ASSUME Inv, NEW r \in Requests,
         \/ SetupAdmin(r) \/ CreateMember(r) \/ ChangeUserPassword(r) \/ ChangeUsername(r)
         \/ ResetUserPassword(r) \/ UpdateUser(r) \/ DeleteMember(r)
  PROVE  Inv'
<1> DEFINE q == reqs[r]
<1>0. /\ q \in Form /\ SoundAt(q, "commit") /\ q.pc = "commit" /\ Types /\ issued \in Nat /\ created \in Nat
      /\ users \in [UserIds -> UserRow] /\ UNCHANGED <<hashes, now>>
  BY Zenon DEF Inv, Types, Forms, At, Commit, SetupAdmin, CreateMember, ChangeUserPassword, ChangeUsername,
         ResetUserPassword, UpdateUser, DeleteMember
<1>1. /\ q.hash \in Nat /\ q.newHash \in Nat /\ q.newHash <= Len(hashes) /\ q.name \in Names \cup {""}
  BY <1>0 DEF Form, SoundAt
<1>h. /\ hashes' \in Seq(Given) /\ Len(hashes) \in Nat /\ Len(hashes) <= Len(hashes')
      /\ \A h \in 1 .. Len(hashes) : hashes'[h] = hashes[h]
  BY <1>0 DEF Types
<1>2. UNCHANGED <<users, created, sessions>> => Settled
  <2> SUFFICES ASSUME UNCHANGED <<users, created, sessions>> PROVE Settled
    BY SMTT(30)
  <2>1. Shrinks
    BY Zenon, <1>0, NothingGoes
  <2>2. Rows' /\ OnePermanentAdmin' /\ SessionsFollowPassword' /\ Grows
    BY Zenon, <1>0, <2>1, Quiet
  <2> QED
    BY Zenon, <1>0, <2>1, <2>2 DEF Settled, Shrinks
<1>3. ASSUME Settled, Finish(r), issued' \in Nat PROVE Inv'
  BY ZenonT(30), <1>0, <1>3, Writes DEF Finish
<1>4. ASSUME Settled, issued' \in Nat, NEW f \in Form, NEW pc \in Pcs \ Writing,
             Goto(r, f, pc), f.hash = q.hash, f.newHash = q.newHash
      PROVE  Inv'
  BY Zenon, <1>0, <1>4, Writes
<1>5. ASSUME NEW u \in UserIds, users[u].role # "none", NEW must \in BOOLEAN, users[u].role = "admin" => ~must,
             SetPassword(u, q.newHash, must)
      PROVE  Settled
  <2> DEFINE row == [users[u] EXCEPT !.hash = q.newHash, !.must = must]
  <2>1. users[u] \in UserRow
    BY Zenon, <1>0
  <2>2. row \in UserRow
    BY <1>1, <2>1, Zenon DEF UserRow
  <2>3. row.role = users[u].role /\ row.hash = q.newHash /\ row.must = must /\ row.status = users[u].status
    BY Zenon, <2>1 DEF UserRow
  <2>4. users' = [users EXCEPT ![u] = row]
    BY ZenonT(30), <1>0, <1>5 DEF SetPassword
  <2>5. row.role = "admin" => row.status = "active"
    BY Zenon, <1>5, <2>3 DEF Inv, OnePermanentAdmin, HasUsers, Exists
  <2> HIDE DEF row
  <2> QED
    BY ZenonT(30), <1>0, <1>1, <1>h, <1>5, <2>2, <2>3, <2>4, <2>5, RowWritten DEF SetPassword
<1>6. ASSUME NEW role \in {"admin", "member"}, NEW must \in BOOLEAN, Insert(role, q, must),
             \/ role = "admin" /\ ~must /\ ~HasUsers
             \/ role = "member" /\ \E a \in UserIds : users[a].role = "admin"
      PROVE  Settled
  <2> DEFINE row == [role |-> role, name |-> q.name, status |-> "active", hash |-> q.newHash, must |-> must]
  <2>1. row \in UserRow
    BY Zenon, <1>1 DEF UserRow
  <2>2. row.role = role /\ row.status = "active" /\ row.hash = q.newHash /\ row.must = must
    BY Zenon
  <2>3. users' = [users EXCEPT ![created + 1] = row] /\ UNCHANGED sessions /\ created < MaxUsers /\ created' = created + 1
    BY Zenon, <1>6 DEF Insert
  <2> HIDE DEF row
  <2> QED
    BY Zenon, <1>0, <1>1, <1>6, <2>1, <2>2, <2>3, RowAdded
<1>7. CASE SetupAdmin(r)
  <2>1. CASE HasUsers
    BY ZenonT(30), <1>0, <1>2, <1>3, <1>7, <2>1 DEF SetupAdmin, tables
  <2>2. CASE ~HasUsers
    BY ZenonT(30), <1>0, <1>4, <1>6, <1>7, <2>2 DEF SetupAdmin, Insert, Pcs, Writing
  <2> QED
    BY Zenon, <2>1, <2>2
<1>8. CASE CreateMember(r)
  BY Zenon, <1>0, <1>2, <1>3, <1>6, <1>8 DEF CreateMember, Insert, tables
<1>9. ASSUME NEW ok \in BOOLEAN, Goto(r, [q EXCEPT !.ok = ok], "record"), Settled, UNCHANGED issued
      PROVE  Inv'
  <2> DEFINE f == [q EXCEPT !.ok = ok]
  <2>1. f \in Form
    BY <1>0, Zenon DEF Form
  <2>2. f.hash = q.hash /\ f.newHash = q.newHash
    BY Zenon, <1>0 DEF Form
  <2> HIDE DEF f
  <2> QED
    BY Zenon, <1>0, <1>4, <1>9, <2>1, <2>2 DEF Pcs, Writing, f
<1>10. CASE ChangeUserPassword(r)
  <2>1. Settled
    BY Zenon, <1>0, <1>2, <1>5, <1>10 DEF ChangeUserPassword, tables, Current, Active, Exists
  <2>2. Current(q) \in BOOLEAN
    BY Zenon DEF Current, Active, Exists
  <2> QED
    BY Zenon, <1>9, <1>10, <2>1, <2>2 DEF ChangeUserPassword, SetPassword, tables
<1>11. CASE ChangeUsername(r)
  <2> DEFINE fits == Current(q) /\ ~users[q.user].must /\ ~Taken(q.name, q.user)
  <2>1. ASSUME fits PROVE Settled
    <3> DEFINE u == q.user
               row == [users[u] EXCEPT !.name = q.name]
    <3>1. u \in UserIds /\ users[u].role # "none" /\ users[u].status = "active" /\ users[u] \in UserRow
      BY Zenon, <1>0, <2>1 DEF Current, Active, Exists
    <3>2. row \in UserRow
      BY <1>1, <3>1, Zenon DEF UserRow
    <3>3. row.role = users[u].role /\ row.hash = users[u].hash /\ row.must = users[u].must /\ row.status = "active"
      BY Zenon, <3>1 DEF UserRow
    <3>4. users' = [users EXCEPT ![u] = row] /\ UNCHANGED <<created, sessions>>
      BY Zenon, <1>11, <2>1 DEF ChangeUsername
    <3>5. row.hash <= Len(hashes) /\ (row.role = "admin" => ~row.must)
      BY Zenon, <3>1, <3>3 DEF Inv, Rows
    <3> HIDE DEF row, u
    <3> QED
      BY Zenon, <1>0, <1>h, <3>1, <3>2, <3>3, <3>4, <3>5, RowWritten
  <2>2. ASSUME ~fits PROVE Settled
    BY Zenon, <1>2, <1>11, <2>2 DEF ChangeUsername
  <2> QED
    <3>1. Settled
      BY Zenon, <2>1, <2>2
    <3>2. fits \in BOOLEAN
      BY Zenon DEF Current, Active, Exists
    <3> QED
      BY ZenonT(30), <1>9, <1>11, <3>1, <3>2 DEF ChangeUsername
<1>12. CASE ResetUserPassword(r)
  <2>1. q.user \in UserIds /\ users[q.user].role # "admin"
    BY Zenon, <1>0, <1>12 DEF ResetUserPassword, Commit, SoundAt, Writing
  <2>2. Settled
    BY ZenonT(30), <1>0, <1>2, <1>5, <1>12, <2>1 DEF ResetUserPassword, Exists, tables
  <2> QED
    BY Zenon, <1>0, <1>3, <1>12, <2>2 DEF ResetUserPassword, SetPassword, tables
<1>13. CASE UpdateUser(r)
  <2> DEFINE u == q.user
  <2>1. u \in UserIds /\ users[u].role # "admin" /\ users[u] \in UserRow
    BY Zenon, <1>0, <1>13 DEF UpdateUser, Commit, SoundAt, Writing
  <2>2. ASSUME NEW n \in Names, NEW status \in {"active", "disabled"}, Exists(u),
               users' = [users EXCEPT ![u].name = n, ![u].status = status], UNCHANGED created,
               sessions' = IF status = "disabled" THEN WithoutSessionsOf(u) ELSE sessions
        PROVE  Settled
    <3> DEFINE row == [users[u] EXCEPT !.name = n, !.status = status]
    <3>1. row \in UserRow
      BY <2>1, Zenon DEF UserRow
    <3>2. row.role = users[u].role /\ row.hash = users[u].hash /\ row.status = status
      BY Zenon, <2>1 DEF UserRow
    <3>3. users' = [users EXCEPT ![u] = row]
      BY Zenon, <2>2
    <3>4. row.hash <= Len(hashes)
      BY Zenon, <2>1, <3>2 DEF Inv, Rows
    <3>5. users[u].role # "none"
      BY Zenon, <2>2 DEF Exists
    <3> HIDE DEF row, u
    <3> QED
      BY ZenonT(30), <1>0, <1>h, <2>1, <2>2, <3>1, <3>2, <3>3, <3>4, <3>5, RowWritten
  <2>3. Settled /\ UNCHANGED issued /\ Finish(r)
    BY ZenonT(30), <1>2, <1>13, <2>2 DEF UpdateUser, tables
  <2> QED
    BY Zenon, <1>0, <1>3, <2>3
<1>14. CASE DeleteMember(r)
  <2>1. Settled
    BY Zenon, <1>0, <1>2, <1>14, RowRemoved DEF DeleteMember, Exists, tables
  <2> QED
    BY ZenonT(30), <1>0, <1>3, <1>14, <2>1 DEF DeleteMember, tables
<1> QED
  BY Zenon, <1>7, <1>8, <1>10, <1>11, <1>12, <1>13, <1>14

\* A session is issued for the password that was checked.
LEMMA IssueStep ==
  ASSUME Inv, NEW r \in Requests, NewSession(r)
  PROVE  Inv'
<1> DEFINE q == reqs[r]
           row == [user |-> q.user, hash |-> q.hash, expires |-> now + Lifetime, seen |-> now]
<1>0. /\ q \in Form /\ Types /\ issued \in Nat /\ UNCHANGED <<users, created, hashes, now>>
      /\ users \in [UserIds -> UserRow] /\ sessions \in [SessionIds -> SessionRow]
  BY Zenon DEF Inv, Types, NewSession
<1>1. CASE ~Current(q)
  <2>1. Shrinks /\ UNCHANGED issued
    BY Zenon, <1>0, <1>1, NothingGoes DEF NewSession
  <2>2. Settled
    BY Zenon, <1>0, <2>1, Quiet DEF Settled, Shrinks
  <2> QED
    BY Zenon, <1>0, <1>1, <2>1, <2>2, Writes DEF NewSession, Finish, Pcs, Writing
<1>2. CASE Current(q)
  <2>1. PICK k \in Kept(q.user) :
          sessions' = [s \in SessionIds |->
            IF s = issued + 1 THEN row
            ELSE IF sessions[s].user = q.user /\ s \notin k THEN NoSession ELSE sessions[s]]
    BY Zenon, <1>2 DEF NewSession
  <2>2. row \in SessionRow /\ row.user = q.user /\ row.hash = q.hash
    <3>1. q.user \in Nat /\ q.hash \in Nat
      BY Zenon, <1>0 DEF Form
    <3>2. now \in Nat /\ now + Lifetime \in Nat
      BY <1>0, AccountsAssumption DEF AccountsAssumption, Types
    <3> QED
      BY Zenon, <3>1, <3>2 DEF SessionRow
  <2>3. NoSession \in SessionRow /\ NoSession.user = 0
    BY Zenon DEF NoSession, SessionRow
  <2> HIDE DEF row
  <2>4. /\ sessions' \in [SessionIds -> SessionRow]
        /\ \A s \in SessionIds : sessions'[s] \in {row, NoSession, sessions[s]}
    BY Zenon, <1>0, <2>1, <2>2, <2>3
  <2>5. SessionsFollowPassword'
    BY Zenon, <1>0, <1>2, <2>2, <2>3, <2>4 DEF Inv, SessionsFollowPassword, Current, Active, Exists
  <2>6. Rows' /\ OnePermanentAdmin' /\ Grows
    <3>1. created \in Nat /\ hashes \in Seq(Given) /\ Len(hashes) \in Nat
      BY <1>0 DEF Types
    <3> QED
      BY <1>0, <3>1 DEF Inv, Rows, OnePermanentAdmin, HasUsers, Exists, Grows
  <2>7. Settled
    BY Zenon, <1>0, <2>4, <2>5, <2>6 DEF Settled
  <2>8. issued' = issued + 1 /\ issued' \in Nat /\ issued + 1 \in Nat
    BY <1>0, <1>2 DEF NewSession
  <2>9. CASE Finish(r)
    BY Zenon, <1>0, <2>7, <2>8, <2>9, Writes DEF Finish
  <2>10. CASE Goto(r, [q EXCEPT !.session = issued + 1, !.ok = TRUE], "record")
    <3> DEFINE f == [q EXCEPT !.session = issued + 1, !.ok = TRUE]
    <3>1. f \in Form
      BY <1>0, <2>8, Zenon DEF Form
    <3>2. f.hash = q.hash /\ f.newHash = q.newHash
      BY ZenonT(30), <1>0 DEF Form
    <3> HIDE DEF f
    <3> QED
      BY Zenon, <1>0, <2>7, <2>8, <2>10, <3>1, <3>2, Writes DEF Pcs, Writing, f
  <2> QED
    BY Zenon, <1>2, <2>9, <2>10 DEF NewSession
<1> QED
  BY Zenon, <1>1, <1>2

\* The host's recovery command.
LEMMA RecoveryStep ==
  ASSUME Inv, ResetAdministratorPassword
  PROVE  Inv'
<1>0. /\ Types /\ users \in [UserIds -> UserRow] /\ hashes \in Seq(Given) /\ Len(hashes) \in Nat
      /\ UNCHANGED <<created, issued, reqs, now>>
  BY SMTT(30) DEF Inv, Types, ResetAdministratorPassword
<1>1. PICK u \in UserIds, p \in Passwords :
        /\ users[u].role = "admin" /\ hashes' = Append(hashes, p)
        /\ users' = [users EXCEPT ![u].hash = Len(hashes) + 1, ![u].must = FALSE, ![u].status = "active"]
        /\ sessions' = WithoutSessionsOf(u)
  BY Zenon DEF ResetAdministratorPassword
<1>2. p \in Given
  BY Zenon DEF Given
<1>3. /\ hashes' \in Seq(Given) /\ Len(hashes') = Len(hashes) + 1 /\ Len(hashes) <= Len(hashes')
      /\ \A h \in 1 .. Len(hashes) : hashes'[h] = hashes[h]
  BY <1>0, <1>1, <1>2
<1> DEFINE row == [users[u] EXCEPT !.hash = Len(hashes) + 1, !.must = FALSE, !.status = "active"]
<1>4. users[u] \in UserRow /\ Len(hashes) + 1 \in Nat
  BY <1>0
<1>5. row \in UserRow
  BY <1>4, Zenon DEF UserRow
<1>6. row.role = users[u].role /\ row.hash = Len(hashes) + 1 /\ row.must = FALSE /\ row.status = "active"
  BY Zenon, <1>4 DEF UserRow
<1>7. users' = [users EXCEPT ![u] = row]
  BY Zenon, <1>0, <1>1
<1>8. row.hash <= Len(hashes')
  BY <1>3, <1>4, <1>6
<1> HIDE DEF row
<1>9. Settled
  BY ZenonT(30), <1>0, <1>1, <1>3, <1>5, <1>6, <1>7, <1>8, RowWritten
<1>10. Forms'
  <2> SUFFICES ASSUME NEW x \in Requests PROVE SoundAt(reqs[x], reqs[x].pc)'
    BY Zenon DEF Forms
  <2>1. SoundAt(reqs[x], reqs[x].pc) /\ reqs[x] \in Form /\ reqs'[x] = reqs[x]
    BY Zenon, <1>0 DEF Inv, Forms, Types
  <2> QED
    BY Zenon, <1>0, <1>9, <2>1, SoundKept DEF SoundAt, Settled
<1> QED
  BY Zenon, <1>0, <1>9, <1>10 DEF Inv, Types, Settled, Grows

\* Every step keeps the invariant.
LEMMA Inductive ==
  ASSUME Inv, [Next]_vars
  PROVE  Inv'
<1>1. ASSUME UNCHANGED <<users, created, issued, hashes, reqs>>, now' \in Nat, Shrinks
      PROVE  Inv'
  <2>1. Rows' /\ OnePermanentAdmin' /\ SessionsFollowPassword'
    BY Zenon, <1>1, Quiet
  <2>2. Forms'
    BY Zenon, <1>1 DEF Inv, Forms, SoundAt
  <2> QED
    BY Zenon, <1>1, <2>1, <2>2 DEF Inv, Types, Shrinks
<1>2. UNCHANGED sessions => Shrinks
  BY Zenon, NothingGoes DEF Inv
<1>3. now \in Nat /\ now + 1 \in Nat
  BY DEF Inv, Types
<1>4. ASSUME NEW r \in Requests, Step(r) PROVE Inv'
  BY Zenon, <1>4, LookSteps, SessionSteps, HashStep, CommitSteps, IssueStep DEF Step
<1>5. CASE RefuseSetup \/ Tick \/ UNCHANGED vars
  BY Zenon, <1>1, <1>2, <1>3, <1>5 DEF RefuseSetup, Tick, vars, tables
<1>6. CASE PurgeExpiredSessions
  <2>1. NoSession \in SessionRow /\ NoSession.user = 0
    BY Zenon DEF NoSession, SessionRow
  <2>2. sessions \in [SessionIds -> SessionRow]
    BY Zenon DEF Inv, Types
  <2>3. Shrinks
    BY Zenon, <1>6, <2>1, <2>2 DEF PurgeExpiredSessions, Shrinks
  <2> QED
    BY Zenon, <1>1, <1>3, <1>6, <2>3 DEF PurgeExpiredSessions
<1> QED
  BY Zenon, <1>4, <1>5, <1>6, RecoveryStep DEF Next

\* What the tables and the requests hold fits together, however requests, the recovery
\* command and time interleave.
THEOREM InvariantHolds == Spec => []Inv
<1>1. Init => Inv
  <2> SUFFICES ASSUME Init PROVE Inv
    BY Zenon
  <2>1. NoUser \in UserRow /\ NoUser.role = "none" /\ NoUser.hash = 0
    BY Zenon DEF NoUser, UserRow
  <2>2. NoSession \in SessionRow /\ NoSession.user = 0
    BY Zenon DEF NoSession, SessionRow
  <2>3. Idle \in Form /\ Idle.hash = 0 /\ Idle.newHash = 0 /\ Idle.op = "none"
    BY Zenon DEF Idle, Form, Given, Pcs
  <2>4. hashes \in Seq(Given) /\ Len(hashes) = 0
    BY DEF Init
  <2>5. Types
    BY Zenon, <2>1, <2>2, <2>3, <2>4 DEF Init, Types
  <2>6. Rows /\ Forms
    BY <2>1, <2>3, <2>4 DEF Init, Rows, Forms, SoundAt
  <2>7. OnePermanentAdmin /\ SessionsFollowPassword
    BY Zenon, <2>1, <2>2 DEF Init, OnePermanentAdmin, SessionsFollowPassword, HasUsers, Exists
  <2> QED
    BY Zenon, <2>5, <2>6, <2>7 DEF Inv
<1> QED
  BY <1>1, Inductive, PTL DEF Spec

\* Every session in the table belongs to an active account and was issued for the
\* password that account has now: NewSession compares the hash that was checked with
\* the account's, and every change of either revokes.
THEOREM SessionsBelongToThePassword == Spec => []SessionsFollowPassword
<1>1. Inv => SessionsFollowPassword
  BY Zenon DEF Inv
<1> QED
  BY <1>1, InvariantHolds, PTL

\* Once there are accounts exactly one is an administrator, and it is active: SetupAdmin
\* runs once, and no request demotes, disables or deletes it.
THEOREM TheAdministratorStays == Spec => []OnePermanentAdmin
<1>1. Inv => OnePermanentAdmin
  BY Zenon DEF Inv
<1> QED
  BY <1>1, InvariantHolds, PTL

\* What a step does to the sessions, when it does anything: they go, one that can
\* be used is refreshed, or one is issued.
LEMMA SessionMoves ==
  ASSUME Inv, Next
  PROVE  /\ now' \in Nat /\ now <= now'
         /\ \A s \in SessionIds : s <= issued =>
              \/ sessions'[s] = sessions[s] \/ sessions'[s].user = 0 \/ Usable(s)
<1>0. /\ now \in Nat /\ issued \in Nat /\ sessions \in [SessionIds -> SessionRow] /\ NoSession.user = 0 /\ Types
  BY Zenon DEF Inv, Types, NoSession
<1>1. /\ UNCHANGED now \/ Tick
  BY ZenonT(30) DEF Next, Step, Login, Setup, Authenticate, Touch, BeginAccountChange, Lookup, Verify, BeginHash, HashPassword,
         SetupAdmin, CreateMember, ChangeUserPassword, ChangeUsername, ResetUserPassword, UpdateUser, DeleteMember,
         NewSession, Record, Logout, Fails, Commit, RefuseSetup, ResetAdministratorPassword, PurgeExpiredSessions
<1>2. now' \in Nat /\ now <= now'
  BY <1>0, <1>1 DEF Tick
<1> SUFFICES ASSUME NEW s \in SessionIds, s <= issued
             PROVE  sessions'[s] = sessions[s] \/ sessions'[s].user = 0 \/ Usable(s)
  BY Zenon, <1>2
<1>3. CASE UNCHANGED sessions
  BY Zenon, <1>3
<1>4. ASSUME NEW u, sessions' = WithoutSessionsOf(u)
      PROVE  sessions'[s] = sessions[s] \/ sessions'[s].user = 0
  BY Zenon, <1>0, <1>4 DEF WithoutSessionsOf
<1>5. ASSUME NEW x, DeleteSession(x)
      PROVE  sessions'[s] = sessions[s] \/ sessions'[s].user = 0
  BY Zenon, <1>0, <1>5 DEF DeleteSession
<1>6. ASSUME NEW r \in Requests, Touch(r)
      PROVE  sessions'[s] = sessions[s] \/ Usable(s)
  BY Zenon, <1>0, <1>6 DEF Touch, TouchCondition
<1>7. ASSUME NEW r \in Requests, NewSession(r)
      PROVE  sessions'[s] = sessions[s] \/ sessions'[s].user = 0
  <2>1. s # issued + 1
    BY <1>0 DEF SessionIds
  <2> QED
    BY Zenon, <1>0, <1>7, <2>1 DEF NewSession
<1>8. CASE PurgeExpiredSessions
  BY Zenon, <1>0, <1>8 DEF PurgeExpiredSessions
<1>9. ASSUME NEW r \in Requests, Step(r), ~Touch(r), ~NewSession(r)
      PROVE  UNCHANGED sessions \/ (\E u : sessions' = WithoutSessionsOf(u)) \/ \E x : DeleteSession(x)
  <2>1. CASE UpdateUser(r)
    BY Zenon, <2>1 DEF UpdateUser, tables
  <2>2. CASE SetupAdmin(r) \/ CreateMember(r) \/ ChangeUserPassword(r) \/ ChangeUsername(r)
             \/ ResetUserPassword(r) \/ DeleteMember(r)
    BY Zenon, <2>2 DEF SetupAdmin, CreateMember, ChangeUserPassword, ChangeUsername, ResetUserPassword, DeleteMember,
                Insert, SetPassword, tables
  <2>3. CASE Logout(r) \/ Fails(r)
    BY Zenon, <2>3 DEF Logout, Fails
  <2>4. CASE Login(r) \/ Setup(r) \/ (\E x \in SessionIds : Authenticate(r, x)) \/ BeginAccountChange(r)
             \/ Lookup(r) \/ Verify(r) \/ BeginHash(r) \/ HashPassword(r) \/ Record(r)
    BY ZenonT(30), <2>4 DEF Login, Setup, Authenticate, BeginAccountChange, Lookup, Verify, BeginHash, HashPassword,
                Record, tables
  <2> QED
    BY Zenon, <1>9, <2>1, <2>2, <2>3, <2>4 DEF Step
<1>10. CASE RefuseSetup \/ Tick \/ ResetAdministratorPassword
  BY Zenon, <1>3, <1>4, <1>10 DEF RefuseSetup, Tick, ResetAdministratorPassword, tables
<1> QED
  BY Zenon, <1>3, <1>4, <1>5, <1>6, <1>7, <1>8, <1>9, <1>10 DEF Next

\* A session that could not be used any more never becomes usable again: TouchSession
\* looks again before it refreshes, ids are not given twice, and an account that is
\* enabled again has no sessions.
THEOREM NoSessionRevives == Spec => DeadSessionsStayDead
<1>1. Inv /\ [Next]_vars => [\A s \in SessionIds : s <= issued /\ ~Usable(s) => ~Usable(s)']_vars
  <2> SUFFICES ASSUME Inv, Next, NEW s \in SessionIds, s <= issued, ~Usable(s), Usable(s)'
               PROVE  FALSE
    BY Zenon DEF vars
  <2>1. /\ now \in Nat /\ now' \in Nat /\ now <= now' /\ sessions'[s] = sessions[s]
        /\ sessions[s].expires \in Nat /\ sessions[s].seen \in Nat /\ IdleTimeout \in Nat
    <3>1. now' \in Nat /\ now <= now' /\ sessions'[s] = sessions[s]
      BY Zenon, SessionMoves DEF Usable
    <3>2. sessions[s] \in SessionRow /\ now \in Nat
      BY Zenon DEF Inv, Types
    <3> QED
      BY Zenon, <3>1, <3>2, AccountsAssumption DEF AccountsAssumption, SessionRow
  <2>2. Active(sessions[s].user)
    BY Zenon, <2>1 DEF Usable, Inv, SessionsFollowPassword
  <2> QED
    BY <2>1, <2>2 DEF Usable
<1> QED
  BY <1>1, InvariantHolds, PTL DEF Spec, DeadSessionsStayDead

\* A temporary password is replaced, its change no longer due, only by a request that
\* has checked that very password: ChangeUserPassword writes only over the hash it
\* verified, and the recovery command is for the administrator, who has none.
THEOREM TemporaryPasswordsStand == Spec => TemporaryPasswordStands
<1>1. Inv /\ [Next]_vars =>
        [\A u \in UserIds : Exists(u) /\ users[u].must /\ ~users'[u].must /\ users'[u].role # "none" =>
           \E r \in Requests : reqs[r].user = u /\ reqs[r].hash = users[u].hash
                                /\ reqs[r].pass = hashes[users[u].hash]]_vars
  <2> SUFFICES ASSUME Inv, Next, NEW u \in UserIds, Exists(u), users[u].must, ~users'[u].must,
                      users'[u].role # "none"
               PROVE  \E r \in Requests : reqs[r].user = u /\ reqs[r].hash = users[u].hash
                                           /\ reqs[r].pass = hashes[users[u].hash]
    BY Zenon DEF vars
  <2>0. /\ users \in [UserIds -> UserRow] /\ created \in Nat /\ users[u].role # "none"
        /\ users[u].role # "admin" /\ u \in Nat /\ u <= created
    BY SMTT(30) DEF Inv, Types, Rows, Exists, UserIds
  <2>1. users' # users
    BY Zenon
  <2>2. ASSUME NEW r \in Requests, ChangeUserPassword(r)
        PROVE  reqs[r].user = u /\ reqs[r].hash = users[u].hash /\ reqs[r].pass = hashes[users[u].hash]
    <3>1. Current(reqs[r]) /\ SetPassword(reqs[r].user, reqs[r].newHash, FALSE)
      BY Zenon, <2>1, <2>2 DEF ChangeUserPassword, tables
    <3>2. reqs[r].user = u
      BY Zenon, <2>0, <3>1 DEF SetPassword
    <3>3. SoundAt(reqs[r], "commit") /\ reqs[r].op = "password"
      BY Zenon, <2>2 DEF Inv, Forms, ChangeUserPassword, Commit, At
    <3> QED
      BY Zenon, <3>1, <3>2, <3>3 DEF Current, SoundAt, Writing
  <2>3. ASSUME NEW role, NEW q, NEW must, Insert(role, q, must) PROVE FALSE
    <3>1. u # created + 1
      BY <2>0
    <3> QED
      BY Zenon, <2>0, <2>3, <3>1 DEF Insert
  <2>4. ASSUME NEW r \in Requests, ResetUserPassword(r) PROVE FALSE
    <3>1. PICK w, h : users' = [users EXCEPT ![w].hash = h, ![w].must = TRUE]
      BY Zenon, <2>1, <2>4 DEF ResetUserPassword, SetPassword, tables
    <3>2. users'[u] = users[u] \/ users'[u] = [users[u] EXCEPT !.hash = h, !.must = TRUE]
      BY Zenon, <2>0, <3>1
    <3>3. users[u] \in UserRow
      BY Zenon, <2>0
    <3> QED
      BY Zenon, <3>2, <3>3 DEF UserRow
  <2>5. ASSUME NEW r \in Requests, ChangeUsername(r) PROVE FALSE
    BY Zenon, <2>0, <2>5 DEF ChangeUsername
  <2>6. ASSUME NEW r \in Requests, UpdateUser(r) PROVE FALSE
    <3>1. PICK w, n, status : users' = [users EXCEPT ![w].name = n, ![w].status = status]
      BY Zenon, <2>1, <2>6 DEF UpdateUser, tables
    <3>2. users'[u] = users[u] \/ users'[u] = [users[u] EXCEPT !.name = n, !.status = status]
      BY Zenon, <2>0, <3>1
    <3>3. users[u] \in UserRow
      BY <2>0
    <3> QED
      BY Zenon, <3>2, <3>3 DEF UserRow
  <2>7. ASSUME NEW r \in Requests, DeleteMember(r) PROVE FALSE
    <3>1. NoUser.role = "none"
      BY Zenon DEF NoUser
    <3> QED
      BY Zenon, <2>0, <2>7, <3>1 DEF DeleteMember, Remove, tables
  <2>8. ~ResetAdministratorPassword
    BY ZenonT(30), <2>0 DEF ResetAdministratorPassword
  <2>9. ASSUME NEW r \in Requests, Step(r)
        PROVE  \/ ChangeUserPassword(r) \/ ResetUserPassword(r) \/ ChangeUsername(r) \/ UpdateUser(r)
               \/ DeleteMember(r) \/ \E role, q, must : Insert(role, q, must)
    <3>1. CASE SetupAdmin(r) \/ CreateMember(r)
      BY Zenon, <2>1, <3>1 DEF SetupAdmin, CreateMember, tables
    <3>2. ~(Touch(r) \/ Logout(r) \/ Fails(r) \/ NewSession(r))
      BY Zenon, <2>1 DEF Touch, Logout, Fails, NewSession
    <3>3. ~(Login(r) \/ Setup(r) \/ (\E x \in SessionIds : Authenticate(r, x)) \/ BeginAccountChange(r)
            \/ Lookup(r) \/ Verify(r) \/ BeginHash(r) \/ HashPassword(r) \/ Record(r))
      BY ZenonT(30), <2>1 DEF Login, Setup, Authenticate, BeginAccountChange, Lookup, Verify, BeginHash, HashPassword,
                  Record, tables
    <3> QED
      BY ZenonT(30), <2>9, <3>1, <3>2, <3>3 DEF Step
  <2>10. ~(RefuseSetup \/ PurgeExpiredSessions \/ Tick)
    BY Zenon, <2>1 DEF RefuseSetup, PurgeExpiredSessions, Tick, tables
  <2> QED
    BY ZenonT(30), <2>2, <2>3, <2>4, <2>5, <2>6, <2>7, <2>8, <2>9, <2>10 DEF Next
<1> QED
  BY <1>1, InvariantHolds, PTL DEF Spec, TemporaryPasswordStands

-----------------------------------------------------------------------------
(* Limits. *)

\* A request that holds loginMu, and one that holds its account in accountChangeBusy.
Signing(q) == q.op \in {"login", "setup"}
Changing(q) == q.op \in {"password", "username"} /\ q.pc \notin {"touch", "begin"}

\* Which forms come to the steps that read and write login_attempts.
Purpose(op, pc) ==
  /\ pc = "begin" => op \in {"password", "username"}
  /\ pc \in {"lookup", "verify"} => op \in {"login", "setup", "password", "username"}
  /\ pc = "record" => op \in {"login", "password", "username"}

\* The two locks admit one sign-in, and one change of each account, at a time.
Serial ==
  /\ loginBusy \in BOOLEAN
  /\ \A r \in Requests : /\ Purpose(reqs[r].op, reqs[r].pc)
                         /\ Signing(reqs[r]) => loginBusy
                         /\ Changing(reqs[r]) => reqs[r].user \in changeBusy
  /\ \A r, x \in Requests :
       \/ Signing(reqs[r]) /\ Signing(reqs[x])
       \/ Changing(reqs[r]) /\ Changing(reqs[x]) /\ reqs[r].user = reqs[x].user
       => r = x

\* So what such a request read of login_attempts still holds: there is room for the
\* failure it may record.
Admitted(q) == q.op = "login" \/ Changing(q)
Rates ==
  /\ attempts \in [Keys -> SUBSET (Nat \X Nat)] /\ \A k \in Keys : IsFiniteSet(attempts[k])
  /\ \A r \in Requests : Admitted(reqs[r]) => \A k \in Keys \cap KeysOf(reqs[r]) : LoginRateLimit(k)
  /\ \A k \in Keys : Cardinality(Recent(k)) <= Limit(k)

Owned(u) == {s \in SessionIds : sessions[s].user = u}
Quota == \A u \in UserIds : Cardinality(Owned(u)) <= SessionLimit

Limited == Serial /\ Rates /\ Quota

\* Request r goes on: it posts the form it came with, and has the lock it had.
Continues(r) ==
  /\ reqs'[r].op = reqs[r].op
  /\ reqs[r].op = "login" => reqs'[r].name = reqs[r].name
  /\ reqs[r].op \in {"password", "username"} =>
       /\ reqs'[r].user = reqs[r].user
       /\ reqs'[r].pc \in {"touch", "begin"} <=> reqs[r].pc \in {"touch", "begin"}
  /\ Purpose(reqs'[r].op, reqs'[r].pc)
  /\ UNCHANGED locks

Others(r) == \A x \in Requests : x # r => reqs'[x] = reqs[x]

\* A step that goes on, or returns and unlocks, keeps the requests apart.
LEMMA SerialKept ==
  ASSUME Serial, NEW r \in Requests, Others(r),
         Continues(r) \/ (Finish(r) /\ reqs'[r] = Idle)
  PROVE  Serial'
<1>1. CASE Continues(r)
  BY <1>1, SMTT(30) DEF Serial, Continues, Others, Signing, Changing, locks
<1>2. CASE Finish(r) /\ reqs'[r] = Idle
  <2>0. Idle.op = "none" /\ Idle.pc = "idle"
    BY Zenon DEF Idle
  <2>1. reqs'[r].op = "none" /\ reqs'[r].pc = "idle"
    BY Zenon, <1>2, <2>0
  <2>2. /\ loginBusy' = (loginBusy /\ reqs[r].op \notin {"login", "setup"})
        /\ changeBusy' = IF reqs[r].op \in {"password", "username"} /\ reqs[r].pc \notin {"touch", "begin"}
                         THEN changeBusy \ {reqs[r].user} ELSE changeBusy
    BY Zenon, <1>2 DEF Finish
  <2> QED
    BY ZenonT(30), <2>1, <2>2 DEF Serial, Others, Signing, Changing, Purpose
<1> QED
  BY Zenon, <1>1, <1>2

\* Time passes and rows go: no more failures are recent.
LEMMA RecentShrinks ==
  ASSUME NEW k \in Keys, Rates, now \in Nat, now' \in Nat, now <= now', attempts'[k] \subseteq attempts[k]
  PROVE  /\ IsFiniteSet(attempts'[k]) /\ attempts'[k] \in SUBSET (Nat \X Nat)
         /\ LoginRateLimit(k) => LoginRateLimit(k)'
         /\ Cardinality(Recent(k)') <= Limit(k)
<1>1. IsFiniteSet(attempts[k]) /\ attempts[k] \in SUBSET (Nat \X Nat)
  BY Zenon DEF Rates
<1>2. IsFiniteSet(attempts'[k])
  BY Zenon, <1>1, FS_Subset
<1>3. IsFiniteSet(Recent(k))
  BY Zenon, <1>1, FS_Subset DEF Recent
<1>4. Recent(k)' \subseteq Recent(k)
  BY SMTT(30), <1>1, AccountsAssumption DEF Recent, AccountsAssumption
<1>5. IsFiniteSet(Recent(k)') /\ Cardinality(Recent(k)') <= Cardinality(Recent(k))
  BY Zenon, <1>3, <1>4, FS_Subset
<1>6. Cardinality(Recent(k)) \in Nat /\ Cardinality(Recent(k)') \in Nat
  BY Zenon, <1>3, <1>5, FS_CardinalityType
<1>7. Limit(k) \in Nat
  BY Zenon, AccountsAssumption DEF AccountsAssumption, Limit
<1> QED
  BY SMTT(30), <1>1, <1>2, <1>5, <1>6, <1>7 DEF Rates, LoginRateLimit, Limit

\* One more failure is recorded.
LEMMA RecentGrows ==
  ASSUME NEW k \in Keys, Rates, now \in Nat, UNCHANGED now, LoginRateLimit(k),
         attempts'[k] \subseteq attempts[k] \cup {NewAttempt(k)}
  PROVE  /\ IsFiniteSet(attempts'[k]) /\ attempts'[k] \in SUBSET (Nat \X Nat)
         /\ Cardinality(Recent(k)') <= Limit(k)
<1> DEFINE a == NewAttempt(k)
           more == Recent(k) \cup {a}
<1>1. IsFiniteSet(attempts[k]) /\ attempts[k] \in SUBSET (Nat \X Nat)
  BY Zenon DEF Rates
<1>2. IsFiniteSet(attempts[k] \cup {a})
  BY Zenon, <1>1, FS_AddElement
<1>3. IsFiniteSet(attempts'[k])
  BY Zenon, <1>2, FS_Subset
<1>4. a \in Nat \X Nat
  <2>1. IsFiniteSet({b \in attempts[k] : b[1] = now})
    BY Zenon, <1>1, FS_Subset
  <2>2. Cardinality({b \in attempts[k] : b[1] = now}) \in Nat
    BY Zenon, <2>1, FS_CardinalityType
  <2> QED
    BY <2>2 DEF NewAttempt
<1>5. IsFiniteSet(Recent(k))
  BY Zenon, <1>1, FS_Subset DEF Recent
<1>6. IsFiniteSet(more) /\ Cardinality(more) = IF a \in Recent(k) THEN Cardinality(Recent(k)) ELSE Cardinality(Recent(k)) + 1
  BY Zenon, <1>5, FS_AddElement
<1>7. Recent(k)' \in SUBSET more
  BY Zenon DEF Recent
<1>8. IsFiniteSet(Recent(k)') /\ Cardinality(Recent(k)') <= Cardinality(more)
  <2> HIDE DEF more
  <2> QED
    BY Zenon, <1>6, <1>7, FS_Subset
<1>9. Cardinality(Recent(k)) \in Nat /\ Cardinality(Recent(k)') \in Nat
  BY Zenon, <1>5, <1>8, FS_CardinalityType
<1>10. Limit(k) \in Nat
  BY Zenon, AccountsAssumption DEF AccountsAssumption, Limit
<1>11. Cardinality(Recent(k)') <= Limit(k)
  <2> HIDE DEF a, more
  <2> QED
    BY <1>6, <1>8, <1>9, <1>10 DEF LoginRateLimit
<1> QED
  BY Zenon, <1>1, <1>3, <1>4, <1>11

\* No row is written, and the requests read what still holds.
LEMMA RatesKept ==
  ASSUME Rates, now \in Nat, now' \in Nat, now <= now', UNCHANGED attempts,
         \A x \in Requests : Admitted(reqs'[x]) => \A k \in Keys \cap KeysOf(reqs'[x]) : LoginRateLimit(k)
  PROVE  Rates'
<1>1. ASSUME NEW k \in Keys
      PROVE  /\ LoginRateLimit(k) => LoginRateLimit(k)'
             /\ Cardinality(Recent(k)') <= Limit(k)
  BY Zenon, RecentShrinks
<1> QED
  BY Zenon, <1>1 DEF Rates, Limit

\* RecordLoginAttempts, for keys that had room and that nobody else is admitted by.
LEMMA RatesRecorded ==
  ASSUME Rates, now \in Nat, UNCHANGED now, NEW keys, NEW ok, RecordLoginAttempts(keys, ok),
         \A k \in Keys \cap keys : LoginRateLimit(k),
         \A x \in Requests : Admitted(reqs'[x]) =>
           \A k \in Keys \cap KeysOf(reqs'[x]) : LoginRateLimit(k) /\ k \notin keys
  PROVE  Rates'
<1>1. ASSUME NEW k \in Keys
      PROVE  attempts'[k] \subseteq attempts[k] \cup {NewAttempt(k)} /\ (k \notin keys => attempts'[k] \subseteq attempts[k])
  BY Zenon DEF RecordLoginAttempts
<1>2. ASSUME NEW k \in Keys
      PROVE  /\ IsFiniteSet(attempts'[k]) /\ attempts'[k] \in SUBSET (Nat \X Nat)
             /\ k \notin keys /\ LoginRateLimit(k) => LoginRateLimit(k)'
             /\ Cardinality(Recent(k)') <= Limit(k)
  <2>1. CASE k \in keys
    BY Zenon, <1>1, <2>1, RecentGrows
  <2>2. CASE k \notin keys
    BY SMTT(30), <1>1, <2>2, RecentShrinks
  <2> QED
    BY Zenon, <2>1, <2>2
<1>3. attempts' \in [Keys -> SUBSET (Nat \X Nat)]
  <2>1. attempts' = [k \in Keys |-> attempts'[k]]
    BY Zenon DEF RecordLoginAttempts
  <2> QED
    BY Zenon, <1>2, <2>1
<1> QED
  BY Zenon, <1>2, <1>3 DEF Rates, Limit

\* What a request was admitted by stays what it is admitted by.
LEMMA AdmittedKept ==
  ASSUME Rates, NEW r \in Requests, Others(r), Continues(r) \/ reqs'[r] = Idle
  PROVE  \A x \in Requests : Admitted(reqs'[x]) =>
           /\ Admitted(reqs[x]) /\ KeysOf(reqs'[x]) = KeysOf(reqs[x])
           /\ \A k \in Keys \cap KeysOf(reqs'[x]) : LoginRateLimit(k)
           /\ reqs'[r] = Idle => x # r
<1>1. Idle.op = "none"
  BY Zenon DEF Idle
<1>2. ~Admitted(Idle)
  BY Zenon, <1>1 DEF Admitted, Changing
<1>3. Continues(r) /\ Admitted(reqs'[r]) => Admitted(reqs[r]) /\ KeysOf(reqs'[r]) = KeysOf(reqs[r])
  BY ZenonT(30) DEF Continues, Admitted, Changing, KeysOf
<1> QED
  BY Zenon, <1>2, <1>3 DEF Rates, Others

\* Two admitted requests are admitted by different keys.
LEMMA KeysApart ==
  ASSUME Serial, NEW r \in Requests, NEW x \in Requests, r # x, Admitted(reqs[r]), Admitted(reqs[x])
  PROVE  KeysOf(reqs[r]) \cap KeysOf(reqs[x]) = {}
<1>1. ~(reqs[r].op = "login" /\ reqs[x].op = "login")
  BY Zenon DEF Serial, Signing
<1>2. ASSUME NEW y \in Requests, Admitted(reqs[y]), reqs[y].op # "login"
      PROVE  KeysOf(reqs[y]) = {<<"password-change", reqs[y].user>>} /\ Changing(reqs[y])
  BY Zenon, <1>2 DEF KeysOf, Admitted
<1>3. ASSUME NEW y \in Requests, reqs[y].op = "login"
      PROVE  KeysOf(reqs[y]) = {<<"ip">>, <<"ip-user", reqs[y].name>>}
  BY Zenon, <1>3 DEF KeysOf
<1>4. ASSUME NEW u, NEW n PROVE <<"password-change", u>> \notin {<<"ip">>, <<"ip-user", n>>}
  <2>1. <<"password-change", u>>[1] = "password-change" /\ <<"ip">>[1] = "ip" /\ <<"ip-user", n>>[1] = "ip-user"
    BY Zenon
  <2> QED
    BY Zenon, <2>1
<1>5. CASE reqs[r].op = "login"
  BY SMTT(30), <1>1, <1>2, <1>3, <1>4, <1>5
<1>6. CASE reqs[x].op = "login"
  BY SMTT(30), <1>1, <1>2, <1>3, <1>4, <1>6
<1>7. CASE reqs[r].op # "login" /\ reqs[x].op # "login"
  <2>1. reqs[r].user # reqs[x].user
    BY Zenon, <1>2, <1>7 DEF Serial
  <2>2. <<"password-change", reqs[r].user>> # <<"password-change", reqs[x].user>>
    BY Zenon, <2>1
  <2> QED
    BY Zenon, <1>2, <1>7, <2>2
<1> QED
  BY Zenon, <1>5, <1>6, <1>7

\* All other steps of a request go on or return, and write no attempt.
LEMMA RequestSteps ==
  ASSUME Inv, Serial, NEW r \in Requests,
         \/ Touch(r) \/ Lookup(r) \/ Verify(r) \/ BeginHash(r) \/ HashPassword(r) \/ SetupAdmin(r)
         \/ CreateMember(r) \/ ChangeUserPassword(r) \/ ChangeUsername(r) \/ ResetUserPassword(r)
         \/ UpdateUser(r) \/ DeleteMember(r) \/ NewSession(r) \/ Logout(r) \/ Fails(r)
  PROVE  Others(r) /\ (Continues(r) \/ (Finish(r) /\ reqs'[r] = Idle)) /\ UNCHANGED <<attempts, now>>
<1> DEFINE q == reqs[r]
           Goal == Others(r) /\ (Continues(r) \/ (Finish(r) /\ reqs'[r] = Idle))
           Apart == {"touch", "begin"}
           Forms2 == {"password", "username"}
<1>0. q \in Form /\ reqs \in [Requests -> Form] /\ Purpose(q.op, q.pc)
  BY Zenon DEF Inv, Types, Serial
<1>1. UNCHANGED <<attempts, now>>
  BY ZenonT(30) DEF Touch, Lookup, Verify, BeginHash, HashPassword, SetupAdmin, CreateMember, ChangeUserPassword, ChangeUsername,
         ResetUserPassword, UpdateUser, DeleteMember, NewSession, Logout, Fails, Commit
<1>2. ASSUME Finish(r) PROVE Goal
  BY Zenon, <1>0, <1>2 DEF Finish, Others
<1>3. ASSUME NEW f, NEW pc, Goto(r, f, pc), UNCHANGED locks, DOMAIN f = DOMAIN q,
             f.op = q.op, q.op = "login" => f.name = q.name, q.op \in Forms2 => f.user = q.user,
             q.op \in Forms2 => (pc \in Apart <=> q.pc \in Apart), Purpose(q.op, pc)
      PROVE  Goal
  <2>1. Others(r) /\ reqs'[r] = [f EXCEPT !.pc = pc]
    BY Zenon, <1>0, <1>3 DEF Goto, Others
  <2>2. DOMAIN q = {"pc", "op", "user", "session", "name", "pass", "hash", "new", "newHash", "must", "ok"}
    BY Zenon, <1>0 DEF Form
  <2>3. reqs'[r].pc = pc /\ reqs'[r].op = f.op /\ reqs'[r].name = f.name /\ reqs'[r].user = f.user
    BY Zenon, <1>3, <2>1, <2>2
  <2> QED
    BY Zenon, <1>3, <2>1, <2>3 DEF Continues
<1>4. ASSUME NEW pc, Goto(r, q, pc), UNCHANGED locks, q.op \in Forms2 => (pc \in Apart <=> q.pc \in Apart),
             Purpose(q.op, pc)
      PROVE  Goal
  BY ZenonT(30), <1>3, <1>4
<1> SUFFICES Goal
  BY Zenon, <1>1
<1> HIDE DEF Goal
<1>5. CASE Touch(r)
  <2>1. q.pc = "touch"
    BY Zenon, <1>5 DEF Touch, At
  <2>2. CASE Finish(r)
    BY Zenon, <1>2, <2>2
  <2>3. CASE Start(r, q)
    <3>1. CASE Finish(r) \/ (q.op = "logout" /\ Goto(r, q, "logout") /\ UNCHANGED locks)
      BY Zenon, <1>2, <1>4, <3>1 DEF Purpose
    <3>2. CASE /\ q.op \in {"password", "create", "username"} /\ UNCHANGED locks
               /\ \E p, new, n : \/ Goto(r, [q EXCEPT !.pass = p, !.new = new], "begin") /\ q.op = "password"
                                 \/ Goto(r, [q EXCEPT !.pass = p, !.name = n], "begin") /\ q.op = "username"
                                 \/ Goto(r, [q EXCEPT !.new = p, !.name = n], "prehash") /\ q.op = "create"
      <4>1. PICK p, new, n : \/ Goto(r, [q EXCEPT !.pass = p, !.new = new], "begin") /\ q.op = "password"
                             \/ Goto(r, [q EXCEPT !.pass = p, !.name = n], "begin") /\ q.op = "username"
                             \/ Goto(r, [q EXCEPT !.new = p, !.name = n], "prehash") /\ q.op = "create"
        BY Zenon, <3>2
      <4>2. CASE Goto(r, [q EXCEPT !.pass = p, !.new = new], "begin") /\ q.op = "password"
        <5>1. [q EXCEPT !.pass = p, !.new = new].op = q.op /\ [q EXCEPT !.pass = p, !.new = new].user = q.user
          BY Zenon, <1>0 DEF Form
        <5> QED
          BY Zenon, <1>3, <2>1, <3>2, <4>2, <5>1 DEF Purpose
      <4>3. CASE Goto(r, [q EXCEPT !.pass = p, !.name = n], "begin") /\ q.op = "username"
        <5>1. [q EXCEPT !.pass = p, !.name = n].op = q.op /\ [q EXCEPT !.pass = p, !.name = n].user = q.user
          BY Zenon, <1>0 DEF Form
        <5> QED
          BY Zenon, <1>3, <2>1, <3>2, <4>3, <5>1 DEF Purpose
      <4>4. CASE Goto(r, [q EXCEPT !.new = p, !.name = n], "prehash") /\ q.op = "create"
        <5>1. [q EXCEPT !.new = p, !.name = n].op = q.op
          BY Zenon, <1>0 DEF Form
        <5> QED
          BY Zenon, <1>3, <3>2, <4>4, <5>1 DEF Purpose
      <4> QED
        BY Zenon, <4>1, <4>2, <4>3, <4>4
    <3>3. CASE /\ q.op \in {"update", "reset", "delete"} /\ UNCHANGED locks
               /\ \E u, p : Goto(r, [q EXCEPT !.user = u, !.new = p], IF q.op = "reset" THEN "prehash" ELSE "commit")
      <4>1. PICK u, p : Goto(r, [q EXCEPT !.user = u, !.new = p], IF q.op = "reset" THEN "prehash" ELSE "commit")
        BY Zenon, <3>3
      <4>2. [q EXCEPT !.user = u, !.new = p].op = q.op
        BY ZenonT(30), <1>0 DEF Form
      <4> QED
        BY Zenon, <1>3, <3>3, <4>1, <4>2 DEF Purpose
    <3> QED
      BY ZenonT(30), <2>3, <3>1, <3>2, <3>3 DEF Start
  <2> QED
    BY Zenon, <1>5, <2>2, <2>3 DEF Touch
<1>6. CASE Lookup(r)
  <2>1. q.pc = "lookup" /\ q.op \in {"login", "setup", "password", "username"}
    BY ZenonT(30), <1>0, <1>6 DEF Lookup, At, Purpose
  <2>2. CASE Finish(r)
    BY <1>2, <2>2
  <2>3. CASE /\ UNCHANGED locks
             /\ (q.op \notin {"login", "setup"} /\ Goto(r, q, "record")) \/ Goto(r, q, "verify")
    BY Zenon, <1>4, <2>1, <2>3 DEF Purpose
  <2>4. CASE /\ UNCHANGED locks
             /\ \E u \in UserIds : /\ q.op \in {"login", "setup"} \/ u = q.user
                                   /\ Goto(r, [q EXCEPT !.user = u, !.hash = users[u].hash], "verify")
    <3>1. PICK u \in UserIds : /\ q.op \in {"login", "setup"} \/ u = q.user
                               /\ Goto(r, [q EXCEPT !.user = u, !.hash = users[u].hash], "verify")
      BY Zenon, <2>4
    <3> DEFINE f == [q EXCEPT !.user = u, !.hash = users[u].hash]
    <3>2. f.op = q.op /\ f.name = q.name /\ f.user = u
      BY Zenon, <1>0 DEF Form
    <3>3. DOMAIN f = DOMAIN q
      BY Zenon
    <3> HIDE DEF f
    <3>4. Goto(r, f, "verify")
      BY Zenon, <3>1 DEF f
    <3> QED
      BY ZenonT(30), <1>3, <2>1, <2>4, <3>1, <3>2, <3>3, <3>4 DEF Purpose
  <2> QED
    BY ZenonT(30), <1>6, <2>2, <2>3, <2>4 DEF Lookup, Named, Exists
<1>7. CASE Verify(r)
  <2>1. q.pc = "verify" /\ q.op \in {"login", "setup", "password", "username"}
    BY ZenonT(30), <1>0, <1>7 DEF Verify, At, Purpose
  <2> QED
    BY ZenonT(30), <1>2, <1>4, <1>7, <2>1 DEF Verify, Purpose
<1>8. CASE BeginHash(r)
  BY Zenon, <1>2, <1>4, <1>8 DEF BeginHash, At, Purpose
<1>9. CASE HashPassword(r)
  <2>1. Goto(r, [q EXCEPT !.newHash = Len(hashes) + 1], "commit") /\ q.pc = "hash" /\ UNCHANGED locks
    BY Zenon, <1>9 DEF HashPassword, At
  <2>2. /\ [q EXCEPT !.newHash = Len(hashes) + 1].op = q.op /\ [q EXCEPT !.newHash = Len(hashes) + 1].user = q.user
        /\ [q EXCEPT !.newHash = Len(hashes) + 1].name = q.name
    BY Zenon, <1>0 DEF Form
  <2> QED
    BY ZenonT(30), <1>3, <2>1, <2>2 DEF Purpose
<1>10. CASE SetupAdmin(r)
  BY Zenon, <1>2, <1>4, <1>10 DEF SetupAdmin, Commit, Purpose
<1>11. CASE CreateMember(r) \/ ResetUserPassword(r) \/ UpdateUser(r) \/ DeleteMember(r) \/ Logout(r)
  BY Zenon, <1>2, <1>11 DEF CreateMember, ResetUserPassword, UpdateUser, DeleteMember, Logout
<1>12. ASSUME NEW ok, NEW op, op \in Forms2, Commit(r, op), Goto(r, [q EXCEPT !.ok = ok], "record"), UNCHANGED locks
       PROVE  Goal
  <2>1. q.pc = "commit" /\ q.op = op
    BY Zenon, <1>12 DEF Commit, At
  <2>2. /\ [q EXCEPT !.ok = ok].op = q.op /\ [q EXCEPT !.ok = ok].user = q.user
    BY Zenon, <1>0 DEF Form
  <2> QED
    BY Zenon, <1>3, <1>12, <2>1, <2>2 DEF Purpose
<1>13. CASE ChangeUserPassword(r) \/ ChangeUsername(r)
  BY Zenon, <1>12, <1>13 DEF ChangeUserPassword, ChangeUsername
<1>14. CASE NewSession(r)
  <2>1. CASE Finish(r)
    BY <1>2, <2>1
  <2>2. CASE q.op = "login" /\ UNCHANGED locks /\ Goto(r, q, "record")
    BY Zenon, <1>4, <2>2 DEF Purpose
  <2>3. CASE q.op = "login" /\ UNCHANGED locks /\ Goto(r, [q EXCEPT !.session = issued + 1, !.ok = TRUE], "record")
    <3> DEFINE f == [q EXCEPT !.session = issued + 1, !.ok = TRUE]
    <3>1. f.op = q.op /\ f.name = q.name
      BY Zenon, <1>0 DEF Form
    <3>2. DOMAIN f = DOMAIN q /\ Goto(r, f, "record")
      BY Zenon, <2>3
    <3> HIDE DEF f
    <3> QED
      BY ZenonT(30), <1>3, <2>3, <3>1, <3>2 DEF Purpose
  <2> QED
    BY ZenonT(30), <1>14, <2>1, <2>2, <2>3 DEF NewSession
<1>15. CASE Fails(r)
  BY ZenonT(30), <1>2, <1>4, <1>15 DEF Fails, Purpose
<1> QED
  BY ZenonT(30), <1>5, <1>6, <1>7, <1>8, <1>9, <1>10, <1>11, <1>13, <1>14, <1>15

\* A request takes a lock that nobody held.
LEMMA BegunSerial ==
  ASSUME Serial, NEW r \in Requests, Others(r), Purpose(reqs'[r].op, reqs'[r].pc),
         loginBusy' \in BOOLEAN, loginBusy => loginBusy', changeBusy \subseteq changeBusy',
         Signing(reqs'[r]) => loginBusy' /\ \A x \in Requests : ~Signing(reqs[x]),
         Changing(reqs'[r]) => /\ reqs'[r].user \in changeBusy'
                               /\ \A x \in Requests : Changing(reqs[x]) => reqs[x].user # reqs'[r].user
  PROVE  Serial'
<1>1. ASSUME NEW x \in Requests
      PROVE  /\ Purpose(reqs'[x].op, reqs'[x].pc) /\ (Signing(reqs'[x]) => loginBusy')
             /\ Changing(reqs'[x]) => reqs'[x].user \in changeBusy'
  BY ZenonT(30) DEF Serial, Others
<1>2. ASSUME NEW y \in Requests, NEW x \in Requests,
             \/ Signing(reqs'[y]) /\ Signing(reqs'[x])
             \/ Changing(reqs'[y]) /\ Changing(reqs'[x]) /\ reqs'[y].user = reqs'[x].user
      PROVE  y = x
  BY ZenonT(30), <1>2 DEF Serial, Others
<1> QED
  BY ZenonT(30), <1>1, <1>2 DEF Serial, Signing, Changing

\* Login, Setup, the session of a cookie: a request begins.
LEMMA BeginSteps ==
  ASSUME Inv, Inv', Serial, Rates, NEW r \in Requests,
         Login(r) \/ Setup(r) \/ \E s \in SessionIds : Authenticate(r, s)
  PROVE  Serial' /\ Rates'
<1>0. reqs \in [Requests -> Form] /\ now \in Nat /\ UNCHANGED <<attempts, now, changeBusy>>
  BY ZenonT(30) DEF Inv, Types, Login, Setup, Authenticate, locks
<1>1. ASSUME NEW op, NEW pc, Others(r), reqs'[r].op = op, reqs'[r].pc = pc, pc \in {"touch", "lookup", "prehash"},
             op \notin {"password", "username"} \/ pc = "touch", pc = "lookup" => op = "login",
             \/ op \in {"login", "setup"} /\ ~loginBusy /\ loginBusy' = TRUE
             \/ op \notin {"login", "setup"} /\ UNCHANGED loginBusy
      PROVE  Serial'
  <2>1. Purpose(reqs'[r].op, reqs'[r].pc) /\ ~Changing(reqs'[r])
    BY Zenon, <1>1 DEF Purpose, Changing
  <2>2. Signing(reqs'[r]) => loginBusy' /\ \A x \in Requests : ~Signing(reqs[x])
    BY Zenon, <1>1 DEF Serial, Signing
  <2>3. loginBusy' \in BOOLEAN /\ (loginBusy => loginBusy')
    <3>1. loginBusy \in BOOLEAN
      BY Zenon DEF Serial
    <3>2. loginBusy' = TRUE \/ loginBusy' = loginBusy
      BY Zenon, <1>1
    <3> QED
      BY ZenonT(30), <3>1, <3>2
  <2> QED
    BY ZenonT(30), <1>0, <1>1, <2>1, <2>2, <2>3, BegunSerial
<1>2. ASSUME Others(r), Admitted(reqs'[r]) => \A k \in Keys \cap KeysOf(reqs'[r]) : LoginRateLimit(k)
      PROVE  Rates'
  <2>1. \A x \in Requests : Admitted(reqs'[x]) => \A k \in Keys \cap KeysOf(reqs'[x]) : LoginRateLimit(k)
    BY Zenon, <1>2 DEF Rates, Others
  <2> QED
    BY <1>0, <2>1, RatesKept
<1>3. CASE Login(r)
  <2>1. PICK n \in Names, p \in Passwords :
          LET q == [Idle EXCEPT !.op = "login", !.name = n, !.pass = p] IN
          (\A k \in KeysOf(q) : LoginRateLimit(k)) /\ Goto(r, q, "lookup")
    BY Zenon, <1>3 DEF Login
  <2> DEFINE q == [Idle EXCEPT !.op = "login", !.name = n, !.pass = p]
  <2>2. Others(r) /\ reqs'[r] = [q EXCEPT !.pc = "lookup"]
    BY Zenon, <1>0, <2>1 DEF Goto, Others
  <2>3. q.op = "login" /\ q.name = n
    BY Zenon DEF Idle
  <2>4. reqs'[r].op = "login" /\ reqs'[r].name = n /\ reqs'[r].pc = "lookup"
    BY ZenonT(30), <2>2 DEF Idle
  <2>5. KeysOf(reqs'[r]) = KeysOf(q)
    BY Zenon, <2>3, <2>4 DEF KeysOf
  <2>6. ~loginBusy /\ loginBusy' = TRUE
    BY Zenon, <1>3 DEF Login
  <2>7. Serial'
    BY Zenon, <1>1, <2>2, <2>4, <2>6
  <2>8. \A k \in KeysOf(q) : LoginRateLimit(k)
    BY Zenon, <2>1
  <2> QED
    BY Zenon, <1>2, <2>2, <2>5, <2>7, <2>8
<1>4. CASE Setup(r)
  <2>1. PICK n \in Names, p \in Passwords :
          Goto(r, [Idle EXCEPT !.op = "setup", !.name = n, !.pass = p, !.new = p], "prehash")
    BY Zenon, <1>4 DEF Setup
  <2>2. /\ Others(r)
        /\ reqs'[r] = [[Idle EXCEPT !.op = "setup", !.name = n, !.pass = p, !.new = p] EXCEPT !.pc = "prehash"]
    BY Zenon, <1>0, <2>1 DEF Goto, Others
  <2>3. reqs'[r].op = "setup" /\ reqs'[r].pc = "prehash"
    BY ZenonT(30), <2>2 DEF Idle
  <2>4. ~loginBusy /\ loginBusy' = TRUE
    BY Zenon, <1>4 DEF Setup
  <2>5. Serial'
    BY Zenon, <1>1, <2>2, <2>3, <2>4
  <2>6. ~Admitted(reqs'[r])
    BY Zenon, <2>3 DEF Admitted, Changing
  <2> QED
    BY Zenon, <1>2, <2>2, <2>5, <2>6
<1>5. ASSUME NEW s \in SessionIds, Authenticate(r, s) PROVE Serial' /\ Rates'
  <2>1. PICK op \in Ops \ {"login", "setup"} :
          Goto(r, [Idle EXCEPT !.op = op, !.session = s, !.user = sessions[s].user,
                               !.must = users[sessions[s].user].must], "touch")
    BY Zenon, <1>5 DEF Authenticate
  <2>2. /\ Others(r)
        /\ reqs'[r] = [[Idle EXCEPT !.op = op, !.session = s, !.user = sessions[s].user,
                                    !.must = users[sessions[s].user].must] EXCEPT !.pc = "touch"]
    BY Zenon, <1>0, <2>1 DEF Goto, Others
  <2>3. reqs'[r].op = op /\ reqs'[r].pc = "touch"
    BY Zenon, <2>2 DEF Idle
  <2>4. UNCHANGED loginBusy /\ op \notin {"login", "setup"}
    BY Zenon, <1>5 DEF Authenticate, locks
  <2>5. Serial'
    BY ZenonT(30), <1>1, <2>2, <2>3, <2>4
  <2>6. ~Admitted(reqs'[r])
    BY Zenon, <2>3, <2>4 DEF Admitted, Changing
  <2> QED
    BY Zenon, <1>2, <2>2, <2>5, <2>6
<1> QED
  BY Zenon, <1>3, <1>4, <1>5

\* beginAccountChange: the account is taken, and its key has room.
LEMMA ChangeBegins ==
  ASSUME Inv, Serial, Rates, NEW r \in Requests, BeginAccountChange(r)
  PROVE  Serial' /\ Rates'
<1> DEFINE q == reqs[r]
<1>0. /\ q \in Form /\ reqs \in [Requests -> Form] /\ now \in Nat /\ UNCHANGED <<attempts, now>> /\ q.pc = "begin"
      /\ q.op \in {"password", "username"}
  BY Zenon DEF Inv, Types, Serial, Purpose, BeginAccountChange, At
<1>1. CASE Finish(r)
  <2>1. Others(r) /\ reqs'[r] = Idle
    BY Zenon, <1>0, <1>1 DEF Finish, Others
  <2>2. \A x \in Requests : Admitted(reqs'[x]) => \A k \in Keys \cap KeysOf(reqs'[x]) : LoginRateLimit(k)
    BY Zenon, <2>1, AdmittedKept
  <2> QED
    BY SMTT(30), <1>0, <1>1, <2>1, <2>2, SerialKept, RatesKept
<1>2. CASE /\ q.user \notin changeBusy /\ \A k \in KeysOf(q) : LoginRateLimit(k)
           /\ Goto(r, q, "lookup") /\ changeBusy' = changeBusy \cup {q.user} /\ UNCHANGED loginBusy
  <2>1. Others(r) /\ reqs'[r] = [q EXCEPT !.pc = "lookup"]
    BY Zenon, <1>0, <1>2 DEF Goto, Others
  <2>2. reqs'[r].op = q.op /\ reqs'[r].pc = "lookup" /\ reqs'[r].user = q.user
    BY Zenon, <1>0, <2>1 DEF Form
  <2>3. Serial'
    <3>1. ~Changing(q) /\ ~Signing(q) /\ Changing(reqs'[r]) /\ ~Signing(reqs'[r])
      BY Zenon, <1>0, <2>2 DEF Changing, Signing
    <3>2. \A x \in Requests : Changing(reqs[x]) => reqs[x].user # q.user
      BY Zenon, <1>2 DEF Serial
    <3>3. Purpose(reqs'[r].op, reqs'[r].pc)
      BY Zenon, <1>0, <2>2 DEF Purpose
    <3>4. loginBusy' \in BOOLEAN /\ (loginBusy => loginBusy')
      BY Zenon, <1>2 DEF Serial
    <3> QED
      BY ZenonT(30), <1>2, <2>1, <2>2, <3>1, <3>2, <3>3, <3>4, BegunSerial
  <2>4. KeysOf(reqs'[r]) = KeysOf(q)
    BY Zenon, <1>0, <2>2 DEF KeysOf
  <2>5. \A x \in Requests : Admitted(reqs'[x]) => \A k \in Keys \cap KeysOf(reqs'[x]) : LoginRateLimit(k)
    BY ZenonT(30), <1>2, <2>1, <2>4 DEF Rates, Others
  <2> QED
    BY <1>0, <2>3, <2>5, RatesKept
<1> QED
  BY Zenon, <1>1, <1>2 DEF BeginAccountChange, RefuseChange

\* The locks and the rates are kept: a failure is recorded by a request that found
\* room for it, and nobody else recorded one for the same key since.
LEMMA RatesInductive ==
  ASSUME Inv, Inv', Serial, Rates, [Next]_vars
  PROVE  Serial' /\ Rates'
<1>0. now \in Nat /\ reqs \in [Requests -> Form] /\ now + 1 \in Nat /\ now <= now + 1
  BY DEF Inv, Types
<1>1. ASSUME UNCHANGED <<reqs, locks, attempts>>, now' \in Nat, now <= now' PROVE Serial' /\ Rates'
  <2>1. Serial'
    BY Zenon, <1>1 DEF Serial, locks
  <2>2. \A x \in Requests : Admitted(reqs'[x]) => \A k \in Keys \cap KeysOf(reqs'[x]) : LoginRateLimit(k)
    BY Zenon, <1>1 DEF Rates
  <2> QED
    BY Zenon, <1>0, <1>1, <2>1, <2>2, RatesKept
<1>2. CASE UNCHANGED vars \/ Tick \/ PurgeExpiredSessions \/ ResetAdministratorPassword
  <2>1. UNCHANGED <<reqs, locks, attempts>>
    BY ZenonT(30), <1>2 DEF vars, Tick, PurgeExpiredSessions, ResetAdministratorPassword
  <2>2. now' \in {now, now + 1}
    BY ZenonT(30), <1>2 DEF vars, Tick, PurgeExpiredSessions, ResetAdministratorPassword
  <2> QED
    BY SMTT(30), <1>0, <1>1, <2>1, <2>2
<1>3. CASE RefuseSetup
  <2> DEFINE keys == {<<"setup-global">>, <<"setup-ip">>}
  <2>1. /\ UNCHANGED <<reqs, locks, now>> /\ RecordLoginAttempts(keys, FALSE)
        /\ \A k \in Keys \cap keys : LoginRateLimit(k)
    BY Zenon, <1>3 DEF RefuseSetup
  <2>2. Serial'
    BY Zenon, <2>1 DEF Serial, locks
  <2>3. ASSUME NEW x \in Requests, NEW k \in KeysOf(reqs[x]) PROVE k \notin keys
    <3>1. k[1] \in {"ip", "ip-user", "password-change"}
      BY <2>3 DEF KeysOf
    <3>2. <<"setup-global">>[1] = "setup-global" /\ <<"setup-ip">>[1] = "setup-ip"
      BY Zenon
    <3> QED
      BY Zenon, <3>1, <3>2
  <2>4. \A x \in Requests : Admitted(reqs'[x]) =>
          \A k \in Keys \cap KeysOf(reqs'[x]) : LoginRateLimit(k) /\ k \notin keys
    BY Zenon, <2>1, <2>3 DEF Rates
  <2> HIDE DEF keys
  <2> QED
    BY Zenon, <1>0, <2>1, <2>2, <2>4, RatesRecorded
<1>4. ASSUME NEW r \in Requests, Record(r) PROVE Serial' /\ Rates'
  <2>1. /\ RecordLoginAttempts(KeysOf(reqs[r]), reqs[r].ok) /\ Finish(r) /\ UNCHANGED now /\ reqs[r].pc = "record"
    BY Zenon, <1>4 DEF Record, At
  <2>2. Others(r) /\ reqs'[r] = Idle
    BY Zenon, <1>0, <2>1 DEF Finish, Others
  <2>3. Serial'
    BY Zenon, <2>1, <2>2, SerialKept
  <2>4. Admitted(reqs[r])
    BY ZenonT(30), <2>1 DEF Serial, Purpose, Admitted, Changing
  <2>5. ASSUME NEW x \in Requests, Admitted(reqs'[x]), NEW k \in Keys \cap KeysOf(reqs'[x])
        PROVE  LoginRateLimit(k) /\ k \notin KeysOf(reqs[r])
    <3>1. Admitted(reqs[x]) /\ KeysOf(reqs'[x]) = KeysOf(reqs[x]) /\ LoginRateLimit(k) /\ x # r
      BY Zenon, <2>2, <2>5, AdmittedKept
    <3> QED
      BY ZenonT(30), <2>4, <3>1, KeysApart
  <2>6. \A k \in Keys \cap KeysOf(reqs[r]) : LoginRateLimit(k)
    BY Zenon, <2>4 DEF Rates
  <2>7. \A x \in Requests : Admitted(reqs'[x]) =>
          \A k \in Keys \cap KeysOf(reqs'[x]) : LoginRateLimit(k) /\ k \notin KeysOf(reqs[r])
    BY Zenon, <2>5
  <2> QED
    BY Zenon, <1>0, <2>1, <2>3, <2>6, <2>7, RatesRecorded
<1>5. ASSUME NEW r \in Requests, Others(r), Continues(r) \/ (Finish(r) /\ reqs'[r] = Idle), UNCHANGED <<attempts, now>>
      PROVE  Serial' /\ Rates'
  <2>1. Serial'
    BY Zenon, <1>5, SerialKept
  <2>2. \A x \in Requests : Admitted(reqs'[x]) => \A k \in Keys \cap KeysOf(reqs'[x]) : LoginRateLimit(k)
    BY Zenon, <1>5, AdmittedKept
  <2> QED
    BY SMTT(30), <1>0, <1>5, <2>1, <2>2, RatesKept
<1>6. ASSUME NEW r \in Requests, Step(r) PROVE Serial' /\ Rates'
  <2>1. CASE Login(r) \/ Setup(r) \/ \E s \in SessionIds : Authenticate(r, s)
    BY Zenon, <2>1, BeginSteps
  <2>2. CASE BeginAccountChange(r)
    BY Zenon, <2>2, ChangeBegins
  <2>3. CASE Record(r)
    BY Zenon, <1>4, <2>3
  <2>4. CASE \/ Touch(r) \/ Lookup(r) \/ Verify(r) \/ BeginHash(r) \/ HashPassword(r) \/ SetupAdmin(r)
             \/ CreateMember(r) \/ ChangeUserPassword(r) \/ ChangeUsername(r) \/ ResetUserPassword(r)
             \/ UpdateUser(r) \/ DeleteMember(r) \/ NewSession(r) \/ Logout(r) \/ Fails(r)
    BY Zenon, <1>5, <2>4, RequestSteps
  <2> QED
    BY Zenon, <1>6, <2>1, <2>2, <2>3, <2>4 DEF Step
<1> QED
  BY Zenon, <1>2, <1>3, <1>6 DEF Next

\* Sessions only go, except the one that NewSession adds after it made room.
LEMMA QuotaInductive ==
  ASSUME Inv, Inv', Quota, [Next]_vars
  PROVE  Quota'
<1>0. /\ sessions \in [SessionIds -> SessionRow] /\ NoSession.user = 0 /\ Types /\ IsFiniteSet(SessionIds)
      /\ SessionLimit \in Nat \ {0}
  <2>1. IsFiniteSet(SessionIds)
    BY AccountsAssumption, FS_Interval DEF AccountsAssumption, SessionIds
  <2> QED
    BY Zenon, <2>1, AccountsAssumption DEF Inv, Types, NoSession, AccountsAssumption
<1>1. ASSUME NEW u \in UserIds PROVE u # 0 /\ IsFiniteSet(Owned(u)) /\ Cardinality(Owned(u)) \in Nat
  <2>1. IsFiniteSet(Owned(u))
    BY Zenon, <1>0, FS_Subset DEF Owned
  <2> QED
    BY SMTT(30), <2>1, FS_CardinalityType DEF UserIds
<1>2. ASSUME NEW u \in UserIds, \A s \in SessionIds : sessions'[s].user \in {0, sessions[s].user}
      PROVE  Cardinality(Owned(u)') <= SessionLimit
  <2>1. Owned(u)' \in SUBSET Owned(u)
    BY Zenon, <1>1, <1>2 DEF Owned
  <2>2. IsFiniteSet(Owned(u)') /\ Cardinality(Owned(u)') <= Cardinality(Owned(u))
    BY Zenon, <1>1, <2>1, FS_Subset
  <2>3. Cardinality(Owned(u)') \in Nat
    BY Zenon, <2>2, FS_CardinalityType
  <2> QED
    BY SMTT(30), <1>0, <1>1, <2>2, <2>3 DEF Quota
<1>3. ASSUME Shrinks PROVE Quota'
  BY Zenon, <1>2, <1>3 DEF Shrinks, Quota
<1>4. ASSUME NEW r \in Requests, NewSession(r) PROVE Quota'
  <2> DEFINE q == reqs[r]
  <2>1. CASE UNCHANGED sessions
    BY Zenon, <1>0, <1>3, <2>1, NothingGoes
  <2>2. CASE sessions' # sessions
    <3>1. PICK k \in Kept(q.user) :
            sessions' = [s \in SessionIds |->
               IF s = issued + 1
               THEN [user |-> q.user, hash |-> q.hash, expires |-> now + Lifetime, seen |-> now]
               ELSE IF sessions[s].user = q.user /\ s \notin k THEN NoSession ELSE sessions[s]]
      BY Zenon, <1>4, <2>2 DEF NewSession
    <3>2. \A s \in SessionIds : IF s = issued + 1 THEN sessions'[s].user = q.user
                                ELSE IF sessions[s].user = q.user /\ s \notin k THEN sessions'[s].user = 0
                                ELSE sessions'[s].user = sessions[s].user
      BY Zenon, <1>0, <3>1
    <3>3. k \in SUBSET Owned(q.user) /\ Cardinality(k) <= SessionLimit - 1
      BY Zenon DEF Kept, KeptSessions, Owned
    <3>4. IsFiniteSet(Owned(q.user))
      BY Zenon, <1>0, FS_Subset DEF Owned
    <3>5. IsFiniteSet(k) /\ Cardinality(k) \in Nat
      <4>1. IsFiniteSet(k)
        BY Zenon, <3>3, <3>4, FS_Subset
      <4> QED
        BY Zenon, <4>1, FS_CardinalityType
    <3>6. IsFiniteSet(k \cup {issued + 1}) /\ Cardinality(k \cup {issued + 1}) <= SessionLimit
      <4>1. /\ IsFiniteSet(k \cup {issued + 1})
            /\ Cardinality(k \cup {issued + 1}) = IF issued + 1 \in k THEN Cardinality(k) ELSE Cardinality(k) + 1
        BY Zenon, <3>5, FS_AddElement
      <4> QED
        BY SMTT(30), <1>0, <3>3, <3>5, <4>1
    <3>7. ASSUME NEW u \in UserIds PROVE Cardinality(Owned(u)') <= SessionLimit
      <4>1. CASE u = q.user
        <5>1. Owned(u)' \in SUBSET (k \cup {issued + 1})
          BY ZenonT(30), <1>1, <3>2, <4>1 DEF Owned
        <5>2. IsFiniteSet(Owned(u)') /\ Cardinality(Owned(u)') <= Cardinality(k \cup {issued + 1})
          BY Zenon, <3>6, <5>1, FS_Subset
        <5>3. Cardinality(Owned(u)') \in Nat /\ Cardinality(k \cup {issued + 1}) \in Nat
          BY Zenon, <3>6, <5>2, FS_CardinalityType
        <5> QED
          BY SMTT(30), <1>0, <3>6, <5>2, <5>3
      <4>2. CASE u # q.user
        <5>1. Owned(u)' \in SUBSET Owned(u)
          BY Zenon, <1>1, <3>2, <4>2 DEF Owned
        <5>2. IsFiniteSet(Owned(u)') /\ Cardinality(Owned(u)') <= Cardinality(Owned(u))
          BY Zenon, <1>1, <5>1, FS_Subset
        <5>3. Cardinality(Owned(u)') \in Nat
          BY Zenon, <5>2, FS_CardinalityType
        <5> QED
          BY SMTT(30), <1>0, <1>1, <5>2, <5>3 DEF Quota
      <4> QED
        BY Zenon, <4>1, <4>2
    <3> QED
      BY Zenon, <3>7 DEF Quota
  <2> QED
    BY Zenon, <2>1, <2>2
<1>5. ASSUME ~(\E r \in Requests : NewSession(r)) PROVE Shrinks
  <2>1. \/ UNCHANGED sessions
        \/ \E u : sessions' = WithoutSessionsOf(u)
        \/ \E s : DeleteSession(s)
        \/ PurgeExpiredSessions
        \/ \E r \in Requests : sessions' = [sessions EXCEPT ![reqs[r].session].seen = now]
    <3>1. CASE RefuseSetup \/ PurgeExpiredSessions \/ Tick \/ UNCHANGED vars
      BY Zenon, <3>1 DEF RefuseSetup, Tick, tables, vars
    <3>2. CASE ResetAdministratorPassword
      BY <3>2, Zenon DEF ResetAdministratorPassword
    <3>3. ASSUME NEW r \in Requests, Step(r)
          PROVE  \/ UNCHANGED sessions
                 \/ \E u : sessions' = WithoutSessionsOf(u)
                 \/ \E s : DeleteSession(s)
                 \/ PurgeExpiredSessions
                 \/ \E x \in Requests : sessions' = [sessions EXCEPT ![reqs[x].session].seen = now]
      <4>1. CASE \/ Login(r) \/ Setup(r) \/ (\E s \in SessionIds : Authenticate(r, s)) \/ BeginAccountChange(r)
                 \/ Lookup(r) \/ Verify(r) \/ BeginHash(r) \/ HashPassword(r) \/ Record(r)
        BY <4>1, Zenon DEF Login, Setup, Authenticate, BeginAccountChange, Lookup, Verify, BeginHash, HashPassword,
                    Record, tables
      <4>2. CASE SetupAdmin(r) \/ CreateMember(r) \/ ChangeUsername(r)
        BY <4>2, Zenon DEF SetupAdmin, CreateMember, ChangeUsername, Insert, tables
      <4>3. CASE ChangeUserPassword(r) \/ ResetUserPassword(r)
        BY <4>3, Zenon DEF ChangeUserPassword, ResetUserPassword, SetPassword, tables
      <4>4. CASE UpdateUser(r) \/ DeleteMember(r)
        BY <4>4, Zenon DEF UpdateUser, DeleteMember, tables
      <4>5. CASE Logout(r) \/ Fails(r)
        BY <4>5, Zenon DEF Logout, Fails
      <4>6. CASE Touch(r)
        BY <4>6, Zenon DEF Touch
      <4> QED
        BY ZenonT(30), <1>5, <3>3, <4>1, <4>2, <4>3, <4>4, <4>5, <4>6 DEF Step
    <3> QED
      BY Zenon, <3>1, <3>2, <3>3 DEF Next
  <2>2. CASE UNCHANGED sessions
    BY Zenon, <1>0, <2>2, NothingGoes
  <2>3. CASE \E u : sessions' = WithoutSessionsOf(u)
    BY Zenon, <1>0, <2>3, Revoked
  <2>4. CASE \E s : DeleteSession(s)
    BY Zenon, <1>0, <2>4, OneGoes
  <2>5. CASE PurgeExpiredSessions
    <3>1. sessions' \in [SessionIds -> SessionRow]
      BY Zenon DEF Inv, Types
    <3> QED
      BY Zenon, <1>0, <2>5, <3>1 DEF PurgeExpiredSessions, Shrinks
  <2>6. CASE \E r \in Requests : sessions' = [sessions EXCEPT ![reqs[r].session].seen = now]
    <3>1. sessions' \in [SessionIds -> SessionRow]
      BY DEF Inv, Types
    <3> QED
      BY <1>0, <2>6, <3>1 DEF Shrinks, SessionRow
  <2> QED
    BY Zenon, <2>1, <2>2, <2>3, <2>4, <2>5, <2>6
<1> QED
  BY Zenon, <1>3, <1>4, <1>5

\* The limits of sessions and of failed attempts hold, whatever requests run at the
\* same time: sessions_user_limit makes room first, and loginMu and
\* accountChangeBusy keep a limit that was checked valid until the failure is
\* recorded.
THEOREM LimitsAlwaysHold == Spec => []LimitsHold
<1>1. Init => Limited
  <2> SUFFICES ASSUME Init PROVE Limited
    OBVIOUS
  <2>1. Idle.op = "none" /\ Idle.pc = "idle" /\ NoSession.user = 0
    BY Zenon DEF Idle, NoSession
  <2>2. Serial
    BY Zenon, <2>1 DEF Init, Serial, Signing, Changing, Purpose
  <2>3. Rates
    <3>1. IsFiniteSet({}) /\ Cardinality({}) = 0
      BY Zenon, FS_EmptySet
    <3>2. \A k \in Keys : Recent(k) = {} /\ attempts[k] = {} /\ Limit(k) \in Nat
      BY Zenon, AccountsAssumption DEF AccountsAssumption, Init, Recent, Limit
    <3>3. \A r \in Requests : ~Admitted(reqs[r])
      BY Zenon, <2>1 DEF Init, Admitted, Changing
    <3>4. attempts \in [Keys -> SUBSET (Nat \X Nat)]
      BY Zenon DEF Init
    <3>5. \A k \in Keys : IsFiniteSet(attempts[k]) /\ Cardinality(Recent(k)) <= Limit(k)
      BY SMTT(30), <3>1, <3>2
    <3> QED
      BY Zenon, <3>3, <3>4, <3>5 DEF Rates
  <2>4. Quota
    <3>1. \A u \in UserIds : Owned(u) = {}
      BY <2>1 DEF Init, Owned, UserIds
    <3> QED
      BY SMTT(30), <3>1, FS_EmptySet, AccountsAssumption DEF AccountsAssumption, Quota
  <2> QED
    BY Zenon, <2>2, <2>3, <2>4 DEF Limited
<1>2. Inv /\ Inv' /\ Limited /\ [Next]_vars => Limited'
  BY Zenon, RatesInductive, QuotaInductive DEF Limited
<1>3. Limited => LimitsHold
  BY Zenon DEF Limited, Rates, Quota, Owned, LimitsHold
<1> QED
  BY <1>1, <1>2, <1>3, InvariantHolds, PTL DEF Spec
=============================================================================
